--------------------------- MODULE PosixMetadata ---------------------------
(***************************************************************************)
(* The metadata of one POSIX port (src/wepoll_ex_posix.c).  The kernel     *)
(* keys its interest list by descriptor and open file description, and an  *)
(* event carries only the caller's 64-bit data; the library keeps a list   *)
(* of nodes beside it to add the caller's context to the events of a wait. *)
(* A control operation holds p->lock over the kernel call and the change   *)
(* of the nodes; a wait blocks in the kernel without it.                   *)
(*                                                                         *)
(* The kernel's interest list, descriptors and open file descriptions are  *)
(* external.  An open file description is not closed while a control       *)
(* operation on its descriptor is under way.                               *)
(***************************************************************************)
EXTENDS Integers, Sequences, FiniteSets

CONSTANTS
    Waiters,      \* threads in posix_wait_ex
    Fds, Files,   \* descriptors, open file descriptions
    Fingerprint,        \* the fstat fingerprint of each open file description
    Data, Contexts,
    MaxNodes,     \* bound of the model: no more nodes are created
    NoMemory,     \* allocating a node can fail
    None

VARIABLES
    file,     \* the open file description of each descriptor, or None
    interest, \* the kernel's list: for a descriptor and description, the
              \* event's data and (ghost) the context given with it
    nodes,    \* p->buckets: newest first
    ctl,      \* the control operation that holds p->lock, or None
    wpc,      \* where each waiter is
    event,    \* what its native wait returned: data and (ghost) context
    stable,   \* p->metadata_generation is still what it read
    given,    \* the context of the event it returned
    undone    \* ghost: an ADD was taken back since it read the generation

vars == <<file, interest, nodes, ctl, wpc, event, stable, given, undone>>

Entry == [data : Data, ctx : Contexts]
Keys  == Fds \X Files
Control == [op : {"ADD", "MOD", "DEL"}, fd : Fds, entry : Entry \cup {None}]

ASSUME NoneFresh == None \notin Files /\ None \notin Entry /\ None \notin Control

Init ==
    /\ file = [f \in Fds |-> None]
    /\ interest = [k \in Keys |-> None]
    /\ nodes = <<>>
    /\ ctl = None
    /\ wpc = [w \in Waiters |-> "idle"]
    /\ event = [w \in Waiters |-> None]
    /\ stable = [w \in Waiters |-> FALSE]
    /\ given = [w \in Waiters |-> None]
    /\ undone = [w \in Waiters |-> FALSE]

waiting == <<wpc, event, stable, given, undone>>

----------------------------------------------------------------------------
(* The application opens a file or duplicates a descriptor of one that is  *)
(* open elsewhere, and closes a descriptor whose description is kept open  *)
(* elsewhere or not; the kernel drops the registrations of a description   *)
(* that is gone.                                                           *)
Open(f, o) ==
    /\ file[f] = None
    /\ file' = [file EXCEPT ![f] = o]
    /\ UNCHANGED <<interest, nodes, ctl, waiting>>

Close(f, kept) ==
    /\ file[f] # None
    /\ ctl # None => ctl.fd # f
    /\ (\E g \in Fds \ {f} : file[g] = file[f]) => kept
    /\ file' = [file EXCEPT ![f] = None]
    /\ interest' = [k \in Keys |->
                      IF k[2] = file[f] /\ ~kept THEN None ELSE interest[k]]
    /\ UNCHANGED <<nodes, ctl, waiting>>

----------------------------------------------------------------------------
(* node_find_identity_locked: the places of the nodes that match *)
Matches(f) == {i \in DOMAIN nodes : nodes[i].fd = f /\ nodes[i].print = Fingerprint[file[f]]}
MutAmbiguous(f) == FALSE    \* mutant: the first match is taken
Ambiguous(f) == Cardinality(Matches(f)) > 1

(* port_ctl_ctx up to the kernel call.  An ambiguous fingerprint, or the   *)
(* kernel's refusal, is an error that changes nothing, and so is a failed  *)
(* reservation of the node a MOD will need.                                *)
Ctl(op, f, e) ==
    LET key == <<f, file[f]>> IN
    /\ ctl = None /\ file[f] # None
    /\ op # "ADD" => ~Ambiguous(f)
    /\ op = "ADD" <=> interest[key] = None
    /\ op = "DEL" \/ Len(nodes) < MaxNodes
    /\ interest' = [interest EXCEPT ![key] = IF op = "DEL" THEN None ELSE e]
    /\ ctl' = [op |-> op, fd |-> f, entry |-> IF op = "DEL" THEN None ELSE e]
    /\ UNCHANGED <<file, nodes, waiting>>

NewNode(f, e) == [fd |-> f, print |-> Fingerprint[file[f]], data |-> e.data, ctx |-> e.ctx]

(* node_remove_ptr_locked *)
Without(i) == SubSeq(nodes, 1, i - 1) \o SubSeq(nodes, i + 1, Len(nodes))

(* p->metadata_generation++ *)
Bumped == [w \in Waiters |-> FALSE]

CtlCommit ==
    LET f == ctl.fd
        m == IF ctl.op = "ADD" THEN {} ELSE Matches(f)
    IN  /\ ctl # None
        /\ \/ /\ ctl.op = "DEL"
              /\ nodes' = IF m = {} THEN nodes ELSE Without(CHOOSE i \in m : TRUE)
              /\ stable' = IF m = {} THEN stable ELSE Bumped
           \/ /\ ctl.op # "DEL" /\ m # {}
              /\ nodes' = [nodes EXCEPT ![CHOOSE i \in m : TRUE] = NewNode(f, ctl.entry)]
              /\ stable' = Bumped
           \/ /\ ctl.op # "DEL" /\ m = {}
              /\ nodes' = <<NewNode(f, ctl.entry)>> \o nodes
              /\ stable' = Bumped
        /\ ctl' = None
        /\ UNCHANGED <<file, interest, wpc, event, given, undone>>

(* The node of an ADD cannot be allocated: the registration is taken back. *)
RolledBack(key) == [interest EXCEPT ![key] = None]

CtlRollback ==
    /\ ctl # None /\ ctl.op = "ADD"
    /\ NoMemory
    /\ interest' = RolledBack(<<ctl.fd, file[ctl.fd]>>)
    /\ undone' = [w \in Waiters |-> undone[w] \/ wpc[w] \in {"wait", "decorate"}]
    /\ ctl' = None
    /\ UNCHANGED <<file, nodes, wpc, event, stable, given>>

(* port_rearm: the kernel is given the node's event again. *)
Rearm(f) ==
    LET key == <<f, file[f]>> IN
    /\ ctl = None /\ file[f] # None
    /\ interest[key] # None
    /\ ~Ambiguous(f)
    /\ \E i \in Matches(f) :
          interest' = [interest EXCEPT ![key] = [data |-> nodes[i].data, ctx |-> nodes[i].ctx]]
    /\ UNCHANGED <<file, nodes, ctl, waiting>>

----------------------------------------------------------------------------
(* posix_wait_ex: read the generation, wait in the kernel, decorate *)
ReadGeneration(w) ==
    /\ wpc[w] = "idle" /\ ctl = None
    /\ stable' = [stable EXCEPT ![w] = TRUE]
    /\ given' = [given EXCEPT ![w] = None]
    /\ wpc' = [wpc EXCEPT ![w] = "wait"]
    /\ UNCHANGED <<file, interest, nodes, ctl, event, undone>>

NativeWait(w) ==
    /\ wpc[w] = "wait"
    /\ \E k \in Keys : interest[k] # None /\ event' = [event EXCEPT ![w] = interest[k]]
    /\ wpc' = [wpc EXCEPT ![w] = "decorate"]
    /\ UNCHANGED <<file, interest, nodes, ctl, stable, given, undone>>

(* node_snapshot_by_data_locked: only a unique match counts *)
Snapshot(data) ==
    LET m == {i \in DOMAIN nodes : nodes[i].data = data}
    IN  IF Cardinality(m) = 1 THEN nodes[CHOOSE i \in m : TRUE].ctx ELSE None

MutTrusted(w) == TRUE    \* mutant: the generation is not compared
Trusted(w) == stable[w]

Decorate(w) ==
    /\ wpc[w] = "decorate" /\ ctl = None
    /\ given' = [given EXCEPT ![w] = IF Trusted(w) THEN Snapshot(event[w].data) ELSE None]
    /\ stable' = [stable EXCEPT ![w] = FALSE]
    /\ wpc' = [wpc EXCEPT ![w] = "returned"]
    /\ UNCHANGED <<file, interest, nodes, ctl, event, undone>>

Return(w) ==
    /\ wpc[w] = "returned"
    /\ given' = [given EXCEPT ![w] = None]
    /\ event' = [event EXCEPT ![w] = None]
    /\ undone' = [undone EXCEPT ![w] = FALSE]
    /\ wpc' = [wpc EXCEPT ![w] = "idle"]
    /\ UNCHANGED <<file, interest, nodes, ctl, stable>>

Next ==
    \/ \E f \in Fds, o \in Files : Open(f, o)
    \/ \E f \in Fds, kept \in BOOLEAN : Close(f, kept)
    \/ \E f \in Fds, op \in {"ADD", "MOD", "DEL"}, e \in Entry : Ctl(op, f, e)
    \/ CtlCommit \/ CtlRollback
    \/ \E f \in Fds : Rearm(f)
    \/ \E w \in Waiters : ReadGeneration(w) \/ NativeWait(w) \/ Decorate(w) \/ Return(w)

Spec == Init /\ [][Next]_vars

----------------------------------------------------------------------------
(* While no control operation is under way, every registration in the      *)
(* kernel has a node that agrees with it: "Keep the native interest list   *)
(* and the extension metadata synchronized", also after close and reuse    *)
(* of a descriptor and after a failed allocation.                          *)
Synchronized ==
    ctl = None =>
        \A f \in Fds, o \in Files : interest[<<f, o>>] # None =>
            \E i \in DOMAIN nodes :
                /\ nodes[i].fd = f /\ nodes[i].print = Fingerprint[o]
                /\ nodes[i].data = interest[<<f, o>>].data
                /\ nodes[i].ctx = interest[<<f, o>>].ctx

(* The context returned with an event is the one its registration had when *)
(* the kernel produced the event; a wait that overlaps a mutation returns  *)
(* none.  Excepted is the overlap with an ADD that is taken back for lack  *)
(* of memory: it leaves metadata_generation as it was.                     *)
ContextRight ==
    \A w \in Waiters : given[w] # None => given[w] = event[w].ctx \/ undone[w]
=============================================================================
