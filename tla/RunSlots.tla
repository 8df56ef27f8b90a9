------------------------------- MODULE RunSlots -------------------------------
(***************************************************************************)
(* KunaRunSlots as a data type: a counter of admitted runs and the grants  *)
(* that wait for one of them to be released, first come first served.      *)
(*                                                                         *)
(* Every call of `acquire` is a ticket.  The caller of a ticket learns     *)
(* later, when its promise resolves, that it holds a slot or that its      *)
(* signal aborted first.                                                   *)
(***************************************************************************)
EXTENDS Lists, FiniteSets

CONSTANT Tickets

ASSUME TicketsAssumption == IsFiniteSet(Tickets)

TicketState == {"none", "waiting", "held", "released", "aborted"}

(* The value of a KunaRunSlots: #active, #waiting and the tickets given out. *)
Slots == [active : Nat, waiting : Seq(Tickets), ticket : [Tickets -> TicketState]]

FreshSlots == [active |-> 0, waiting |-> <<>>, ticket |-> [t \in Tickets |-> "none"]]

(* The tickets whose run holds a slot.                                      *)
Holders(s) == {t \in Tickets : s.ticket[t] = "held"}

(* `acquire`: admitted at once, or queued.                                  *)
Acquired(s, capacity, t) ==
    IF s.active < capacity
      THEN [s EXCEPT !.active = @ + 1, !.ticket[t] = "held"]
      ELSE [s EXCEPT !.waiting = Append(@, t), !.ticket[t] = "waiting"]

GiveUp(tickets, ts) ==
    [t \in Tickets |-> IF t \in ts /\ tickets[t] = "waiting" THEN "aborted" ELSE tickets[t]]

(* The abort listeners of waiting tickets; a granted one has none.          *)
Aborted(s, ts) ==
    [s EXCEPT !.waiting = Without(@, ts), !.ticket = GiveUp(@, ts)]

(* The slot that became free goes to the first grant that waits.            *)
Granted(s) ==
    IF s.waiting = <<>>
      THEN s
      ELSE [s EXCEPT !.active = @ + 1,
                     !.waiting = Tail(@),
                     !.ticket[Head(s.waiting)] = "held"]

(* Variant: a second call of the release frees another slot.                *)
ReleasedAgain(s, t) ==
    IF s.ticket[t] \in {"held", "released"} /\ s.active > 0
      THEN Granted([s EXCEPT !.active = @ - 1, !.ticket[t] = "released"])
      ELSE s

(* A release; later calls of it do nothing.                                 *)
Released(s, t) ==
    IF s.ticket[t] = "held"
      THEN Granted([s EXCEPT !.active = @ - 1, !.ticket[t] = "released"])
      ELSE s

-----------------------------------------------------------------------------

(* The counter is exactly the number of runs that hold a slot.              *)
CountsTheHeld(s) == s.active = Cardinality(Holders(s))

(* Exactly the waiting tickets are in the queue, once each.                 *)
QueuesTheWaiting(s) ==
    /\ \A t \in Tickets :
          s.ticket[t] = "waiting" <=> \E i \in 1 .. Len(s.waiting) : s.waiting[i] = t
    /\ \A i, j \in 1 .. Len(s.waiting) : s.waiting[i] = s.waiting[j] => i = j

(* No more than the capacity, and no slot is idle while somebody waits.     *)
WithinCapacity(s, capacity) ==
    /\ s.active <= capacity
    /\ s.waiting # <<>> => s.active = capacity

SlotsSound(s, capacity) ==
    /\ CountsTheHeld(s)
    /\ QueuesTheWaiting(s)
    /\ WithinCapacity(s, capacity)
=============================================================================
