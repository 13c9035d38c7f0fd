-------------------------------- MODULE EventFeed --------------------------------
(***************************************************************************)
(* What the readers of a task run's events are promised: events get        *)
(* growing numbers, no two carry the same key, and a reader is given every *)
(* event in the feed between one cursor and the next.  An event whose      *)
(* write was cut short may be withdrawn, but its number is not used again. *)
(***************************************************************************)
EXTENDS Naturals

CONSTANTS Readers, NoKey

VARIABLES
    feed,     \* the events to be read, [id |-> ..., key |-> ...]
    cursor,   \* of each reader: the last number it was given
    seen      \* of each reader: the events it was given

vars == <<feed, cursor, seen>>

Init ==
    /\ feed = {}
    /\ cursor = [r \in Readers |-> 0]
    /\ seen = [r \in Readers |-> {}]

Publish(e) ==
    /\ \A f \in feed : f.id < e.id /\ (f.key = e.key => e.key = NoKey)
    /\ \A r \in Readers : cursor[r] < e.id
    /\ feed' = feed \cup {e}
    /\ UNCHANGED <<cursor, seen>>

Withdraw(e) ==
    /\ e \in feed /\ \A f \in feed : f.id <= e.id
    /\ feed' = feed \ {e}
    /\ UNCHANGED <<cursor, seen>>

Deliver(r, e) ==
    /\ e \in feed /\ e.id > cursor[r]
    /\ cursor' = [cursor EXCEPT ![r] = e.id]
    /\ seen' = [seen EXCEPT ![r] =
                   @ \cup {f \in feed : cursor[r] < f.id /\ f.id <= e.id}]
    /\ UNCHANGED feed

Next ==
    \/ \E e \in feed' \ feed : Publish(e)
    \/ \E e \in feed : Withdraw(e) \/ \E r \in Readers : Deliver(r, e)

Spec == Init /\ [][Next]_vars
================================================================================
