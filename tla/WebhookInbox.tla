---------------------------- MODULE WebhookInbox ----------------------------
(***************************************************************************)
(* What the webhook endpoint promises, without requests, sessions, locks   *)
(* or processes: an idempotent inbox.  A delivery of an event that is not  *)
(* stored yet stores it, adds one to the tally of its device and is        *)
(* settled as fresh; a delivery of a stored event changes neither and is   *)
(* settled as a duplicate.  A delivery may also never be settled (refused, *)
(* failed, its process died).                                              *)
(*                                                                         *)
(* WebhookIngest is the program; one database transaction of its handler   *)
(* is one step here.                                                       *)
(***************************************************************************)
EXTENDS Naturals, FiniteSets

CONSTANTS
    Deliveries,     \* the deliveries devices attempt, retries included
    Devices,        \* devices with a row in the database
    EventIds        \* event identifiers, unique per device only

VARIABLES
    stored,         \* <<device, event id>> of every stored event
    tally,          \* per device: the number of events counted
    settled         \* per delivery: what it was settled as, or Pending

vars == <<stored, tally, settled>>

Keys == Devices \X EventIds
Pending == [key |-> <<>>, fresh |-> FALSE]
Settlement == [key : Keys, fresh : BOOLEAN]

Init ==
    /\ stored = {}
    /\ tally = [d \in Devices |-> 0]
    /\ settled = [c \in Deliveries |-> Pending]

\* The first delivery of an event.
Accept(c, d, e) ==
    /\ settled[c] = Pending
    /\ <<d, e>> \notin stored
    /\ stored' = stored \cup {<<d, e>>}
    /\ tally' = [tally EXCEPT ![d] = @ + 1]
    /\ settled' = [settled EXCEPT ![c] = [key |-> <<d, e>>, fresh |-> TRUE]]

\* A repeated delivery: acknowledged, and otherwise without effect.
Ignore(c, d, e) ==
    /\ settled[c] = Pending
    /\ <<d, e>> \in stored
    /\ settled' = [settled EXCEPT ![c] = [key |-> <<d, e>>, fresh |-> FALSE]]
    /\ UNCHANGED <<stored, tally>>

Next == \E c \in Deliveries, d \in Devices, e \in EventIds :
            Accept(c, d, e) \/ Ignore(c, d, e)

Spec == Init /\ [][Next]_vars

-----------------------------------------------------------------------------
TypeOK ==
    /\ stored \subseteq Keys
    /\ tally \in [Devices -> Nat]
    /\ settled \in [Deliveries -> Settlement \cup {Pending}]

EventsOf(d) == {k \in stored : k[1] = d}

\* The tally of a device is the number of its stored events.
TallyIsExact == \A d \in Devices : tally[d] = Cardinality(EventsOf(d))

\* Every settled delivery's event is stored, and every stored event was
\* settled as fresh exactly once.
SettledOnce ==
    /\ \A c \in Deliveries : settled[c] # Pending => settled[c].key \in stored
    /\ \A k \in stored : \E c \in Deliveries : settled[c] = [key |-> k, fresh |-> TRUE]
    /\ \A b, c \in Deliveries :
           /\ settled[b] # Pending /\ settled[b].fresh
           /\ settled[c] = settled[b]
           => b = c
=============================================================================
