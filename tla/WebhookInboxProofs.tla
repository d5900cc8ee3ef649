------------------------- MODULE WebhookInboxProofs -------------------------
(***************************************************************************)
(* Theorems about the abstract inbox: what WebhookIngest inherits from it  *)
(* wherever it implements it.                                              *)
(***************************************************************************)
EXTENDS WebhookInbox, FiniteSetTheorems, TLAPS

\* Every stored key has the delivery that stored it, and no other is fresh.
Origin ==
    /\ \A c \in Deliveries : settled[c] # Pending => settled[c].key \in stored
    /\ \A k \in stored : \E c \in Deliveries : settled[c] = [key |-> k, fresh |-> TRUE]
    /\ \A b, c \in Deliveries :
           settled[b].fresh /\ settled[c].fresh /\ settled[b].key = settled[c].key => b = c

IInv == TypeOK /\ Origin /\ IsFiniteSet(stored) /\ TallyIsExact

\* A settled delivery is not pending: a key is a pair, Pending has none.
LEMMA SettledIsNotPending ==
    ASSUME NEW d \in Devices, NEW e \in EventIds, NEW b \in BOOLEAN
    PROVE  [key |-> <<d, e>>, fresh |-> b] # Pending
<1>1. <<d, e>> # <<>>
  OBVIOUS
<1> QED
  BY <1>1 DEF Pending

LEMMA InitInv == Init => IInv
<1> SUFFICES ASSUME Init PROVE IInv
  OBVIOUS
<1>1. TypeOK
  BY DEF Init, TypeOK, Keys
<1>2. Origin
  BY DEF Init, Origin, Pending
<1>3. IsFiniteSet(stored) /\ Cardinality({}) = 0
  BY FS_EmptySet DEF Init
<1>4. \A d \in Devices : EventsOf(d) = {}
  BY DEF Init, EventsOf
<1> QED
  BY <1>1, <1>2, <1>3, <1>4 DEF IInv, TallyIsExact, Init

\* A first delivery adds one key, of its own device, to the store.
LEMMA AcceptInv ==
    ASSUME IInv, NEW c \in Deliveries, NEW d \in Devices, NEW e \in EventIds, Accept(c, d, e)
    PROVE  IInv'
<1> DEFINE k == <<d, e>>
<1>1. k \in Keys /\ k \notin stored /\ stored' = stored \cup {k}
  BY DEF Accept, Keys
<1>2. [key |-> k, fresh |-> TRUE] \in Settlement
  BY <1>1 DEF Settlement
<1>3. TypeOK'
  BY <1>1, <1>2 DEF IInv, TypeOK, Accept
<1>4. Origin'
  <2>1. settled'[c] = [key |-> k, fresh |-> TRUE]
    BY DEF IInv, TypeOK, Accept
  <2>2. \A b \in Deliveries \ {c} : settled'[b] = settled[b]
    BY DEF IInv, TypeOK, Accept
  <2>3. \A b \in Deliveries : settled[b].fresh => settled[b].key \in stored
    BY DEF IInv, Origin, Pending
  <2>4. \A j \in stored : \E b \in Deliveries : settled'[b] = [key |-> j, fresh |-> TRUE]
    <3>1. \A b \in Deliveries : settled[b].fresh => b # c
      BY DEF Accept, Pending
    <3>2. \A j \in stored : \E b \in Deliveries : settled[b] = [key |-> j, fresh |-> TRUE]
      BY DEF IInv, Origin
    <3> QED
      BY <2>2, <3>1, <3>2
  <2>5. \A b \in Deliveries : settled'[b] # Pending => settled'[b].key \in stored'
    BY <1>1, <2>1, <2>2 DEF IInv, Origin
  <2>6. \A j \in stored' : \E b \in Deliveries : settled'[b] = [key |-> j, fresh |-> TRUE]
    BY <1>1, <2>1, <2>4
  <2>7. \A a, b \in Deliveries :
            settled'[a].fresh /\ settled'[b].fresh /\ settled'[a].key = settled'[b].key => a = b
    BY <1>1, <2>1, <2>2, <2>3 DEF IInv, Origin
  <2> QED
    BY <2>5, <2>6, <2>7 DEF Origin
<1>5. IsFiniteSet(stored')
  BY <1>1, FS_AddElement DEF IInv
<1>6. TallyIsExact'
  <2> SUFFICES ASSUME NEW x \in Devices PROVE tally'[x] = Cardinality(EventsOf(x)')
    BY DEF TallyIsExact
  <2>1. IsFiniteSet(EventsOf(x)) /\ tally[x] = Cardinality(EventsOf(x))
    BY FS_Subset DEF IInv, TallyIsExact, EventsOf
  <2>2. CASE x = d
    <3>1. EventsOf(x)' = EventsOf(x) \cup {k} /\ k \notin EventsOf(x)
      BY <1>1, <2>2 DEF EventsOf
    <3>2. Cardinality(EventsOf(x)') = Cardinality(EventsOf(x)) + 1
      BY <2>1, <3>1, FS_AddElement
    <3> QED
      BY <2>1, <2>2, <3>2 DEF IInv, TypeOK, Accept
  <2>3. CASE x # d
    <3>1. EventsOf(x)' = EventsOf(x)
      BY <1>1, <2>3 DEF EventsOf
    <3> QED
      BY <2>1, <2>3, <3>1 DEF IInv, TypeOK, Accept
  <2> QED
    BY <2>2, <2>3
<1> QED
  BY <1>3, <1>4, <1>5, <1>6 DEF IInv

\* A repeated delivery settles itself and changes nothing else.
LEMMA IgnoreInv ==
    ASSUME IInv, NEW c \in Deliveries, NEW d \in Devices, NEW e \in EventIds, Ignore(c, d, e)
    PROVE  IInv'
<1> DEFINE k == <<d, e>>
<1>1. k \in stored /\ UNCHANGED <<stored, tally>>
  BY DEF Ignore
<1>2. [key |-> k, fresh |-> FALSE] \in Settlement
  BY <1>1 DEF Settlement, IInv, TypeOK
<1>3. TypeOK'
  BY <1>1, <1>2 DEF IInv, TypeOK, Ignore
<1>4. Origin'
  <2>1. settled'[c] = [key |-> k, fresh |-> FALSE]
    BY DEF IInv, TypeOK, Ignore
  <2>2. \A b \in Deliveries \ {c} : settled'[b] = settled[b]
    BY DEF IInv, TypeOK, Ignore
  <2>3. \A j \in stored : \E b \in Deliveries : settled'[b] = [key |-> j, fresh |-> TRUE]
    BY <2>2 DEF IInv, Origin, Ignore, Pending
  <2> QED
    BY <1>1, <2>1, <2>2, <2>3 DEF IInv, Origin
<1> QED
  BY <1>1, <1>3, <1>4 DEF IInv, TallyIsExact, EventsOf

LEMMA StepInv == IInv /\ [Next]_vars => IInv'
<1> SUFFICES ASSUME IInv, [Next]_vars PROVE IInv'
  OBVIOUS
<1>1. CASE UNCHANGED vars
  BY <1>1 DEF vars, IInv, TypeOK, Origin, TallyIsExact, EventsOf
<1> QED
  BY <1>1, AcceptInv, IgnoreInv DEF Next

\* In the inbox the tally of every device is the number of its stored events.
THEOREM InboxTally == Spec => []TallyIsExact
BY InitInv, StepInv, PTL DEF Spec, IInv

\* In the inbox every stored event was settled as fresh by exactly one of its
\* deliveries, and no delivery is settled without its event being stored.
THEOREM InboxSettledOnce == Spec => []SettledOnce
<1>1. IInv => SettledOnce
  BY SettledIsNotPending DEF IInv, Origin, SettledOnce, Pending
<1> QED
  BY <1>1, InitInv, StepInv, PTL DEF Spec
=============================================================================
