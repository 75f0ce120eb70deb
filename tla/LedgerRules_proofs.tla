-------------------------- MODULE LedgerRules_proofs --------------------------
(***************************************************************************)
(* Facts about the rules of LedgerRules: what one more event does to a     *)
(* journal, to the status it reconstructs to and to its verification.      *)
(***************************************************************************)
EXTENDS LedgerRules, Integers, FiniteSetTheorems, TLAPS

(* A reservation has a status exactly when its creation is in the journal. *)
LEMMA StatusCreated ==
  ASSUME NEW jn, NEW e \in Envelopes
  PROVE  /\ StatusOf(jn)[e] # "absent" <=> Created(jn, e)
         /\ StatusOf(jn)[e] \in {"absent", "reserved", "dispatched", "released"}
         /\ StatusOf(jn)[e] = "reserved" =>
              /\ Created(jn, e)
              /\ ~Occurs(jn, "dispatch_committed", e)
              /\ ~Occurs(jn, "reservation_released", e)
  BY DEF StatusOf

(* appendEvent leaves the earlier events where they were. *)
LEMMA AppendShape ==
  ASSUME NEW S, NEW jn \in Seq(S), NEW ev \in S
  PROVE  /\ Append(jn, ev) \in Seq(S)
         /\ Len(Append(jn, ev)) = Len(jn) + 1
         /\ DOMAIN jn = 1..Len(jn) /\ Len(jn) \in Nat
         /\ DOMAIN Append(jn, ev) = DOMAIN jn \cup {Len(jn) + 1}
         /\ \A i \in DOMAIN jn : Append(jn, ev)[i] = jn[i]
         /\ Append(jn, ev)[Len(jn) + 1] = ev
  OBVIOUS

(* Only a reservation_created event adds to the created envelopes. *)
LEMMA CreatedAppend ==
  ASSUME NEW S, NEW jn \in Seq(S), NEW ev \in S, NEW e
  PROVE  Created(Append(jn, ev), e) <=>
           Created(jn, e) \/ (ev.type = "reservation_created" /\ ev.envelope = e)
<1> DEFINE new == Append(jn, ev)
<1>1. /\ DOMAIN new = DOMAIN jn \cup {Len(jn) + 1}
      /\ \A i \in DOMAIN jn : new[i] = jn[i]
      /\ new[Len(jn) + 1] = ev
  BY AppendShape
<1> HIDE DEF new
<1>2. Created(new, e) <=> Created(jn, e) \/ (ev.type = "reservation_created" /\ ev.envelope = e)
  BY <1>1 DEF Created
<1> QED
  BY <1>2 DEF new

(* An event occurs after an append if it did before or is the new one. *)
LEMMA OccursAppend ==
  ASSUME NEW S, NEW jn \in Seq(S), NEW ev \in S, NEW type, NEW e
  PROVE  Occurs(Append(jn, ev), type, e) <=> Occurs(jn, type, e) \/ IsA(ev, type, e)
<1> DEFINE new == Append(jn, ev)
<1>1. /\ DOMAIN new = DOMAIN jn \cup {Len(jn) + 1}
      /\ \A i \in DOMAIN jn : new[i] = jn[i]
      /\ new[Len(jn) + 1] = ev
  BY AppendShape
<1> HIDE DEF new
<1>2. Occurs(new, type, e) <=> Occurs(jn, type, e) \/ IsA(ev, type, e)
  BY <1>1 DEF Occurs
<1> QED
  BY <1>2 DEF new

(* A journal that verifies still does after a linked event whose           *)
(* transition is legal.                                                    *)
LEMMA VerifiesAppend ==
  ASSUME NEW S, NEW jn \in Seq(S), NEW ev \in S,
         Verifies(jn),
         ev.sequence = Len(jn) + 1, ev.previous = LastDigest(jn),
         IF ev.type = "reservation_created"
           THEN ~Occurs(jn, "reservation_created", ev.envelope)
           ELSE /\ Occurs(jn, "reservation_created", ev.envelope)
                /\ ~Occurs(jn, "dispatch_committed", ev.envelope)
                /\ ~Occurs(jn, "reservation_released", ev.envelope)
  PROVE  Verifies(Append(jn, ev))
<1> DEFINE new == Append(jn, ev)
           n   == Len(jn)
<1>1. /\ DOMAIN jn = 1..n /\ n \in Nat
      /\ DOMAIN new = 1..(n + 1)
      /\ \A i \in 1..n : new[i] = jn[i]
      /\ new[n + 1] = ev
  BY AppendShape
<1>2. n = 0 <=> jn = <<>>
  OBVIOUS
<1> HIDE DEF new, n
<1>3. Chained(new)
  <2> SUFFICES ASSUME NEW i \in 1..(n + 1)
               PROVE  /\ new[i].sequence = i
                      /\ new[i].previous = IF i = 1 THEN Null ELSE EventDigest(new[i - 1])
    BY <1>1 DEF Chained
  <2>1. CASE i \in 1..n
    <3>1. i = 1 \/ i - 1 \in 1..n
      BY <1>1, <2>1
    <3>2. /\ jn[i].sequence = i
          /\ jn[i].previous = IF i = 1 THEN Null ELSE EventDigest(jn[i - 1])
      BY <1>1, <2>1 DEF Verifies, Chained
    <3> QED
      BY <1>1, <2>1, <3>1, <3>2
  <2>2. CASE i = n + 1
    <3>1. CASE n = 0
      BY <1>1, <1>2, <2>2, <3>1 DEF LastDigest, n
    <3>2. CASE n # 0
      <4>1. n \in 1..n /\ i - 1 = n /\ i # 1
        BY <1>1, <2>2, <3>2
      <4>2. ev.previous = EventDigest(jn[n])
        BY <1>2, <3>2 DEF LastDigest, n
      <4> QED
        BY <1>1, <2>2, <4>1, <4>2 DEF n
    <3> QED
      BY <3>1, <3>2
  <2> QED
    BY <1>1, <2>1, <2>2
<1>4. ASSUME NEW i \in 1..(n + 1) PROVE FirstOfItsKind(new, i)
  <2>1. CASE i \in 1..n
    <3>1. FirstOfItsKind(jn, i)
      BY <1>1, <2>1 DEF Verifies
    <3>2. \A j \in 1..(i - 1) : new[j] = jn[j]
      BY <1>1, <2>1
    <3>3. new[i] = jn[i]
      BY <1>1, <2>1
    <3> QED
      BY <3>1, <3>2, <3>3 DEF FirstOfItsKind
  <2>2. CASE i = n + 1
    <3>1. 1..(i - 1) = 1..n
      BY <1>1, <2>2
    <3>2. \A type : Occurs(jn, type, ev.envelope) <=> \E j \in 1..(i - 1) : IsA(new[j], type, ev.envelope)
      BY <1>1, <3>1 DEF Occurs
    <3> QED
      BY <1>1, <2>2, <3>2 DEF FirstOfItsKind
  <2> QED
    BY <1>1, <2>1, <2>2
<1>5. Verifies(new)
  BY <1>1, <1>3, <1>4 DEF Verifies
<1> QED
  BY <1>5 DEF new

(* An envelope nothing consumed has never been reserved, under its own     *)
(* envelope or any other with its reservation id.                          *)
LEMMA NotConsumedIsNew ==
  ASSUME NEW jn, \A i \in DOMAIN jn : jn[i].envelope \in Envelopes,
         NEW e \in Envelopes, ~Consumed(StatusOf(jn), e)
  PROVE  ~Occurs(jn, "reservation_created", e)
<1> SUFFICES ASSUME NEW i \in DOMAIN jn, IsA(jn[i], "reservation_created", e) PROVE FALSE
  BY DEF Occurs
<1> DEFINE f == jn[i].envelope
<1>1. f \in Envelopes /\ Created(jn, f)
  BY DEF Created, IsA
<1>2. StatusOf(jn)[f] # "absent"
  BY <1>1, StatusCreated
<1>3. SharesSingleUse(f, e)
  BY DEF IsA, ReservationId, SharesSingleUse
<1> QED
  BY <1>1, <1>2, <1>3 DEF Consumed

-----------------------------------------------------------------------------
(* The budget.                                                             *)



(* The units a journal spends from an account form a finite set. *)
LEMMA UnitsFinite ==
  ASSUME NEW es, es \subseteq Envelopes, IsFiniteSet(es)
  PROVE  IsFiniteSet(UnitsOf(es)) /\ Cardinality(UnitsOf(es)) \in Nat
<1>1. \A e \in es : IsFiniteSet({e} \X (1..e.amount))
  <2> TAKE e \in es
  <2>a. 1 \in Int /\ e.amount \in Int
    BY EnvelopeAssumption
  <2>1. IsFiniteSet({e}) /\ IsFiniteSet(1..e.amount)
    BY <2>a, FS_Singleton, FS_Interval
  <2> QED
    BY <2>1, FS_Product
<1> DEFINE parts == { {e} \X (1..e.amount) : e \in es }
<1>2. IsFiniteSet(parts)
  <2> DEFINE part == [e \in es |-> {e} \X (1..e.amount)]
  <2>1. part \in Surjection(es, parts)
    BY DEF Surjection
  <2> HIDE DEF part, parts
  <2> QED
    BY <2>1, FS_Surjection
<1>3. \A s \in parts : IsFiniteSet(s)
  BY <1>1
<1>4. IsFiniteSet(UnitsOf(es))
  BY <1>2, <1>3, FS_UNION DEF UnitsOf
<1> QED
  BY <1>4, FS_CardinalityType

(* A new holder adds its own amount.                                       *)
LEMMA UnitsAdd ==
  ASSUME NEW es, es \subseteq Envelopes, IsFiniteSet(es), NEW e \in Envelopes, e \notin es
  PROVE  Cardinality(UnitsOf(es \cup {e})) = e.amount + Cardinality(UnitsOf(es))
<1> DEFINE own == {e} \X (1..e.amount)
<1>1. IsFiniteSet(UnitsOf(es)) /\ Cardinality(UnitsOf(es)) \in Nat
  BY UnitsFinite
<1>2. IsFiniteSet(own) /\ Cardinality(own) = e.amount
  <2>1. e.amount \in Nat /\ e.amount \in Int /\ 1 \in Int
    BY EnvelopeAssumption
  <2>2. /\ IsFiniteSet({e}) /\ Cardinality({e}) = 1
        /\ IsFiniteSet(1..e.amount) /\ Cardinality(1..e.amount) = e.amount
    <3> DEFINE size == Cardinality(1..e.amount)
    <3>1. IsFiniteSet(1..e.amount) /\ size = IF 1 > e.amount THEN 0 ELSE e.amount - 1 + 1
      BY <2>1, FS_Interval
    <3> HIDE DEF size
    <3>2. size = e.amount
      BY <2>1, <3>1
    <3> QED
      BY <3>1, <3>2, FS_Singleton DEF size
  <2>3. Cardinality(own) = Cardinality({e}) * Cardinality(1..e.amount) /\ IsFiniteSet(own)
    BY <2>2, FS_Product
  <2> QED
    BY <2>1, <2>2, <2>3
<1>3. UnitsOf(es \cup {e}) = UnitsOf(es) \cup own
  BY DEF UnitsOf
<1>4. UnitsOf(es) \cap own = {}
  BY DEF UnitsOf
<1>5. Cardinality(UnitsOf(es) \cap own) = 0
  BY <1>4, FS_EmptySet
<1>6. Cardinality(UnitsOf(es) \cup own)
        = Cardinality(UnitsOf(es)) + Cardinality(own) - Cardinality(UnitsOf(es) \cap own)
  BY <1>1, <1>2, FS_Union
<1> DEFINE before == Cardinality(UnitsOf(es))
           after  == Cardinality(UnitsOf(es \cup {e}))
<1>7. /\ before \in Nat /\ e.amount \in Nat
      /\ after = before + e.amount - 0
  BY <1>1, <1>2, <1>3, <1>5, <1>6, EnvelopeAssumption
<1> HIDE DEF before, after
<1>8. after = e.amount + before
  BY <1>7
<1> QED
  BY <1>8 DEF before, after

(* Fewer holders spend no more units. *)
LEMMA UnitsMonotone ==
  ASSUME NEW es, NEW fs, es \subseteq fs, fs \subseteq Envelopes, IsFiniteSet(fs)
  PROVE  /\ Cardinality(UnitsOf(es)) \in Nat /\ Cardinality(UnitsOf(fs)) \in Nat
         /\ Cardinality(UnitsOf(es)) <= Cardinality(UnitsOf(fs))
<1>1. IsFiniteSet(es)
  BY FS_Subset
<1>2. UnitsOf(es) \subseteq UnitsOf(fs)
  BY DEF UnitsOf
<1>3. /\ IsFiniteSet(UnitsOf(fs)) /\ Cardinality(UnitsOf(fs)) \in Nat
      /\ Cardinality(UnitsOf(es)) \in Nat
  BY <1>1, UnitsFinite
<1> QED
  BY <1>2, <1>3, FS_Subset
=============================================================================
