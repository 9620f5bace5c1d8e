------------------------ MODULE ObservabilityProofs ------------------------
(***************************************************************************)
(* Observability, for any connections, methods, paths, routes and number   *)
(* of requests: what the metrics count is what clients were sent, and the  *)
(* two differ by the requests between their updates.                       *)
(***************************************************************************)
EXTENDS Observability, FiniteSetTheorems, TLAPS

TypeOK ==
    /\ phase \in [Conns -> {"idle", "serving", "writing", "ended", "counted"}]
    /\ target \in [Conns -> Targets]
    /\ recorded \in [Conns -> Statuses]
    /\ sent \in [Conns -> {0} \cup Statuses]
    /\ total \in [Labels -> Int] /\ observed \in [Labels -> Int]

(* What the wire and the recorder hold until the handler ends. *)
BeforeTheEnd ==
    \A c \in Conns :
        /\ phase[c] = "serving" => sent[c] = 0
        /\ phase[c] = "writing" => sent[c] = 200

IInv == TypeOK /\ BeforeTheEnd /\ NoFailureHidden /\ ScrapesAgree

(* The requests of a label that are counted and not yet observed. *)
Between(l) ==
    {c \in Conns : phase[c] = "counted" /\ l = Label(c)}

LEMMA LabelOf ==
  ASSUME TypeOK, NEW c \in Conns
  PROVE  Label(c) \in Labels
BY ObservedAssumption DEF TypeOK, Targets, Label, RouteLabel, Labels

LEMMA BetweenFinite == \A l : IsFiniteSet(Between(l)) /\ Cardinality(Between(l)) \in Nat
<1> SUFFICES ASSUME NEW l PROVE IsFiniteSet(Between(l)) /\ Cardinality(Between(l)) \in Nat
  OBVIOUS
<1>1. Between(l) \in SUBSET Conns
  BY DEF Between
<1> QED
  BY <1>1, FS_Subset, FS_CardinalityType, ObservedAssumption

LEMMA TypeStep == TypeOK /\ [Next]_vars => TypeOK'
<1> SUFFICES ASSUME TypeOK, [Next]_vars PROVE TypeOK'
  OBVIOUS
<1> USE DEF TypeOK, Goes
<1>1. ASSUME NEW c \in Conns, NEW t \in Targets, Arrive(c, t) PROVE TypeOK'
  BY <1>1 DEF Arrive, Statuses
<1>2. ASSUME NEW c \in Conns, HangUp(c) PROVE TypeOK'
  BY <1>2 DEF HangUp
<1>3. ASSUME NEW c \in Conns, NEW code \in Statuses, WriteHeader(c, code),
             NEW s \in {"writing", "ended"}, phase' = [phase EXCEPT ![c] = s]
      PROVE  TypeOK'
  BY <1>3 DEF WriteHeader
<1>4. Errors \subseteq Statuses /\ {200, 404, 405, 500} \subseteq Statuses
  BY DEF Statuses
<1>5. ASSUME NEW c \in Conns, Succeeds(c) PROVE TypeOK'
  <2>1. /\ 200 \in Statuses /\ "writing" \in {"writing", "ended"}
        /\ WriteHeader(c, 200) /\ phase' = [phase EXCEPT ![c] = "writing"]
    BY <1>4, <1>5 DEF Succeeds
  <2> QED
    BY <1>3, <2>1
<1>6. ASSUME NEW c \in Conns, Encoded(c) PROVE TypeOK'
  BY <1>6 DEF Encoded
<1>7. ASSUME NEW c \in Conns, EncodeFails(c) PROVE TypeOK'
  <2>1. /\ 500 \in Statuses /\ "ended" \in {"writing", "ended"}
        /\ WriteHeader(c, 500) /\ phase' = [phase EXCEPT ![c] = "ended"]
    BY <1>4, <1>7 DEF EncodeFails
  <2> QED
    BY <1>3, <2>1
<1>8. ASSUME NEW c \in Conns, NEW code \in Errors, Fails(c, code) PROVE TypeOK'
  <2>1. /\ code \in Statuses /\ "ended" \in {"writing", "ended"}
        /\ WriteHeader(c, code) /\ phase' = [phase EXCEPT ![c] = "ended"]
    BY <1>4, <1>8 DEF Fails
  <2> QED
    BY <1>3, <2>1
<1>9. ASSUME NEW c \in Conns, NEW code \in {404, 405}, NotRouted(c, code) PROVE TypeOK'
  <2>1. code \in Statuses
    BY DEF Statuses
  <2>2. WriteHeader(c, code) /\ phase' = [phase EXCEPT ![c] = "ended"]
    BY <1>9 DEF NotRouted
  <2> QED
    BY <1>3, <2>1, <2>2
<1>10. ASSUME NEW c \in Conns, CountRequest(c) PROVE TypeOK'
  BY <1>10, LabelOf DEF CountRequest, Increment
<1>11. ASSUME NEW c \in Conns, ObserveDuration(c) PROVE TypeOK'
  BY <1>11, LabelOf DEF ObserveDuration, Increment
<1>12. CASE UNCHANGED vars
  BY <1>12 DEF vars, requestVars
<1> QED
  BY <1>1, <1>2, <1>5, <1>6, <1>7, <1>8, <1>9, <1>10, <1>11, <1>12 DEF Next

(* A header written while no status line has been sent goes out as it is     *)
(* recorded; one written after 200 is recorded as a failure.                 *)
LEMMA StatusStep ==
  TypeOK /\ BeforeTheEnd /\ NoFailureHidden /\ [Next]_vars => (BeforeTheEnd /\ NoFailureHidden)'
<1> SUFFICES ASSUME TypeOK, BeforeTheEnd, NoFailureHidden, [Next]_vars
             PROVE  (BeforeTheEnd /\ NoFailureHidden)'
  OBVIOUS
<1> USE DEF BeforeTheEnd, NoFailureHidden, TypeOK, Goes
<1>1. ASSUME NEW c \in Conns, NEW t \in Targets, Arrive(c, t)
      PROVE  (BeforeTheEnd /\ NoFailureHidden)'
  BY <1>1 DEF Arrive
<1>2. ASSUME NEW c \in Conns, HangUp(c) PROVE (BeforeTheEnd /\ NoFailureHidden)'
  BY <1>2 DEF HangUp
<1>3. ASSUME NEW c \in Conns, NEW code \in Statuses, WriteHeader(c, code), code # 0, code # 200,
             Goes(c, "serving", "ended")
      PROVE  (BeforeTheEnd /\ NoFailureHidden)'
  BY <1>3 DEF WriteHeader
<1>4. Errors \subseteq Statuses /\ {404, 405, 500} \subseteq Statuses
  BY DEF Statuses
<1>5. ASSUME NEW c \in Conns, Succeeds(c) PROVE (BeforeTheEnd /\ NoFailureHidden)'
  BY <1>5 DEF Succeeds, WriteHeader
<1>6. ASSUME NEW c \in Conns, Encoded(c) PROVE (BeforeTheEnd /\ NoFailureHidden)'
  BY <1>6 DEF Encoded
<1>7. ASSUME NEW c \in Conns, EncodeFails(c) PROVE (BeforeTheEnd /\ NoFailureHidden)'
  BY <1>7 DEF EncodeFails, WriteHeader
<1>8. ASSUME NEW c \in Conns, NEW code \in Errors, Fails(c, code)
      PROVE  (BeforeTheEnd /\ NoFailureHidden)'
  <2>1. code \in Statuses /\ code # 0 /\ code # 200
    BY <1>4, ObservedAssumption
  <2> QED
    BY <1>3, <1>8, <2>1 DEF Fails
<1>9. ASSUME NEW c \in Conns, NEW code, code \in {404, 405}, NotRouted(c, code)
      PROVE  (BeforeTheEnd /\ NoFailureHidden)'
  <2>1. code \in Statuses /\ code # 0 /\ code # 200
    BY <1>4, <1>9
  <2>2. WriteHeader(c, code) /\ Goes(c, "serving", "ended")
    BY <1>9 DEF NotRouted
  <2> QED
    BY <1>3, <2>1, <2>2
<1>10. ASSUME NEW c \in Conns, CountRequest(c) PROVE (BeforeTheEnd /\ NoFailureHidden)'
  BY <1>10 DEF CountRequest
<1>11. ASSUME NEW c \in Conns, ObserveDuration(c) PROVE (BeforeTheEnd /\ NoFailureHidden)'
  BY <1>11 DEF ObserveDuration
<1>12. CASE UNCHANGED vars
  BY <1>12 DEF vars, requestVars
<1> QED
  BY <1>1, <1>2, <1>5, <1>6, <1>7, <1>8, <1>9, <1>10, <1>11, <1>12 DEF Next

(* A step that leaves the metrics alone and counts no request in or out.     *)
LEMMA BetweenKept ==
  ASSUME ScrapesAgree, UNCHANGED <<total, observed>>,
         \A l \in Labels : Between(l)' = Between(l)
  PROVE  ScrapesAgree'
<1> SUFFICES ASSUME NEW l \in Labels
             PROVE  total'[l] - observed'[l] = Cardinality(Between(l)')
  BY DEF ScrapesAgree, Between
<1>1. total[l] - observed[l] = Cardinality(Between(l))
  BY DEF ScrapesAgree, Between
<1> QED
  BY <1>1

(* One update moves one label of one metric by one, and one request in or    *)
(* out of those between the two.                                             *)
LEMMA ScrapesStep == TypeOK /\ ScrapesAgree /\ [Next]_vars => ScrapesAgree'
<1> SUFFICES ASSUME TypeOK, ScrapesAgree, [Next]_vars PROVE ScrapesAgree'
  OBVIOUS
<1>1. ASSUME NEW c \in Conns, phase[c] # "counted", phase'[c] # "counted",
             \A d \in Conns \ {c} : /\ phase'[d] = phase[d] /\ target'[d] = target[d]
                                    /\ recorded'[d] = recorded[d]
      PROVE  \A l \in Labels : Between(l)' = Between(l)
  BY <1>1 DEF Between, Label
<1>2. ASSUME NEW c \in Conns, NEW t \in Targets, Arrive(c, t) PROVE ScrapesAgree'
  BY <1>1, <1>2, BetweenKept DEF Arrive, Goes, TypeOK
<1>3. ASSUME NEW c \in Conns, HangUp(c) PROVE ScrapesAgree'
  BY <1>1, <1>3, BetweenKept DEF HangUp, TypeOK
<1>4. ASSUME NEW c \in Conns, NEW code, WriteHeader(c, code),
             NEW s \in {"serving", "writing"}, NEW e \in {"writing", "ended"}, Goes(c, s, e)
      PROVE  ScrapesAgree'
  BY <1>1, <1>4, BetweenKept DEF WriteHeader, Goes, TypeOK
<1>5. ASSUME NEW c \in Conns, Encoded(c) PROVE ScrapesAgree'
  BY <1>1, <1>5, BetweenKept DEF Encoded, Goes, TypeOK
<1>6. ASSUME NEW c \in Conns, CountRequest(c) PROVE ScrapesAgree'
  <2>1. PICK lab \in Labels : lab = Label(c)
    BY LabelOf
  <2>2. Between(lab)' = Between(lab) \cup {c} /\ c \notin Between(lab)
    BY <1>6, <2>1 DEF CountRequest, Goes, Between, Label, TypeOK
  <2>3. \A l \in Labels \ {lab} : Between(l)' = Between(l)
    BY <1>6, <2>1 DEF CountRequest, Goes, Between, Label, TypeOK
  <2>4. Cardinality(Between(lab)') = Cardinality(Between(lab)) + 1
    <3>1. IsFiniteSet(Between(lab))
      BY BetweenFinite
    <3>2. Cardinality(Between(lab) \cup {c}) = Cardinality(Between(lab)) + 1
      BY <2>2, <3>1, FS_AddElement, Zenon
    <3> QED
      BY <2>2, <3>2
  <2>5. total' = [total EXCEPT ![lab] = @ + 1] /\ observed' = observed
    BY <1>6, <2>1 DEF CountRequest, Increment
  <2> SUFFICES ASSUME NEW l \in Labels
               PROVE  total'[l] - observed'[l] = Cardinality(Between(l)')
    BY DEF ScrapesAgree, Between
  <2>6. total[l] - observed[l] = Cardinality(Between(l)) /\ total[l] \in Int /\ observed[l] \in Int
    BY DEF ScrapesAgree, Between, Label, TypeOK
  <2>7. CASE l = lab
    <3>1. total'[lab] = total[lab] + 1 /\ observed'[lab] = observed[lab]
      BY <2>1, <2>5 DEF TypeOK
    <3>2. Cardinality(Between(lab)) \in Nat
      BY BetweenFinite
    <3> QED
      BY <2>4, <2>6, <2>7, <3>1, <3>2
  <2>8. CASE l # lab
    BY <2>1, <2>3, <2>5, <2>6, <2>8 DEF TypeOK
  <2> QED
    BY <2>7, <2>8
<1>7. ASSUME NEW c \in Conns, ObserveDuration(c) PROVE ScrapesAgree'
  <2>1. PICK lab \in Labels : lab = Label(c)
    BY LabelOf
  <2>2. Between(lab)' = Between(lab) \ {c} /\ c \in Between(lab)
    BY <1>7, <2>1 DEF ObserveDuration, Goes, Between, Label, TypeOK
  <2>3. \A l \in Labels \ {lab} : Between(l)' = Between(l)
    BY <1>7, <2>1 DEF ObserveDuration, Goes, Between, Label, TypeOK
  <2>4. Cardinality(Between(lab)') = Cardinality(Between(lab)) - 1
    <3>1. IsFiniteSet(Between(lab))
      BY BetweenFinite
    <3>2. Cardinality(Between(lab) \ {c}) = Cardinality(Between(lab)) - 1
      BY <2>2, <3>1, FS_RemoveElement, Zenon
    <3> QED
      BY <2>2, <3>2
  <2>5. observed' = [observed EXCEPT ![lab] = @ + 1] /\ total' = total
    BY <1>7, <2>1 DEF ObserveDuration, Increment
  <2> SUFFICES ASSUME NEW l \in Labels
               PROVE  total'[l] - observed'[l] = Cardinality(Between(l)')
    BY DEF ScrapesAgree, Between
  <2>6. total[l] - observed[l] = Cardinality(Between(l)) /\ total[l] \in Int /\ observed[l] \in Int
    BY DEF ScrapesAgree, Between, Label, TypeOK
  <2>7. CASE l = lab
    <3>1. observed'[lab] = observed[lab] + 1 /\ total'[lab] = total[lab]
      BY <2>1, <2>5 DEF TypeOK
    <3>2. Cardinality(Between(lab)) \in Nat
      BY BetweenFinite
    <3> QED
      BY <2>4, <2>6, <2>7, <3>1, <3>2
  <2>8. CASE l # lab
    BY <2>1, <2>3, <2>5, <2>6, <2>8 DEF TypeOK
  <2> QED
    BY <2>7, <2>8
<1>8. CASE UNCHANGED vars
  BY <1>8, BetweenKept DEF vars, requestVars, Between, Label
<1>9. ASSUME NEW c \in Conns, Succeeds(c) \/ EncodeFails(c) PROVE ScrapesAgree'
  BY <1>4, <1>9 DEF Succeeds, EncodeFails
<1>10. ASSUME NEW c \in Conns, NEW code, Fails(c, code) \/ NotRouted(c, code)
       PROVE  ScrapesAgree'
  BY <1>4, <1>10 DEF Fails, NotRouted
<1> QED
  BY <1>2, <1>3, <1>5, <1>6, <1>7, <1>8, <1>9, <1>10 DEF Next

LEMMA IInvInit == Init => IInv
<1> SUFFICES ASSUME Init PROVE IInv
  OBVIOUS
<1>1. TypeOK
  BY DEF Init, TypeOK, Statuses
<1>2. BeforeTheEnd /\ NoFailureHidden
  BY DEF Init, BeforeTheEnd, NoFailureHidden
<1>3. \A l : Between(l) = {}
  BY DEF Init, Between
<1>4. ScrapesAgree
  BY <1>3, FS_EmptySet DEF Init, ScrapesAgree, Between
<1> QED
  BY <1>1, <1>2, <1>4 DEF IInv

LEMMA IInvHolds == Spec => []IInv
<1>1. IInv /\ [Next]_vars => IInv'
  BY TypeStep, StatusStep, ScrapesStep DEF IInv
<1> QED
  BY <1>1, IInvInit, PTL DEF Spec

(* A request whose client was sent an error is counted as that error, and    *)
(* none is counted as a success that was not sent as one, whatever clients   *)
(* hang up on.                                                               *)
THEOREM StatusesCounted == Spec => []NoFailureHidden
<1>1. IInv => NoFailureHidden
  BY DEF IInv
<1> QED
  BY <1>1, IInvHolds, PTL

(* Counter and histogram differ under every label by exactly the requests    *)
(* between their two updates, for any number of connections at once.         *)
THEOREM MetricsAgree == Spec => []ScrapesAgree
<1>1. IInv => ScrapesAgree
  BY DEF IInv
<1> QED
  BY <1>1, IInvHolds, PTL
=============================================================================
