----------------------------- MODULE FailoverProofs ------------------------------
(***************************************************************************)
(* Theorems about Failover for any regions, hostnames, addresses, failback *)
(* window and whatever fails when.  That an answer is never mixed needs to *)
(* know how far the records of the hostname at hand have got at each API   *)
(* call; that the window is waited for needs the age of HealthySince to be *)
(* covered by the time since a probe failed.                               *)
(***************************************************************************)
EXTENDS Failover, TLAPS

(***************************************************************************)
(* The inductive invariant.                                                *)
(***************************************************************************)
\* Within a round there is a hostname at hand.
HostnameAtHand == pc \in {"decide", "list", "delete", "create"} => left # <<>>

\* While records are deleted, those still listed are those still there; while
\* they are created, those there are those of the desired region not on the list.
RecordsOnTheWay ==
    /\ pc = "delete" => todo = dns[Head(left)]
    /\ pc = "create" => /\ todo \subseteq AnswerIPs[desired]
                        /\ dns[Head(left)] = AnswerIPs[desired] \ todo

\* A region is not taken to be healthy for longer than no probe of it failed.
SinceCovered == \A r \in Region : since[r] # Unset => since[r] <= streak[r]

IInv ==
    /\ TypeOK
    /\ HostnameAtHand
    /\ RecordsOnTheWay
    /\ OneRegionAnswers
    /\ SinceCovered

(***************************************************************************)
(* The steps by what they leave alone.                                     *)
(***************************************************************************)
\* Regions, clock and the ticker do not touch the round or the records.
Outside == (\E r \in Region : Flap(r)) \/ Calm \/ Tick

\* The process starts, or the ticker of Run starts a round.
Begin == Boot \/ ProbeInterval

\* The next hostname is one of those left, as is the current one.
LEMMA HeadAndTail ==
    ASSUME NEW s \in Seq(Hostname), s # <<>>
    PROVE  Head(s) \in Hostname /\ Tail(s) \in Seq(Hostname)
  OBVIOUS

\* The addresses of a region are addresses.
LEMMA AnswersAreIPs ==
    ASSUME NEW r \in Region
    PROVE  AnswerIPs[r] \subseteq IP
  BY DEF IP

\* Before the first boot nothing is known, and each name answers with the
\* addresses of its region or not at all.
LEMMA InitHolds == Init => IInv
<1> SUFFICES ASSUME Init
             PROVE  IInv
  OBVIOUS
<1>1. Window \in 0..Window /\ Window \in Nat /\ Unset \notin Nat
  BY WindowAssumption
<1>2. \A h \in Hostname : RegionOf[h] \in Region /\ AnswerIPs[RegionOf[h]] \subseteq IP
  BY RegionAssumption, AnswersAreIPs
<1>3. dns \in [Hostname -> SUBSET IP] /\ OneRegionAnswers
  <2>1. CASE dns = [h \in Hostname |-> {}]
    BY <2>1, RegionAssumption DEF OneRegionAnswers
  <2>2. CASE dns = [h \in Hostname |-> AnswerIPs[RegionOf[h]]]
    BY <2>2, <1>2 DEF OneRegionAnswers
  <2> QED
    BY <2>1, <2>2 DEF Init
<1>4. TypeOK
  <2>1. left \in Seq(Hostname) /\ todo \subseteq IP /\ desired \in Region
    BY RegionAssumption DEF Init
  <2>2. /\ since \in [Region -> (0..Window) \cup {Unset}]
        /\ streak \in [Region -> 0..Window]
        /\ health \in [Region -> {"unknown", "ok", "bad"}]
    BY <1>1 DEF Init
  <2>3. up \in [Region -> BOOLEAN] /\ onFallback \in [Region -> BOOLEAN]
    BY DEF Init
  <2> QED
    BY <1>3, <2>1, <2>2, <2>3 DEF Init, TypeOK
<1>5. HostnameAtHand /\ RecordsOnTheWay /\ SinceCovered
  BY DEF Init, HostnameAtHand, RecordsOnTheWay, SinceCovered
<1> QED
  BY <1>3, <1>4, <1>5 DEF IInv

\* A tick keeps ages within the window.
LEMMA OlderTyped == \A n \in 0..Window : Older(n) \in 0..Window
  BY WindowAssumption DEF Older

\* Every step keeps the types.
LEMMA TypeStep == IInv /\ [Next]_vars => TypeOK'
<1> SUFFICES ASSUME TypeOK, HostnameAtHand, RecordsOnTheWay, [Next]_vars
             PROVE  TypeOK'
  BY DEF IInv
<1> USE DEF envVars, stateVars, roundVars
<1>1. ASSUME NEW r \in Region, Flap(r)
      PROVE  TypeOK'
  BY <1>1 DEF TypeOK, Flap
<1>2. CASE Calm
  BY <1>2 DEF TypeOK, Calm
<1>3. CASE Tick
  <2>1. /\ streak' \in [Region -> 0..Window]
        /\ since' \in [Region -> (0..Window) \cup {Unset}]
    BY <1>3, OlderTyped DEF TypeOK, Tick
  <2> QED
    BY <1>3, <2>1 DEF TypeOK, Tick
<1>4. CASE Begin
  BY <1>4 DEF TypeOK, Begin, Boot, ProbeInterval
<1>5. CASE ProbeFallback
  BY <1>5, RegionAssumption DEF TypeOK, ProbeFallback
<1>6. CASE Decide
  <2> DEFINE r == RegionOf[Head(left)]
  <2>1. r \in Region
    BY <1>6, HeadAndTail, RegionAssumption DEF TypeOK, HostnameAtHand, Decide
  <2>2. /\ health' \in [Region -> {"unknown", "ok", "bad"}]
        /\ streak' \in [Region -> 0..Window]
    BY <1>6, <2>1, WindowAssumption DEF TypeOK, Decide, Probe
  <2>3. /\ since' \in [Region -> (0..Window) \cup {Unset}]
        /\ onFallback' \in [Region -> BOOLEAN]
        /\ desired' \in Region
    <3>1. CASE health'[r] = "ok"
      <4> DEFINE age == IF since[r] = Unset THEN 0 ELSE since[r]
                 stay == onFallback[r] /\ age < Window
      <4>1. age \in 0..Window /\ stay \in BOOLEAN
        BY <2>1, WindowAssumption DEF TypeOK
      <4>2. /\ since' = [since EXCEPT ![r] = age]
            /\ onFallback' = [onFallback EXCEPT ![r] = stay]
            /\ desired' = IF stay THEN Fallback ELSE r
        BY <1>6, <3>1 DEF Decide, ChooseRegion
      <4> HIDE DEF age, stay
      <4> QED
        BY <2>1, <4>1, <4>2, RegionAssumption DEF TypeOK
    <3>2. CASE health'[r] # "ok"
      BY <1>6, <2>1, <3>2, RegionAssumption DEF TypeOK, Decide, ChooseRegion
    <3> QED
      BY <3>1, <3>2
  <2> QED
    BY <1>6, <2>2, <2>3 DEF TypeOK, Decide
<1>7. CASE ListARecords
  <2>1. Head(left) \in Hostname /\ Tail(left) \in Seq(Hostname)
    BY <1>7, HeadAndTail DEF TypeOK, HostnameAtHand, ListARecords
  <2>2. AnswerIPs[desired] \subseteq IP /\ dns[Head(left)] \subseteq IP
    BY <2>1, AnswersAreIPs DEF TypeOK
  <2> QED
    BY <1>7, <2>1, <2>2 DEF TypeOK, ListARecords, NextHostname
<1>8. ASSUME NEW ip \in IP, DeleteRecord(ip)
      PROVE  TypeOK'
  <2>1. AnswerIPs[desired] \subseteq IP
    BY AnswersAreIPs DEF TypeOK
  <2> QED
    BY <1>8, <2>1 DEF TypeOK, DeleteRecord
<1>9. ASSUME NEW ip \in IP, CreateARecord(ip)
      PROVE  TypeOK'
  <2>1. Tail(left) \in Seq(Hostname)
    BY <1>9, HeadAndTail DEF TypeOK, HostnameAtHand, CreateARecord
  <2> QED
    BY <1>9, <2>1 DEF TypeOK, CreateARecord, NextHostname
<1>10. CASE DNSError
  <2>1. dns' \in [Hostname -> SUBSET IP]
    BY <1>10 DEF TypeOK, DNSError
  <2> QED
    BY <1>10, <2>1 DEF TypeOK, DNSError
<1>11. CASE Crash
  BY <1>11 DEF TypeOK, Crash
<1>12. CASE UNCHANGED vars
  BY <1>12 DEF TypeOK, vars
<1> QED
  BY <1>1, <1>2, <1>3, <1>4, <1>5, <1>6, <1>7, <1>8, <1>9, <1>10, <1>11, <1>12
     DEF Next, Reconcile, Begin

\* A round goes on only with a hostname: the configuration has one, and the
\* round is over with the last.
LEMMA HostnameStep == IInv /\ [Next]_vars => HostnameAtHand'
<1> SUFFICES ASSUME HostnameAtHand, [Next]_vars
             PROVE  HostnameAtHand'
  BY DEF IInv
<1> USE DEF envVars, stateVars, roundVars
<1>1. CASE Outside \/ UNCHANGED vars
  BY <1>1 DEF HostnameAtHand, Outside, Flap, Calm, Tick, vars
<1>2. CASE Begin \/ DNSError \/ Crash
  BY <1>2 DEF HostnameAtHand, Begin, Boot, ProbeInterval, DNSError, Crash
<1>3. CASE ProbeFallback \/ Decide
  BY <1>3, RegionAssumption DEF HostnameAtHand, ProbeFallback, Decide
<1>4. CASE ListARecords
  BY <1>4 DEF HostnameAtHand, ListARecords, NextHostname
<1>5. ASSUME NEW ip \in IP, DeleteRecord(ip) \/ CreateARecord(ip)
      PROVE  HostnameAtHand'
  BY <1>5 DEF HostnameAtHand, DeleteRecord, CreateARecord, NextHostname
<1> QED
  BY <1>1, <1>2, <1>3, <1>4, <1>5 DEF Next, Reconcile, Outside, Begin

\* What is to be deleted is all there is, and what is to be created all that
\* is missing, call after call.
LEMMA RecordsStep == IInv /\ [Next]_vars => RecordsOnTheWay'
<1> SUFFICES ASSUME TypeOK, HostnameAtHand, RecordsOnTheWay, [Next]_vars
             PROVE  RecordsOnTheWay'
  BY DEF IInv
<1> USE DEF envVars, stateVars, roundVars
<1>1. CASE Outside \/ UNCHANGED vars
  BY <1>1 DEF RecordsOnTheWay, Outside, Flap, Calm, Tick, vars
<1>2. CASE Begin \/ DNSError \/ Crash
  BY <1>2 DEF RecordsOnTheWay, Begin, Boot, ProbeInterval, DNSError, Crash
<1>3. CASE ProbeFallback \/ Decide
  BY <1>3 DEF RecordsOnTheWay, ProbeFallback, Decide
<1>4. CASE ListARecords
  BY <1>4 DEF RecordsOnTheWay, ListARecords, NextHostname
<1>5. ASSUME NEW ip \in IP, DeleteRecord(ip)
      PROVE  RecordsOnTheWay'
  <2>1. Head(left) \in Hostname /\ todo = dns[Head(left)]
    BY <1>5, HeadAndTail DEF TypeOK, HostnameAtHand, RecordsOnTheWay, DeleteRecord
  <2>2. dns'[Head(left)] = todo \ {ip} /\ left' = left /\ desired' = desired
    BY <1>5, <2>1 DEF TypeOK, DeleteRecord
  <2> QED
    BY <1>5, <2>2 DEF RecordsOnTheWay, DeleteRecord
<1>6. ASSUME NEW ip \in IP, CreateARecord(ip)
      PROVE  RecordsOnTheWay'
  <2>1. /\ Head(left) \in Hostname /\ ip \in AnswerIPs[desired]
        /\ dns[Head(left)] = AnswerIPs[desired] \ todo
    BY <1>6, HeadAndTail DEF TypeOK, HostnameAtHand, RecordsOnTheWay, CreateARecord
  <2>2. dns'[Head(left)] = AnswerIPs[desired] \ (todo \ {ip})
    BY <1>6, <2>1 DEF TypeOK, CreateARecord
  <2> QED
    BY <1>6, <2>2 DEF RecordsOnTheWay, CreateARecord, NextHostname
<1> QED
  BY <1>1, <1>2, <1>3, <1>4, <1>5, <1>6 DEF Next, Reconcile, Outside, Begin

\* A deletion leaves addresses of the same region, and what is created joins
\* only addresses of the desired one.
LEMMA AnswersStep == IInv /\ [Next]_vars => OneRegionAnswers'
<1> SUFFICES ASSUME TypeOK, HostnameAtHand, RecordsOnTheWay, OneRegionAnswers, [Next]_vars,
                    NEW h \in Hostname
             PROVE  \E r \in Region : dns'[h] \subseteq AnswerIPs[r]
  BY DEF IInv, OneRegionAnswers
<1> USE DEF envVars, stateVars, roundVars
<1>1. CASE dns' = dns
  BY <1>1 DEF OneRegionAnswers
<1>2. ASSUME NEW ip \in IP, dns' = [dns EXCEPT ![Head(left)] = @ \ {ip}]
      PROVE  \E r \in Region : dns'[h] \subseteq AnswerIPs[r]
  BY <1>2 DEF TypeOK, OneRegionAnswers
<1>3. ASSUME NEW ip \in todo, pc = "create", dns' = [dns EXCEPT ![Head(left)] = @ \cup {ip}]
      PROVE  \E r \in Region : dns'[h] \subseteq AnswerIPs[r]
  <2>1. CASE h = Head(left)
    BY <1>3, <2>1 DEF TypeOK, RecordsOnTheWay
  <2>2. CASE h # Head(left)
    BY <1>3, <2>2 DEF TypeOK, OneRegionAnswers
  <2> QED
    BY <2>1, <2>2
<1>4. CASE UNCHANGED vars \/ Outside \/ Begin \/ ProbeFallback \/ Decide \/ ListARecords \/ Crash
  BY <1>1, <1>4 DEF vars, Outside, Flap, Calm, Tick, Begin, Boot, ProbeInterval,
                    ProbeFallback, Decide, ListARecords, Crash
<1>5. CASE DNSError
  BY <1>1, <1>2, <1>3, <1>5 DEF DNSError, TypeOK
<1>6. ASSUME NEW ip \in IP, DeleteRecord(ip) \/ CreateARecord(ip)
      PROVE  \E r \in Region : dns'[h] \subseteq AnswerIPs[r]
  BY <1>2, <1>3, <1>6 DEF DeleteRecord, CreateARecord
<1> QED
  BY <1>4, <1>5, <1>6 DEF Next, Reconcile, Outside, Begin

\* HealthySince is set to now, and forgotten when a probe fails; a tick makes
\* both times older.
LEMMA SinceStep == IInv /\ [Next]_vars => SinceCovered'
<1> SUFFICES ASSUME TypeOK, HostnameAtHand, SinceCovered, [Next]_vars, NEW r \in Region,
                    since'[r] # Unset
             PROVE  since'[r] <= streak'[r]
  BY DEF IInv, SinceCovered
<1> USE DEF envVars, stateVars, roundVars
<1>1. CASE UNCHANGED <<since, streak>>
  BY <1>1 DEF SinceCovered
<1>2. CASE Tick
  <2>1. since[r] \in 0..Window /\ streak[r] \in 0..Window /\ since[r] <= streak[r]
    BY <1>2 DEF TypeOK, SinceCovered, Tick
  <2>2. since'[r] = Older(since[r]) /\ streak'[r] = Older(streak[r])
    BY <1>2, <2>1, WindowAssumption DEF Tick
  <2> QED
    BY <2>1, <2>2, WindowAssumption DEF Older
<1>3. CASE Decide
  <2> DEFINE q == RegionOf[Head(left)]
  <2>1. q \in Region
    BY <1>3, HeadAndTail, RegionAssumption DEF TypeOK, HostnameAtHand, Decide
  <2>2. CASE r # q
    <3>1. since'[r] = since[r] /\ streak'[r] = streak[r]
      BY <1>3, <2>1, <2>2 DEF TypeOK, Decide, Probe, ChooseRegion
    <3> QED
      BY <3>1 DEF SinceCovered
  <2>3. CASE r = q
    <3>1. health'[q] = "ok"
      BY <1>3, <2>1, <2>3 DEF TypeOK, Decide, ChooseRegion
    <3>2. streak'[q] = streak[q]
      BY <1>3, <2>1, <3>1 DEF TypeOK, Decide, Probe
    <3>3. since'[q] = IF since[q] = Unset THEN 0 ELSE since[q]
      BY <1>3, <2>1, <3>1 DEF TypeOK, Decide, ChooseRegion
    <3>4. streak[q] \in 0..Window
      BY <2>1 DEF TypeOK
    <3> QED
      BY <2>1, <2>3, <3>2, <3>3, <3>4, WindowAssumption DEF SinceCovered
  <2> QED
    BY <2>2, <2>3
<1>4. CASE Crash
  BY <1>4 DEF Crash
<1>5. ASSUME NEW ip \in IP, DeleteRecord(ip) \/ CreateARecord(ip)
      PROVE  since'[r] <= streak'[r]
  BY <1>1, <1>5 DEF DeleteRecord, CreateARecord
<1>6. CASE \/ UNCHANGED vars \/ (\E q \in Region : Flap(q)) \/ Calm \/ Begin
           \/ ProbeFallback \/ ListARecords \/ DNSError
  BY <1>1, <1>6 DEF vars, Flap, Calm, Begin, Boot, ProbeInterval, ProbeFallback,
                    ListARecords, DNSError
<1> QED
  BY <1>2, <1>3, <1>4, <1>5, <1>6 DEF Next, Reconcile, Begin

(***************************************************************************)
(* The theorems.                                                           *)
(***************************************************************************)
\* What controller.go and the DNS records agree on at every step, crashes and
\* failed calls included.
THEOREM Invariance == Spec => []IInv
<1>1. IInv /\ [Next]_vars => IInv'
  BY TypeStep, HostnameStep, RecordsStep, AnswersStep, SinceStep DEF IInv
<1> QED
  BY InitHolds, <1>1, PTL DEF Spec

\* The variables of the controller and the records have their types.
THEOREM TypeCorrect == Spec => []TypeOK
  BY Invariance, PTL DEF IInv

\* However ensureHostname was cut short, by an error before or after it took
\* effect or by the end of the process, no name answers with addresses of two
\* regions.
THEOREM NeverMixed == Spec => []OneRegionAnswers
  BY Invariance, PTL DEF IInv

\* Reconcile takes a region off the fallback only after a whole window in which
\* no probe of it failed, for every window, 0 included.
THEOREM FailbackAfterWindow == Spec => FailbackWaits
<1>1. ASSUME IInv, [Next]_vars, NEW r \in Region,
             onFallback[r], ~onFallback'[r], pc' # "down"
      PROVE  streak[r] = Window
  <2> USE DEF envVars, stateVars, roundVars
  <2>1. Decide
    <3>1. ASSUME NEW ip \in IP, DeleteRecord(ip) \/ CreateARecord(ip)
          PROVE  onFallback' = onFallback
      BY <3>1 DEF DeleteRecord, CreateARecord
    <3>2. CASE \/ UNCHANGED vars \/ Outside \/ Begin \/ ProbeFallback
               \/ ListARecords \/ DNSError
      BY <1>1, <3>2 DEF vars, Outside, Flap, Calm, Tick, Begin, Boot, ProbeInterval,
                        ProbeFallback, ListARecords, DNSError
    <3>3. ~Crash
      BY <1>1 DEF Crash
    <3> QED
      BY <1>1, <3>1, <3>2, <3>3 DEF Next, Reconcile, Outside, Begin
  <2> DEFINE q == RegionOf[Head(left)]
  <2>2. q \in Region
    BY <1>1, <2>1, HeadAndTail, RegionAssumption DEF IInv, TypeOK, HostnameAtHand, Decide
  <2>3. health'[q] = "ok" /\ r = q
    BY <1>1, <2>1, <2>2 DEF IInv, TypeOK, Decide, ChooseRegion
  <2>4. ~((IF since[q] = Unset THEN 0 ELSE since[q]) < Window)
    BY <1>1, <2>1, <2>2, <2>3 DEF IInv, TypeOK, Decide, ChooseRegion
  <2>5. streak[q] \in 0..Window /\ since[q] \in (0..Window) \cup {Unset}
    BY <1>1, <2>2 DEF IInv, TypeOK
  <2>6. since[q] # Unset => since[q] <= streak[q]
    BY <1>1, <2>2 DEF IInv, SinceCovered
  <2> QED
    BY <2>3, <2>4, <2>5, <2>6, WindowAssumption
<1>2. IInv /\ [Next]_vars =>
        [\A r \in Region :
            onFallback[r] /\ ~onFallback'[r] /\ pc' # "down" => streak[r] = Window]_vars
  BY <1>1
<1> QED
  BY Invariance, <1>2, PTL DEF Spec, FailbackWaits

\* A hostname that Reconcile is done with, without an error, answers with
\* exactly the addresses of the region it was decided for, whatever a round
\* before left behind.
THEOREM DoneIsExact == Spec => HostnameDone
<1>1. ASSUME IInv, ListARecords \/ (\E ip \in IP : CreateARecord(ip)), left' # left
      PROVE  dns'[Head(left)] = AnswerIPs[desired]
  <2> USE DEF envVars, stateVars, roundVars
  <2>1. CASE ListARecords
    BY <1>1, <2>1 DEF ListARecords
  <2>2. ASSUME NEW ip \in IP, CreateARecord(ip)
        PROVE  dns'[Head(left)] = AnswerIPs[desired]
    <3>1. todo = {ip}
      BY <1>1, <2>2 DEF CreateARecord
    <3>2. Head(left) \in Hostname
      BY <1>1, <2>2, HeadAndTail DEF IInv, TypeOK, HostnameAtHand, CreateARecord
    <3>3. ip \in AnswerIPs[desired] /\ dns[Head(left)] = AnswerIPs[desired] \ {ip}
      BY <1>1, <2>2, <3>1 DEF IInv, RecordsOnTheWay, CreateARecord
    <3>4. dns'[Head(left)] = dns[Head(left)] \cup {ip}
      BY <1>1, <2>2, <3>2 DEF IInv, TypeOK, CreateARecord
    <3> QED
      BY <3>3, <3>4
  <2> QED
    BY <1>1, <2>1, <2>2
<1>2. IInv =>
        [ListARecords \/ (\E ip \in IP : CreateARecord(ip)) =>
            left' = left \/ dns'[Head(left)] = AnswerIPs[desired]]_vars
  BY <1>1
<1> QED
  BY Invariance, <1>2, PTL DEF HostnameDone

=================================================================================
