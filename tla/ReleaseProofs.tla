---------------------------- MODULE ReleaseProofs ----------------------------
(* Theorems about Release for any files, scores, servers, clients and limits. *)
EXTENDS Release, TrainingProofs

(* The limiter's history: calls are numbered in order, at times that have     *)
(* passed and by lives that have begun.                                       *)
CallsInOrder ==
  /\ IsFiniteSet(calls)
  /\ \A d \in calls : /\ d.no < Cardinality(calls) /\ d.at <= now
                      /\ d.life <= life[d.server]
  /\ \A d, e \in calls : d.no = e.no => d = e

(* Call d was admitted in the current life of s for client c.                 *)
Current(d, s, c) ==
  /\ <<d.server, d.life, d.client>> = <<s, life[s], c>>
  /\ d.admitted

(* The limiter of a running process remembers the admitted calls of its life  *)
(* that are less than a window old, and nothing that is not such a call.      *)
EventsAreCalls ==
  \A s \in Servers, c \in Clients : loaded[s] # Down =>
    /\ \A d \in calls : Current(d, s, c) /\ now - d.at < Window =>
         [no |-> d.no, at |-> d.at] \in events[s][c]
    /\ \A e \in events[s][c] : \E d \in calls :
         Current(d, s, c) /\ d.no = e.no /\ d.at = e.at

(* A training that goes on has a file that could be split.                    *)
JobIsSplit ==
  /\ pc \in {"split", "dumping"} => SplitSucceeds(job.frame)
  /\ pc = "rejected" => ~ SplitSucceeds(job.frame)

CallsExact ==
  \A e \in calls : e.admitted <=> Cardinality(AdmittedBefore(e)) < Limit

IInv ==
  /\ TypeOK /\ JobIsSplit /\ PolicyIsNearlyCheapest /\ DecisionsAreTraceable
  /\ CallsInOrder /\ EventsAreCalls /\ CallsExact

(* The validation rows of a file that was split make a sample.                *)
LEMMA ValidationIsSample ==
  ASSUME NEW frame \in Frames, SplitSucceeds(frame),
         NEW scores \in [Split(frame).validation -> Scores]
  PROVE  LET sample == [i \in Split(frame).validation |->
                          [score |-> scores[i], fraud |-> frame[i].fraud]]
         IN /\ IsSample(sample)
            /\ sample \in [Split(frame).validation -> [score : Scores, fraud : BOOLEAN]]
<1> DEFINE V == Split(frame).validation
           sample == [i \in V |-> [score |-> scores[i], fraud |-> frame[i].fraud]]
<1>1. V \in SUBSET DOMAIN frame
  BY DEF Split
<1>2. IsFiniteSet(DOMAIN frame) /\ \A i \in DOMAIN frame : frame[i].fraud \in BOOLEAN
  BY ReleaseAssumption DEF IsFrame
<1>3. IsFiniteSet(V) /\ V # {}
  BY <1>1, <1>2, FS_Subset DEF SplitSucceeds
<1> HIDE DEF V
<1>4. scores \in [V -> Scores]
  BY DEF V
<1>5. sample \in [V -> [score : Scores, fraud : BOOLEAN]]
  BY <1>1, <1>2, <1>4
<1>6. IsSample(sample)
  BY <1>3, <1>5, ReleaseAssumption DEF IsSample
<1> QED
  BY <1>5, <1>6 DEF V

(* The entries the limiter counts for a call are as many as the calls that    *)
(* were admitted in this life less than a window ago.                         *)
LEMMA RecentCounts ==
  ASSUME TypeOK, CallsInOrder, EventsAreCalls,
         NEW s \in Servers, NEW c \in Clients, loaded[s] # Down
  PROVE  LET counted == {d \in calls : Current(d, s, c) /\ now - d.at < Window}
         IN Cardinality(Recent(s, c)) = Cardinality(counted)
<1> DEFINE counted == {d \in calls : Current(d, s, c) /\ now - d.at < Window}
           entry == [d \in counted |-> [no |-> d.no, at |-> d.at]]
<1>1. IsFiniteSet(counted)
  BY FS_Subset DEF CallsInOrder
<1>2. \A d \in counted : entry[d] \in Recent(s, c)
  BY DEF EventsAreCalls, Recent
<1>3. \A d, e \in counted : entry[d] = entry[e] => d = e
  BY DEF CallsInOrder
<1>4. \A r \in Recent(s, c) : \E d \in counted : entry[d] = r
  <2> SUFFICES ASSUME NEW r \in Recent(s, c) PROVE \E d \in counted : entry[d] = r
    OBVIOUS
  <2>1. r \in events[s][c] /\ now - r.at < Window
    BY DEF Recent
  <2>2. PICK d \in calls : Current(d, s, c) /\ d.no = r.no /\ d.at = r.at
    BY <2>1 DEF EventsAreCalls
  <2>3. r = [no |-> r.no, at |-> r.at]
    BY <2>1 DEF TypeOK
  <2> QED BY <2>1, <2>2, <2>3
<1>5. entry \in Bijection(counted, Recent(s, c))
  <2>1. entry \in [counted -> Recent(s, c)]
    BY <1>2
  <2> HIDE DEF entry, counted
  <2>2. entry \in Injection(counted, Recent(s, c))
    BY <2>1, <1>3 DEF Injection, IsInjective
  <2>3. entry \in Surjection(counted, Recent(s, c))
    BY <2>1, <1>4, Zenon DEF Surjection
  <2> QED BY <2>2, <2>3 DEF Bijection
<1> HIDE DEF entry, counted
<1>6. Cardinality(Recent(s, c)) = Cardinality(counted)
  BY <1>1, <1>5, FS_Bijection DEF ExistsBijection
<1> QED
  BY <1>6 DEF counted

LEMMA InitEstablishes == Init => IInv
<1> SUFFICES ASSUME Init PROVE IInv
  OBVIOUS
<1>1. TypeOK
  BY ReleaseAssumption DEF Init, TypeOK
<1>2. CallsInOrder /\ EventsAreCalls /\ CallsExact
  BY FS_EmptySet DEF Init, CallsInOrder, EventsAreCalls, CallsExact
<1>3. JobIsSplit /\ PolicyIsNearlyCheapest /\ DecisionsAreTraceable
  BY DEF Init, JobIsSplit, PolicyIsNearlyCheapest, DecisionsAreTraceable
<1> QED
  BY <1>1, <1>2, <1>3 DEF IInv

(* What an action that takes no request leaves of the limiter's invariant.    *)
LEMMA LimiterUndisturbed ==
  ASSUME TypeOK, CallsInOrder, EventsAreCalls, CallsExact,
         now' \in Nat, now' >= now, loaded' = loaded, UNCHANGED <<life, events, calls>>
  PROVE  CallsInOrder' /\ EventsAreCalls' /\ CallsExact'
<1>1. \A d \in calls : d.at \in Nat
  BY ReleaseAssumption DEF TypeOK
<1>2. now \in Nat
  BY ReleaseAssumption DEF TypeOK
<1>3. CallsInOrder'
  BY <1>1, <1>2 DEF CallsInOrder
<1>4. EventsAreCalls'
  <2>1. \A d \in calls : now' - d.at < Window => now - d.at < Window
    BY <1>1, <1>2, ReleaseAssumption
  <2> QED BY <2>1 DEF EventsAreCalls, Current
<1>5. CallsExact'
  BY DEF CallsExact, AdmittedBefore
<1> QED
  BY <1>3, <1>4, <1>5

(* A call to the limiter is decided by, and recorded in, its history.         *)
LEMMA CallKeepsLimiter ==
  ASSUME TypeOK, CallsInOrder, EventsAreCalls, CallsExact,
         NEW s \in Servers, NEW c \in Clients, NEW admitted \in BOOLEAN,
         Calls(s, c, admitted)
  PROVE  /\ calls' \subseteq [no : Nat, at : 0..MaxTime, server : Servers, life : Nat,
                              client : Clients, admitted : BOOLEAN]
         /\ events' \in [Servers -> [Clients -> SUBSET [no : Nat, at : 0..MaxTime]]]
         /\ CallsInOrder' /\ EventsAreCalls' /\ CallsExact'
<1> DEFINE N == Cardinality(calls)
           new == [no |-> N, at |-> now, server |-> s, life |-> life[s],
                   client |-> c, admitted |-> admitted]
           kept == Recent(s, c) \cup IF admitted THEN {[no |-> N, at |-> now]} ELSE {}
<1>1. N \in Nat /\ IsFiniteSet(calls)
  BY FS_CardinalityType DEF CallsInOrder
<1>2. calls' = calls \cup {new} /\ now' = now /\ life' = life /\ loaded' = loaded
      /\ loaded[s] # Down /\ (admitted <=> Cardinality(Recent(s, c)) < Limit)
  BY DEF Calls, HasRoom
<1>3. events' = [events EXCEPT ![s][c] = kept]
  BY DEF Calls
<1>4. \A d \in calls : d.no \in Nat /\ d.no < N /\ d.at \in Nat /\ d.at <= now
  BY DEF CallsInOrder, TypeOK
<1>5. new \notin calls /\ N \notin {d.no : d \in calls}
  BY <1>1, <1>4
<1>6. now \in 0..MaxTime /\ life[s] \in Nat /\ now \in Nat
  BY ReleaseAssumption DEF TypeOK
<1>7. calls' \subseteq [no : Nat, at : 0..MaxTime, server : Servers, life : Nat,
                        client : Clients, admitted : BOOLEAN]
  BY <1>1, <1>2, <1>6 DEF TypeOK
<1>8. kept \in SUBSET [no : Nat, at : 0..MaxTime]
  <2>1. Recent(s, c) \in SUBSET [no : Nat, at : 0..MaxTime]
    BY DEF Recent, TypeOK
  <2> QED BY <2>1, <1>1, <1>6
<1>9. events' \in [Servers -> [Clients -> SUBSET [no : Nat, at : 0..MaxTime]]]
  <2> HIDE DEF kept
  <2> QED BY <1>3, <1>8 DEF TypeOK
<1>10. CallsInOrder'
  <2>1. IsFiniteSet(calls') /\ Cardinality(calls') = N + 1
    <3> HIDE DEF new
    <3> QED BY <1>1, <1>2, <1>5, FS_AddElement
  <2>2. \A d \in calls' : d.no < N + 1 /\ d.at <= now /\ d.life <= life[d.server]
    <3> SUFFICES ASSUME NEW d \in calls'
                 PROVE  d.no < N + 1 /\ d.at <= now /\ d.life <= life[d.server]
      OBVIOUS
    <3>1. CASE d \in calls
      BY <3>1, <1>1, <1>4 DEF CallsInOrder
    <3>2. CASE d = new
      BY <3>2, <1>1, <1>6
    <3> QED BY <3>1, <3>2, <1>2
  <2>3. \A d, e \in calls' : d.no = e.no => d = e
    BY <1>2, <1>5 DEF CallsInOrder
  <2> QED BY <2>1, <2>2, <2>3, <1>2 DEF CallsInOrder
<1>11. EventsAreCalls'
  <2> SUFFICES ASSUME NEW s1 \in Servers, NEW c1 \in Clients, loaded[s1] # Down
               PROVE  /\ \A d \in calls' : Current(d, s1, c1) /\ now - d.at < Window =>
                           [no |-> d.no, at |-> d.at] \in events'[s1][c1]
                      /\ \A e \in events'[s1][c1] : \E d \in calls' :
                           Current(d, s1, c1) /\ d.no = e.no /\ d.at = e.at
    BY <1>2 DEF EventsAreCalls, Current
  <2>1. CASE s1 = s /\ c1 = c
    <3>1. events'[s1][c1] = kept
      <4> HIDE DEF kept
      <4> QED BY <2>1, <1>3 DEF TypeOK
    <3>2. ASSUME NEW d \in calls', Current(d, s1, c1), now - d.at < Window
          PROVE  [no |-> d.no, at |-> d.at] \in kept
      <4>1. CASE d \in calls
        <5>1. [no |-> d.no, at |-> d.at] \in events[s][c]
          BY <4>1, <3>2, <2>1, <1>2 DEF EventsAreCalls
        <5> QED BY <5>1, <3>2 DEF Recent
      <4>2. CASE d = new
        BY <4>2, <3>2 DEF Current
      <4> QED BY <4>1, <4>2, <1>2
    <3>3. ASSUME NEW e \in kept
          PROVE  \E d \in calls' : Current(d, s1, c1) /\ d.no = e.no /\ d.at = e.at
      <4>1. CASE e \in Recent(s, c)
        <5>1. e \in events[s][c]
          BY <4>1 DEF Recent
        <5> QED BY <5>1, <2>1, <1>2 DEF EventsAreCalls
      <4>2. CASE e \notin Recent(s, c)
        <5>1. admitted /\ e = [no |-> N, at |-> now]
          BY <4>2, <3>3
        <5>2. Current(new, s1, c1) /\ new.no = e.no /\ new.at = e.at
          BY <5>1, <2>1 DEF Current
        <5> QED BY <5>2, <1>2
      <4> QED BY <4>1, <4>2
    <3> QED BY <3>1, <3>2, <3>3
  <2>2. CASE ~ (s1 = s /\ c1 = c)
    <3>1. events'[s1][c1] = events[s1][c1]
      <4> HIDE DEF kept
      <4> QED BY <2>2, <1>3 DEF TypeOK
    <3>2. ~ Current(new, s1, c1)
      BY <2>2 DEF Current
    <3> QED BY <3>1, <3>2, <1>2 DEF EventsAreCalls
  <2> QED BY <2>1, <2>2
<1>12. CallsExact'
  <2>1. \A e \in calls : AdmittedBefore(e)' = AdmittedBefore(e)
    BY <1>1, <1>2, <1>4 DEF AdmittedBefore
  <2> SUFFICES ASSUME NEW e \in calls'
               PROVE  e.admitted <=> Cardinality(AdmittedBefore(e)') < Limit
    BY DEF CallsExact
  <2>4. CASE e \in calls
    BY <2>1, <2>4 DEF CallsExact
  <2>5. CASE e = new
    <3>1. /\ e.server = s /\ e.life = life[s] /\ e.client = c
          /\ e.no = N /\ e.at = now /\ e.admitted = admitted
      BY <2>5
    <3>2. AdmittedBefore(e)' = {d \in calls : Current(d, s, c) /\ now - d.at < Window}
      BY <3>1, <1>1, <1>2, <1>4 DEF AdmittedBefore, Current
    <3>3. Cardinality(AdmittedBefore(e)') = Cardinality(Recent(s, c))
      BY <3>2, <1>2, RecentCounts
    <3> QED BY <3>1, <3>3, <1>2
  <2> QED BY <2>4, <2>5, <1>2
<1> QED
  BY <1>7, <1>9, <1>10, <1>11, <1>12

(* A request of the scoring route whose answer is the record of ledger[x] or  *)
(* none, in what it leaves alone.                                             *)
LEMMA RequestLeavesAlone ==
  ASSUME NEW s, NEW c, NEW admitted, Calls(s, c, admitted)
  PROVE  UNCHANGED <<now, trainings, pc, job, artifact, released, loaded, life>>
BY DEF Calls, trainerVars

(* Training and its artifact do not depend on requests.                       *)
LEMMA TrainingUndisturbed ==
  ASSUME UNCHANGED <<pc, job>>
  PROVE  (JobIsSplit => JobIsSplit') /\ (PolicyIsNearlyCheapest => PolicyIsNearlyCheapest')
BY DEF JobIsSplit, PolicyIsNearlyCheapest

(* Decisions stay traceable while no release is forgotten.                    *)
LEMMA LedgerUndisturbed ==
  ASSUME UNCHANGED ledger, released \subseteq released', DecisionsAreTraceable
  PROVE  DecisionsAreTraceable'
BY DEF DecisionsAreTraceable

LEMMA TrainingKeepsInv ==
  ASSUME IInv,
         \/ \E frame \in Frames : StartTraining(frame)
         \/ FitAndDump \/ WriteArtifact \/ TrainingDies
  PROVE  IInv'
<1> USE DEF trainerVars, serverVars, requestVars
<1>1. TypeOK /\ JobIsSplit /\ PolicyIsNearlyCheapest /\ DecisionsAreTraceable
      /\ CallsInOrder /\ EventsAreCalls /\ CallsExact
  BY DEF IInv
<1>2. UNCHANGED <<now, loaded, life, events, calls, ledger, answer>> /\ released \subseteq released'
  BY DEF StartTraining, FitAndDump, WriteArtifact, TrainingDies
<1>3. CallsInOrder' /\ EventsAreCalls' /\ CallsExact'
  <2>1. now \in Nat
    BY <1>1, ReleaseAssumption DEF TypeOK
  <2> QED BY <1>1, <1>2, <2>1, LimiterUndisturbed
<1>4. DecisionsAreTraceable'
  BY <1>1, <1>2, LedgerUndisturbed
<1>5. ASSUME NEW frame \in Frames, StartTraining(frame)
      PROVE  TypeOK' /\ JobIsSplit' /\ PolicyIsNearlyCheapest'
  <2>1. /\ pc' \in {"split", "rejected"} /\ job'.frame = frame /\ job'.parts = Split(frame)
        /\ trainings' = trainings + 1 /\ UNCHANGED <<artifact, released>>
        /\ pc' = "split" <=> SplitSucceeds(frame)
    BY <1>5 DEF StartTraining
  <2>2. TypeOK'
    BY <1>1, <1>2, <2>1 DEF TypeOK
  <2> QED BY <2>1, <2>2 DEF JobIsSplit, PolicyIsNearlyCheapest
<1>6. ASSUME FitAndDump PROVE TypeOK' /\ JobIsSplit' /\ PolicyIsNearlyCheapest'
  <2>1. /\ pc = "split" /\ pc' = "dumping" /\ artifact' = Partial
        /\ UNCHANGED <<trainings, released>>
    BY <1>6 DEF FitAndDump
  <2>2. PICK scores \in [job.parts.validation -> Scores], name \in Models :
          LET sample == [i \in job.parts.validation |->
                           [score |-> scores[i], fraud |-> job.frame[i].fraud]]
          IN job' = [frame |-> job.frame, parts |-> job.parts, name |-> name,
                     sample |-> sample, policy |-> OptimizeThresholds(sample, Grid(sample))]
    BY <1>6 DEF FitAndDump
  <2> DEFINE sample == [i \in job.parts.validation |->
                          [score |-> scores[i], fraud |-> job.frame[i].fraud]]
             best == OptimizeThresholds(sample, Grid(sample))
  <2>3. job.frame \in Frames /\ job.parts = Split(job.frame) /\ SplitSucceeds(job.frame)
    BY <1>1, <2>1 DEF TypeOK, JobIsSplit
  <2>4. IsSample(sample)
        /\ sample \in [job.parts.validation -> [score : Scores, fraud : BOOLEAN]]
    <3>1. scores \in [Split(job.frame).validation -> Scores]
      BY <2>3
    <3> QED BY <2>3, <3>1, ValidationIsSample
  <2>5. /\ job'.frame = job.frame /\ job'.parts = job.parts /\ job'.name = name
        /\ job'.sample = sample /\ job'.policy = best
    BY <2>2
  <2> HIDE DEF sample
  <2>6. /\ best \in [allow : Nat, block : Nat] /\ best.allow <= best.block
        /\ WithinCapacity(sample, best) /\ IsNearlyCheapest(sample, best, Nat)
    BY <2>4, ThresholdsAreNearlyOptimal
  <2> HIDE DEF best
  <2>7. best \in Policies
    BY <2>6 DEF Policies
  <2>8. TypeOK'
    BY <1>1, <1>2, <2>1, <2>3, <2>4, <2>5, <2>7 DEF TypeOK
  <2>9. JobIsSplit'
    BY <2>1, <2>3, <2>5 DEF JobIsSplit
  <2>10. PolicyIsNearlyCheapest'
    <3>1. {Steps * score : score \in Scores} \in SUBSET Nat
      <4>1. \A score \in Scores : score \in Nat
        BY ReleaseAssumption
      <4> QED BY <4>1, Products, StepsAssumption
    <3>2. IsNearlyCheapest(sample, best, {Steps * score : score \in Scores})
      BY <2>6, <3>1 DEF IsNearlyCheapest
    <3> QED BY <2>5, <2>6, <3>2 DEF PolicyIsNearlyCheapest
  <2> QED BY <2>8, <2>9, <2>10
<1>7. ASSUME WriteArtifact PROVE TypeOK' /\ JobIsSplit' /\ PolicyIsNearlyCheapest'
  <2>1. /\ pc = "dumping" /\ pc' = "idle" /\ UNCHANGED trainings
        /\ artifact' = Bundle(job) /\ released' = released \cup {Bundle(job)}
    BY <1>7 DEF WriteArtifact
  <2>2. Bundle(job) \in Bundles
    BY <1>1, <2>1 DEF TypeOK, Bundle, Bundles
  <2>3. TypeOK'
    <3>1. loaded \in [Servers -> released' \cup {Absent, Down}]
      BY <1>1, <2>1 DEF TypeOK
    <3> QED BY <1>1, <1>2, <2>1, <2>2, <3>1 DEF TypeOK
  <2> QED BY <2>1, <2>3 DEF JobIsSplit, PolicyIsNearlyCheapest
<1>8. ASSUME TrainingDies PROVE TypeOK' /\ JobIsSplit' /\ PolicyIsNearlyCheapest'
  <2>1. pc' = "idle" /\ UNCHANGED <<trainings, artifact, released>>
    BY <1>8 DEF TrainingDies
  <2>2. TypeOK'
    BY <1>1, <1>2, <2>1 DEF TypeOK
  <2> QED BY <2>1, <2>2 DEF JobIsSplit, PolicyIsNearlyCheapest
<1> QED
  BY <1>3, <1>4, <1>5, <1>6, <1>7, <1>8 DEF IInv

LEMMA ProcessKeepsInv ==
  ASSUME IInv, NEW s \in Servers, Start(s) \/ Stop(s)
  PROVE  IInv'
<1> USE DEF trainerVars, serverVars, requestVars
<1>1. TypeOK /\ JobIsSplit /\ PolicyIsNearlyCheapest /\ DecisionsAreTraceable
      /\ CallsInOrder /\ EventsAreCalls /\ CallsExact
  BY DEF IInv
<1>2. UNCHANGED <<now, trainings, pc, job, artifact, released, ledger, answer, calls>>
  BY DEF Start, Stop
<1>3. JobIsSplit' /\ PolicyIsNearlyCheapest' /\ DecisionsAreTraceable' /\ CallsExact'
  BY <1>1, <1>2, TrainingUndisturbed, LedgerUndisturbed DEF CallsExact, AdmittedBefore
<1>4. ASSUME Start(s) PROVE TypeOK' /\ CallsInOrder' /\ EventsAreCalls'
  <2>1. /\ artifact # Partial /\ loaded' = [loaded EXCEPT ![s] = artifact]
        /\ life' = [life EXCEPT ![s] = life[s] + 1]
        /\ events' = [events EXCEPT ![s] = [c \in Clients |-> {}]]
    BY <1>4 DEF Start
  <2>2. TypeOK'
    BY <1>1, <1>2, <2>1 DEF TypeOK
  <2>3. /\ life'[s] = life[s] + 1 /\ \A r \in Servers \ {s} : life'[r] = life[r]
        /\ \A r \in Servers : life[r] \in Nat
    BY <1>1, <2>1 DEF TypeOK
  <2>4. \A d \in calls : d.server \in Servers /\ d.life \in Nat /\ d.life <= life[d.server]
    BY <1>1 DEF TypeOK, CallsInOrder
  <2>5. CallsInOrder'
    <3>1. \A d \in calls : d.life <= life'[d.server]
      BY <2>3, <2>4
    <3> QED BY <1>1, <1>2, <3>1 DEF CallsInOrder
  <2>6. EventsAreCalls'
    <3> SUFFICES ASSUME NEW r \in Servers, NEW c \in Clients, loaded'[r] # Down
                 PROVE  /\ \A d \in calls : Current(d, r, c)' /\ now - d.at < Window =>
                             [no |-> d.no, at |-> d.at] \in events'[r][c]
                        /\ \A e \in events'[r][c] : \E d \in calls :
                             Current(d, r, c)' /\ d.no = e.no /\ d.at = e.at
      BY <1>2 DEF EventsAreCalls
    <3>1. CASE r = s
      <4>1. events'[r][c] = {}
        BY <3>1, <1>1, <2>1 DEF TypeOK
      <4>2. \A d \in calls : ~ Current(d, r, c)'
        BY <3>1, <2>3, <2>4 DEF Current
      <4> QED BY <4>1, <4>2
    <3>2. CASE r # s
      <4>1. events'[r] = events[r] /\ loaded'[r] = loaded[r] /\ life'[r] = life[r]
        BY <3>2, <1>1, <2>1 DEF TypeOK
      <4> QED BY <4>1, <1>1 DEF EventsAreCalls, Current
    <3> QED BY <3>1, <3>2
  <2> QED BY <2>2, <2>5, <2>6
<1>5. ASSUME Stop(s) PROVE TypeOK' /\ CallsInOrder' /\ EventsAreCalls'
  <2>1. loaded' = [loaded EXCEPT ![s] = Down] /\ UNCHANGED <<life, events>>
    BY <1>5 DEF Stop
  <2>2. TypeOK'
    BY <1>1, <1>2, <2>1 DEF TypeOK
  <2>3. CallsInOrder'
    BY <1>1, <1>2, <2>1 DEF CallsInOrder
  <2>4. \A r \in Servers : loaded'[r] # Down => loaded[r] # Down
    BY <1>1, <2>1 DEF TypeOK
  <2>5. EventsAreCalls'
    BY <1>1, <1>2, <2>1, <2>4 DEF EventsAreCalls, Current
  <2> QED BY <2>2, <2>3, <2>5
<1> QED
  BY <1>3, <1>4, <1>5 DEF IInv

LEMMA RequestKeepsInv ==
  ASSUME IInv, NEW s \in Servers, NEW c \in Clients,
         \/ TooMany(s, c) \/ NoModel(s, c)
         \/ \E x \in Transactions : \/ \E score \in Scores : ScoreNew(s, c, x, score)
                                    \/ ReplayOld(s, c, x)
  PROVE  IInv'
<1>1. TypeOK /\ JobIsSplit /\ PolicyIsNearlyCheapest /\ DecisionsAreTraceable
      /\ CallsInOrder /\ EventsAreCalls /\ CallsExact
  BY DEF IInv
<1>2. PICK admitted \in BOOLEAN : Calls(s, c, admitted)
  BY DEF TooMany, NoModel, ScoreNew, ReplayOld
<1>3. UNCHANGED <<now, trainings, pc, job, artifact, released, loaded, life>> /\ loaded[s] # Down
  BY <1>2, RequestLeavesAlone DEF Calls
<1>4. /\ calls' \subseteq [no : Nat, at : 0..MaxTime, server : Servers, life : Nat,
                           client : Clients, admitted : BOOLEAN]
      /\ events' \in [Servers -> [Clients -> SUBSET [no : Nat, at : 0..MaxTime]]]
      /\ CallsInOrder' /\ EventsAreCalls' /\ CallsExact'
  BY <1>1, <1>2, CallKeepsLimiter
<1>5. JobIsSplit' /\ PolicyIsNearlyCheapest'
  BY <1>1, <1>3, TrainingUndisturbed
<1> DEFINE Records == [score : Scores, decision : Verdicts,
                       version : Models \X {Fingerprint(f) : f \in Frames}]
           Answers == [score : Scores, decision : Verdicts, thresholds : Policies]
<1>6. ASSUME ledger' \in [Transactions -> Records \cup {Nothing}],
             answer' \in Answers \cup {Nothing}
      PROVE  TypeOK'
  BY <1>1, <1>3, <1>4, <1>6 DEF TypeOK
<1>7. ledger \in [Transactions -> Records \cup {Nothing}] /\ answer \in Answers \cup {Nothing}
  BY <1>1 DEF TypeOK
<1>8. loaded[s] # Absent => loaded[s] \in released /\ loaded[s].policy \in Policies
        /\ loaded[s].version \in Models \X {Fingerprint(f) : f \in Frames}
  BY <1>1, <1>3 DEF TypeOK, Bundles
<1> HIDE DEF Records, Answers
<1>9. ASSUME TooMany(s, c) \/ NoModel(s, c) PROVE TypeOK' /\ DecisionsAreTraceable'
  BY <1>1, <1>3, <1>6, <1>7, <1>9, LedgerUndisturbed DEF TooMany, NoModel
<1>10. ASSUME NEW x \in Transactions, NEW score \in Scores, ScoreNew(s, c, x, score)
       PROVE  TypeOK' /\ DecisionsAreTraceable'
  <2> DEFINE record == [score |-> score, decision |-> Decide(loaded[s].policy, score),
                        version |-> loaded[s].version]
  <2>1. loaded[s] # Absent /\ ledger' = [ledger EXCEPT ![x] = record]
        /\ answer' = Response(record, loaded[s])
    BY <1>10 DEF ScoreNew
  <2>2. record \in Records
    BY <2>1, <1>8 DEF Decide, Verdicts, Records
  <2>3. Response(record, loaded[s]) \in Answers
    BY <2>1, <1>8 DEF Decide, Verdicts, Answers, Response
  <2>4. record.version = loaded[s].version /\ record.score = score
        /\ record.decision = Decide(loaded[s].policy, score)
    OBVIOUS
  <2> HIDE DEF record
  <2>5. TypeOK'
    BY <2>1, <2>2, <2>3, <1>6, <1>7
  <2>6. DecisionsAreTraceable'
    <3> SUFFICES ASSUME NEW y \in Transactions, ledger'[y] # Nothing
                 PROVE  \E b \in released : /\ b.version = ledger'[y].version
                                            /\ ledger'[y].decision = Decide(b.policy, ledger'[y].score)
      BY <1>3 DEF DecisionsAreTraceable
    <3>1. CASE y = x
      <4>1. ledger'[y] = record
        BY <3>1, <2>1, <1>7
      <4> QED BY <4>1, <2>1, <2>4, <1>8
    <3>2. CASE y # x
      <4>1. ledger'[y] = ledger[y]
        BY <3>2, <2>1, <1>7
      <4> QED BY <4>1, <1>1 DEF DecisionsAreTraceable
    <3> QED BY <3>1, <3>2
  <2> QED BY <2>5, <2>6
<1>11. ASSUME NEW x \in Transactions, ReplayOld(s, c, x)
       PROVE  TypeOK' /\ DecisionsAreTraceable'
  <2>1. loaded[s] # Absent /\ ledger[x] \in Records /\ ledger' = ledger
        /\ answer' = Response(ledger[x], loaded[s])
    BY <1>11, <1>7 DEF ReplayOld
  <2>2. Response(ledger[x], loaded[s]) \in Answers
    BY <2>1, <1>8 DEF Response, Records, Answers
  <2> QED BY <2>1, <2>2, <1>1, <1>3, <1>6, <1>7, LedgerUndisturbed
<1>12. TypeOK' /\ DecisionsAreTraceable'
  BY <1>9, <1>10, <1>11
<1> QED
  BY <1>4, <1>5, <1>12 DEF IInv

LEMMA StepPreserves == IInv /\ [Next]_vars => IInv'
<1> SUFFICES ASSUME IInv, [Next]_vars PROVE IInv'
  OBVIOUS
<1>1. CASE Tick
  <2>1. now' = now + 1 /\ now' \in 0..MaxTime /\ now \in Nat
        /\ UNCHANGED <<trainings, pc, job, artifact, released, loaded, life, events,
                       ledger, answer, calls>>
    BY <1>1, ReleaseAssumption DEF Tick, IInv, TypeOK, trainerVars, serverVars, requestVars
  <2>2. TypeOK'
    BY <2>1 DEF IInv, TypeOK
  <2>3. CallsInOrder' /\ EventsAreCalls' /\ CallsExact'
    BY <2>1, LimiterUndisturbed, ReleaseAssumption DEF IInv
  <2>4. JobIsSplit' /\ PolicyIsNearlyCheapest' /\ DecisionsAreTraceable'
    BY <2>1, TrainingUndisturbed, LedgerUndisturbed DEF IInv
  <2> QED BY <2>2, <2>3, <2>4 DEF IInv
<1>2. CASE UNCHANGED vars
  <2>1. UNCHANGED <<now, trainings, pc, job, artifact, released, loaded, life, events,
                    ledger, answer, calls>>
    BY <1>2 DEF vars, trainerVars, serverVars, requestVars
  <2>2. TypeOK'
    BY <2>1 DEF IInv, TypeOK
  <2>3. CallsInOrder' /\ EventsAreCalls' /\ CallsExact'
    <3>1. now \in Nat
      BY ReleaseAssumption DEF IInv, TypeOK
    <3> QED BY <2>1, <3>1, LimiterUndisturbed DEF IInv
  <2>4. JobIsSplit' /\ PolicyIsNearlyCheapest' /\ DecisionsAreTraceable'
    BY <2>1, TrainingUndisturbed, LedgerUndisturbed DEF IInv
  <2> QED BY <2>2, <2>3, <2>4 DEF IInv
<1>3. CASE \/ \E frame \in Frames : StartTraining(frame)
           \/ FitAndDump \/ WriteArtifact \/ TrainingDies
  BY <1>3, TrainingKeepsInv
<1>4. ASSUME NEW s \in Servers, Start(s) \/ Stop(s) PROVE IInv'
  BY <1>4, ProcessKeepsInv
<1>5. ASSUME NEW s \in Servers, NEW c \in Clients,
             \/ TooMany(s, c) \/ NoModel(s, c)
             \/ \E x \in Transactions : \/ \E score \in Scores : ScoreNew(s, c, x, score)
                                        \/ ReplayOld(s, c, x)
      PROVE  IInv'
  BY <1>5, RequestKeepsInv
<1> QED
  BY <1>1, <1>2, <1>3, <1>4, <1>5 DEF Next

(* IInv is an invariant.                                                      *)
THEOREM Invariance == Spec => []IInv
BY InitEstablishes, StepPreserves, PTL DEF Spec

(* The types, for every constant: only whole bundles of good files are loaded.*)
THEOREM TypeCorrect == Spec => []TypeOK
<1>1. IInv => TypeOK
  BY DEF IInv
<1> QED
  BY <1>1, Invariance, PTL

(* Every training works on partitions in time order, and with at most 66      *)
(* hundredths of the timestamps for training, of which the default 60 is one, *)
(* no sound file with three timestamps is turned away.                        *)
THEOREM SplitSound == ASSUME TrainPercent <= 66 PROVE Spec => []SplitIsSound
<1>1. IInv => SplitIsSound
  <2> SUFFICES ASSUME IInv PROVE SplitIsSound
    OBVIOUS
  <2>1. TypeOK /\ JobIsSplit
    BY DEF IInv
  <2>2. \A frame \in Frames : IsFrame(frame)
    BY ReleaseAssumption
  <2>3. ASSUME pc \in {"split", "dumping"} PROVE IsChronological(job.frame, job.parts)
    <3>1. job.frame \in Frames /\ job.parts = Split(job.frame) /\ SplitSucceeds(job.frame)
      BY <2>1, <2>3 DEF TypeOK, JobIsSplit
    <3> QED BY <3>1, <2>2, SplitIsByTime
  <2>4. ASSUME pc = "rejected"
        PROVE  ~ MeetsContract(job.frame) \/ Cardinality(Timestamps(job.frame)) < 3
    <3>1. job.frame \in Frames /\ ~ SplitSucceeds(job.frame)
      BY <2>1, <2>4 DEF TypeOK, JobIsSplit
    <3>2. Cardinality(Timestamps(job.frame)) \in Nat
      BY <3>1, <2>2, TimestampsAreFinite, FS_CardinalityType
    <3> QED BY <3>1, <3>2, <2>2, SplitNeverEmpty
  <2> QED BY <2>3, <2>4 DEF SplitIsSound
<1> QED
  BY <1>1, Invariance, PTL

(* Whatever the file, the calibrated scores, the labels, the costs and the    *)
(* capacity, the thresholds a training publishes keep the reviews within      *)
(* capacity, and no thresholds at scores that block a row and leave the slack *)
(* in the capacity are cheaper by more than the rows between two quantiles.   *)
THEOREM PolicyNearlyCheapest == Spec => []PolicyIsNearlyCheapest
<1>1. IInv => PolicyIsNearlyCheapest
  BY DEF IInv
<1> QED
  BY <1>1, Invariance, PTL

(* However models are retrained, overwritten and reloaded between requests, a *)
(* stored decision is one that a release of its recorded version takes.       *)
THEOREM Traceable == Spec => []DecisionsAreTraceable
<1>1. IInv => DecisionsAreTraceable
  BY DEF IInv
<1> QED
  BY <1>1, Invariance, PTL

(* No interval of a window's length holds more than Limit admitted calls: all *)
(* but the last of them were counted when the last was let in.                *)
LEMMA WindowIsBounded ==
  ASSUME IInv, NEW s, NEW c, NEW n, NEW t \in Nat
  PROVE  Cardinality({d \in calls : /\ <<d.server, d.life, d.client>> = <<s, n, c>>
                                    /\ d.admitted /\ t <= d.at /\ d.at < t + Window}) <= Limit
<1> DEFINE W == {d \in calls : /\ <<d.server, d.life, d.client>> = <<s, n, c>>
                               /\ d.admitted /\ t <= d.at /\ d.at < t + Window}
           N == Cardinality(calls)
<1>1. IsFiniteSet(calls) /\ N \in Nat /\ Limit \in Nat /\ Window \in Nat
  BY FS_CardinalityType, ReleaseAssumption DEF IInv, CallsInOrder
<1>2. \A d \in calls : d.no \in Nat /\ d.no < N /\ d.at \in Nat
  BY ReleaseAssumption DEF IInv, CallsInOrder, TypeOK
<1>3. W \in SUBSET calls /\ IsFiniteSet(W)
  BY <1>1, FS_Subset
<1>4. CASE W = {}
  BY <1>4, <1>1, FS_EmptySet
<1>5. CASE W # {}
  <2> DEFINE ages == {N - d.no : d \in W}
  <2>1. ages \in SUBSET Nat /\ ages # {}
    BY <1>1, <1>2, <1>3, <1>5
  <2>2. PICK a \in ages : \A b \in ages : a <= b
    <3> HIDE DEF ages
    <3> QED BY <2>1, LeastNatural
  <2>3. PICK last \in W : a = N - last.no
    BY <2>2
  <2>4. \A d \in W : d.no <= last.no
    <3> SUFFICES ASSUME NEW d \in W PROVE d.no <= last.no
      OBVIOUS
    <3>1. a <= N - d.no
      BY <2>2
    <3>2. d.no \in Nat /\ last.no \in Nat
      BY <1>2
    <3> HIDE DEF N, W
    <3> QED BY <3>1, <3>2, <2>3, <1>1
  <2>5. W \ {last} \in SUBSET AdmittedBefore(last)
    <3> SUFFICES ASSUME NEW d \in W, d # last PROVE d \in AdmittedBefore(last)
      OBVIOUS
    <3>1. d.no # last.no
      BY DEF IInv, CallsInOrder
    <3>2. d.no < last.no
      BY <3>1, <2>4, <1>2
    <3>3. last.at - d.at < Window
      BY <1>1, <1>2
    <3> QED BY <3>2, <3>3 DEF AdmittedBefore
  <2>6. IsFiniteSet(AdmittedBefore(last)) /\ AdmittedBefore(last) \in SUBSET calls
    <3>1. AdmittedBefore(last) \in SUBSET calls
      BY DEF AdmittedBefore
    <3> QED BY <3>1, <1>1, FS_Subset
  <2>7. Cardinality(AdmittedBefore(last)) < Limit
    <3>1. last \in calls /\ last.admitted
      BY <1>3
    <3> QED BY <3>1 DEF IInv, CallsExact
  <2>8. Cardinality(W \ {last}) <= Cardinality(AdmittedBefore(last))
    BY <2>5, <2>6, FS_Subset
  <2>9. Cardinality(W \ {last}) = Cardinality(W) - 1
    <3> HIDE DEF W
    <3> QED BY <1>3, <2>3, FS_RemoveElement
  <2>10. Cardinality(W) \in Nat /\ Cardinality(AdmittedBefore(last)) \in Nat
    BY <1>3, <2>6, FS_CardinalityType
  <2>11. Cardinality(W) <= Limit
    <3> HIDE DEF W
    <3> QED BY <2>7, <2>8, <2>9, <2>10, <1>1
  <2> QED BY <2>11
<1> QED
  BY <1>4, <1>5

(* For any limit, window and sequence of calls, ticks and restarts, the       *)
(* limiter admits what its whole history allows, and never more than Limit in *)
(* a window.                                                                  *)
THEOREM LimiterExact == Spec => []LimiterIsExact
<1>1. IInv => LimiterIsExact
  <2> SUFFICES ASSUME IInv PROVE LimiterIsExact
    OBVIOUS
  <2>1. \A t \in 0..MaxTime : t \in Nat
    BY ReleaseAssumption
  <2> QED BY <2>1, WindowIsBounded DEF LimiterIsExact, IInv, CallsExact
<1> QED
  BY <1>1, Invariance, PTL
=============================================================================
