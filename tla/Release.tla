------------------------------- MODULE Release -------------------------------
(* How a model comes into service and what it then answers: the training run  *)
(* (training.py) that splits a file, fits, chooses the thresholds and writes  *)
(* the artifact; API processes that load the artifact when they start         *)
(* (FraudScoringService.from_settings) and keep it until they stop; and the   *)
(* scoring route seen from the outside, behind the rate limiter of its        *)
(* process (SlidingRateLimiter).                                              *)
(*                                                                            *)
(* Simplifications, and why they lose nothing here:                           *)
(*  - A request is one step.  Between its awaits a process neither reloads    *)
(*    its bundle nor consults the limiter again; Scoring interleaves the rest.*)
(*  - A ledger row keeps what a replay shows.  There is one organization.     *)
(*  - What the fitted model makes of a row is arbitrary.                      *)
(*  - The limiter is that of one path: its key is the client and the path.    *)
EXTENDS TemporalSplit, ThresholdPolicy

CONSTANTS
  Servers,          \* API processes, each restarted any number of times
  Clients,          \* client addresses
  Transactions,     \* external transaction ids
  Frames,           \* the files a training may read
  Scores,           \* what predict_proba may return
  Models,           \* names of candidate models
  Limit,            \* rate_limit_per_minute
  Window,           \* the limiter's 60 seconds, in ticks of the clock
  MaxTime, MaxTrainings, MaxStarts, MaxRequests,     \* bounds for TLC
  Absent, Partial,  \* no artifact file; one whose writing was cut short
  Down,             \* the process is not running
  Nothing           \* no job, no decision, no answer

ASSUME ReleaseAssumption ==
  /\ Scores \subseteq Nat
  /\ \A frame \in Frames : IsFrame(frame)
  /\ Limit \in Nat /\ Window \in Nat /\ MaxTime \in Nat /\ MaxStarts \in Nat

VARIABLES
  now,              \* the clock, monotonic and shared by the processes
  trainings,        \* trainings started so far
  pc, job,          \* the training: where it is, its local variables
  artifact,         \* the file at settings.model_path
  released,         \* history: every bundle written to the end
  loaded,           \* per server: Down, its bundle, or Absent
  life,             \* history: how many times the server was started
  events,           \* per server and client: the limiter's recent entries
  ledger,           \* per transaction: the stored decision
  answer,           \* the last 200 answer of the scoring route
  calls             \* history: every call to the limiter

trainerVars == <<trainings, pc, job>>
serverVars == <<loaded, life, events>>
requestVars == <<ledger, answer, calls>>
vars == <<now, trainerVars, artifact, released, serverVars, requestVars>>

Init ==
  /\ now = 0
  /\ trainings = 0 /\ pc = "idle" /\ job = Nothing
  /\ artifact = Absent /\ released = {}
  /\ loaded = [s \in Servers |-> Down]
  /\ life = [s \in Servers |-> 0]
  /\ events = [s \in Servers |-> [c \in Clients |-> {}]]
  /\ ledger = [x \in Transactions |-> Nothing]
  /\ answer = Nothing /\ calls = {}

Tick ==
  /\ now < MaxTime
  /\ now' = now + 1
  /\ UNCHANGED <<trainerVars, artifact, released, serverVars, requestVars>>

----------------------------------------------------------------------------
(* Training                                                                   *)

(* train: read the file, validate it, split it; a DataContractError ends it.  *)
StartTraining(frame) ==
  /\ pc \in {"idle", "rejected"}
  /\ trainings < MaxTrainings
  /\ trainings' = trainings + 1
  /\ pc' = IF SplitSucceeds(frame) THEN "split" ELSE "rejected"
  /\ job' = [frame |-> frame, parts |-> Split(frame)]
  /\ UNCHANGED <<now, artifact, released, serverVars, requestVars>>

(* Fit on the first partition, select and calibrate on the second, and choose *)
(* the thresholds from the calibrated scores and the labels of the second.    *)
(* All this is local; then joblib.dump opens the served path itself, and the  *)
(* former artifact is gone.                                                   *)
FitAndDump ==
  /\ pc = "split"
  /\ \E scores \in [job.parts.validation -> Scores], name \in Models :
       LET sample == [i \in job.parts.validation |->
                        [score |-> scores[i], fraud |-> job.frame[i].fraud]]
       IN job' = [frame |-> job.frame, parts |-> job.parts, name |-> name, sample |-> sample,
                  policy |-> OptimizeThresholds(sample, Grid(sample))]
  /\ artifact' = Partial
  /\ pc' = "dumping"
  /\ UNCHANGED <<now, trainings, released, serverVars, requestVars>>

Bundle(j) == [version |-> <<j.name, Fingerprint(j.frame)>>, policy |-> j.policy]

WriteArtifact ==
  /\ pc = "dumping"
  /\ artifact' = Bundle(job)
  /\ released' = released \cup {Bundle(job)}
  /\ pc' = "idle" /\ job' = Nothing
  /\ UNCHANGED <<now, trainings, serverVars, requestVars>>

(* An exception (a partition of one class, a full disk) or the end of the     *)
(* process; nothing removes a partial file.                                   *)
TrainingDies ==
  /\ pc \in {"split", "dumping"}
  /\ pc' = "idle" /\ job' = Nothing
  /\ UNCHANGED <<now, trainings, artifact, released, serverVars, requestVars>>

----------------------------------------------------------------------------
(* API processes                                                              *)

(* Mutant: the process also comes up with what a cut-short file holds.        *)
StartAnyway(s) ==
  /\ loaded[s] = Down /\ life[s] < MaxStarts
  /\ loaded' = [loaded EXCEPT ![s] = artifact]
  /\ life' = [life EXCEPT ![s] = @ + 1]
  /\ events' = [events EXCEPT ![s] = [c \in Clients |-> {}]]
  /\ UNCHANGED <<now, trainerVars, artifact, released, requestVars>>

(* create_app: a new limiter, and the artifact if there is one.  Loading a    *)
(* partial file raises, and the process does not come up.                     *)
Start(s) ==
  /\ loaded[s] = Down /\ life[s] < MaxStarts
  /\ artifact # Partial
  /\ loaded' = [loaded EXCEPT ![s] = artifact]
  /\ life' = [life EXCEPT ![s] = @ + 1]
  /\ events' = [events EXCEPT ![s] = [c \in Clients |-> {}]]
  /\ UNCHANGED <<now, trainerVars, artifact, released, requestVars>>

Stop(s) ==
  /\ loaded[s] # Down
  /\ loaded' = [loaded EXCEPT ![s] = Down]
  /\ UNCHANGED <<now, trainerVars, artifact, released, life, events, requestVars>>

(* Mutant: an entry still counts when the window has just passed.             *)
RecentInclusive(s, c) == {e \in events[s][c] : now - e.at <= Window}

(* SlidingRateLimiter.allow.  An entry carries the number of its call beside  *)
(* its time, because the code's list keeps two entries of the same instant.   *)
Recent(s, c) == {e \in events[s][c] : now - e.at < Window}

HasRoom(s, c) == Cardinality(Recent(s, c)) < Limit

Calls(s, c, admitted) ==
  LET no == Cardinality(calls)
  IN /\ loaded[s] # Down
     /\ Cardinality(calls) < MaxRequests
     /\ admitted <=> HasRoom(s, c)
     /\ events' = [events EXCEPT ![s][c] =
          Recent(s, c) \cup IF admitted THEN {[no |-> no, at |-> now]} ELSE {}]
     /\ calls' = calls \cup {[no |-> no, at |-> now, server |-> s, life |-> life[s],
                              client |-> c, admitted |-> admitted]}
     /\ UNCHANGED <<now, trainerVars, artifact, released, loaded, life>>

(* 429 RATE_LIMITED with Retry-After: 60.                                     *)
TooMany(s, c) ==
  /\ Calls(s, c, FALSE)
  /\ UNCHANGED <<ledger, answer>>

(* 503 MODEL_UNAVAILABLE.                                                     *)
NoModel(s, c) ==
  /\ Calls(s, c, TRUE)
  /\ loaded[s] = Absent
  /\ UNCHANGED <<ledger, answer>>

(* response(): the decision and its scores are those of the record, the       *)
(* thresholds those of the bundle the process has loaded.                     *)
Response(record, bundle) ==
  [score |-> record.score, decision |-> record.decision, thresholds |-> bundle.policy]

(* Mutant: the record names the version of the file, not of the loaded bundle.*)
ScoreNewNamesFile(s, c, x, score) ==
  /\ Calls(s, c, TRUE)
  /\ loaded[s] # Absent /\ ledger[x] = Nothing /\ artifact # Partial
  /\ ledger' = [ledger EXCEPT ![x] =
       [score |-> score, decision |-> Decide(loaded[s].policy, score),
        version |-> artifact.version]]
  /\ answer' = Response(ledger'[x], loaded[s])

(* score() for a transaction the ledger does not hold.                        *)
ScoreNew(s, c, x, score) ==
  LET record == [score |-> score, decision |-> Decide(loaded[s].policy, score),
                 version |-> loaded[s].version]
  IN /\ Calls(s, c, TRUE)
     /\ loaded[s] # Absent
     /\ ledger[x] = Nothing
     /\ ledger' = [ledger EXCEPT ![x] = record]
     /\ answer' = Response(record, loaded[s])

(* score() for a transaction that was decided: an idempotent replay.          *)
ReplayOld(s, c, x) ==
  /\ Calls(s, c, TRUE)
  /\ loaded[s] # Absent
  /\ ledger[x] # Nothing
  /\ answer' = Response(ledger[x], loaded[s])
  /\ UNCHANGED ledger

Next ==
  \/ Tick
  \/ \E frame \in Frames : StartTraining(frame)
  \/ FitAndDump \/ WriteArtifact \/ TrainingDies
  \/ \E s \in Servers :
       \/ Start(s) \/ Stop(s)
       \/ \E c \in Clients :
            \/ TooMany(s, c) \/ NoModel(s, c)
            \/ \E x \in Transactions :
                 \/ \E score \in Scores : ScoreNew(s, c, x, score)
                 \/ ReplayOld(s, c, x)

Spec == Init /\ [][Next]_vars

----------------------------------------------------------------------------
(* Properties                                                                 *)

Policies == {p \in [allow : Nat, block : Nat] : p.allow <= p.block}
Bundles == [version : Models \X {Fingerprint(f) : f \in Frames}, policy : Policies]

(* Types: where a training stands fixes which of its locals exist, and only   *)
(* whole bundles are ever loaded.                                             *)
TypeOK ==
  /\ now \in 0..MaxTime /\ trainings \in Nat
  /\ pc \in {"idle", "rejected", "split", "dumping"}
  /\ pc # "idle" => job.frame \in Frames /\ job.parts = Split(job.frame)
  /\ pc = "dumping" =>
       /\ job.name \in Models
       /\ job.policy \in Policies
       /\ job.sample \in [job.parts.validation -> [score : Scores, fraud : BOOLEAN]]
  /\ artifact \in released \cup {Absent, Partial}
  /\ released \subseteq Bundles
  /\ loaded \in [Servers -> released \cup {Absent, Down}]
  /\ life \in [Servers -> Nat]
  /\ events \in [Servers -> [Clients -> SUBSET [no : Nat, at : 0..MaxTime]]]
  /\ ledger \in [Transactions ->
       [score : Scores, decision : Verdicts, version : Models \X {Fingerprint(f) : f \in Frames}]
         \cup {Nothing}]
  /\ answer \in [score : Scores, decision : Verdicts, thresholds : Policies] \cup {Nothing}
  /\ calls \subseteq [no : Nat, at : 0..MaxTime, server : Servers, life : Nat,
                      client : Clients, admitted : BOOLEAN]

(* docs/ML_EVALUATION.md:5 and contracts.py:115: no timestamp is on both      *)
(* sides of a cut and no row is lost, whatever the ties and however few the   *)
(* rows; and a sound file with three timestamps is never turned away.         *)
SplitIsSound ==
  /\ pc \in {"split", "dumping"} => IsChronological(job.frame, job.parts)
  /\ pc = "rejected" =>
       ~ MeetsContract(job.frame) \/ Cardinality(Timestamps(job.frame)) < 3

(* policy.py:74 chooses from the quantiles of the scores, whatever lies       *)
(* between them.  The chosen thresholds keep the reviews within capacity, and *)
(* any other thresholds save at most the rows between two candidates: none    *)
(* for up to Steps + 1 rows.                                                  *)
PolicyIsNearlyCheapest ==
  pc = "dumping" =>
    /\ WithinCapacity(job.sample, job.policy)
    /\ IsNearlyCheapest(job.sample, job.policy, {Steps * score : score \in Scores})

(* The calls of the same client to the same process life that were admitted   *)
(* before call e and less than a window ago.                                  *)
AdmittedBefore(e) ==
  {d \in calls : /\ <<d.server, d.life, d.client>> = <<e.server, e.life, e.client>>
                 /\ d.admitted /\ d.no < e.no /\ e.at - d.at < Window}

(* However its list is pruned, the limiter decides by the whole history of    *)
(* the process: a call is refused exactly when Limit calls of that client     *)
(* were admitted in the last window, so that a client that waits out          *)
(* Retry-After is admitted and no window ever holds more than Limit.          *)
LimiterIsExact ==
  /\ \A e \in calls : e.admitted <=> Cardinality(AdmittedBefore(e)) < Limit
  /\ \A s \in Servers, c \in Clients, n \in 1..MaxStarts, t \in 0..MaxTime :
       Cardinality({d \in calls : /\ <<d.server, d.life, d.client>> = <<s, n, c>>
                                  /\ d.admitted /\ t <= d.at /\ d.at < t + Window}) <= Limit

(* bundle.py:18, "traceable": whatever was retrained, overwritten or          *)
(* restarted since, a stored decision is what a release of the recorded       *)
(* version decides for the recorded score.                                    *)
DecisionsAreTraceable ==
  \A x \in Transactions : ledger[x] # Nothing =>
    \E b \in released : /\ b.version = ledger[x].version
                        /\ ledger[x].decision = Decide(b.policy, ledger[x].score)

(* service.py:226-228: the reason says on which side of the active thresholds *)
(* the probability lies, and the answer shows those thresholds beside it.     *)
ReasonsAreTrue ==
  answer # Nothing => answer.decision = Decide(answer.thresholds, answer.score)
=============================================================================
