---------------------------- MODULE ModelLifecycle ----------------------------
(***************************************************************************)
(* A model artifact from training to scoring: ml/train.py and              *)
(* scripts/ensure_model.py write three files, ModelService.reload          *)
(* (apps/scoring_api/model_service.py) verifies and loads them, and        *)
(* ModelService.score reads the loaded bundle in a thread of its own,      *)
(* since FastAPI runs both handlers in a thread pool and ModelService      *)
(* takes no lock.                                                          *)
(*                                                                         *)
(* A bundle, its digest and its metadata are all represented by the number *)
(* of the training run that made them.                                     *)
(***************************************************************************)
EXTENDS Integers, FiniteSets

CONSTANTS
    Requests,      \* threads that answer POST /score
    Reloads,       \* threads that answer POST /reload, or run __init__
    MaxTrainings,  \* bound: trainings asked for by hand
    MaxCrashes     \* bound: trainings that die half-way, service restarts

ASSUME ModelAssumption ==
    /\ Requests \cap Reloads = {} /\ Reloads # {}
    /\ MaxTrainings \in Nat /\ MaxCrashes \in Nat

None == 0      \* no file, no bundle, no digest, no explainer
Torn == -1     \* a file that was truncated and not written to its end

VARIABLES
    bundleFile,  \* fraud_model.joblib
    sidecar,     \* fraud_model.joblib.sha256: the bundle it is the digest of
    metadata,    \* model_metadata.json: the bundle it describes
    tpc, tver,   \* the training process, and the bundle it makes
    made,        \* trainings begun so far
    serving,     \* the service's __init__ has returned
    loaded,      \* self.bundle
    sha,         \* self.artifact_sha256
    explainer,   \* self._explainer: the bundle whose model it explains
    rpc,         \* where each reload is
    digest,      \* its digest of the sidecar, then of the file
    candidate,   \* the bundle it has loaded and not yet installed
    spc,         \* where each request is
    used,        \* the bundles it took probability and thresholds from
    built,       \* the model of the explainer it is building
    shap,        \* the model its contributions come from
    answer,      \* its last response
    quiet,       \* no reload met a writer or another reload
    crashes

files == <<bundleFile, sidecar, metadata>>
trainer == <<tpc, tver, made>>
service == <<serving, loaded, sha, explainer>>
reloads == <<rpc, digest, candidate>>
requests == <<spc, used, built, shap, answer>>
vars == <<bundleFile, sidecar, metadata, tpc, tver, made, serving, loaded, sha,
          explainer, rpc, digest, candidate, spc, used, built, shap, answer,
          quiet, crashes>>

Response(v, u, e) == [version |-> v, used |-> u, shap |-> e]

\* The repository tracks a metadata file (of run 1) and no bundle.
Init ==
    /\ bundleFile = None /\ sidecar = None /\ metadata = 1
    /\ tpc = "down" /\ tver = None /\ made = 1
    /\ serving = FALSE
    /\ loaded = None /\ sha = None /\ explainer = None
    /\ rpc = [r \in Reloads |-> "idle"]
    /\ digest = [r \in Reloads |-> None]
    /\ candidate = [r \in Reloads |-> None]
    /\ spc = [s \in Requests |-> "idle"]
    /\ used = [s \in Requests |-> {}]
    /\ built = [s \in Requests |-> None]
    /\ shap = [s \in Requests |-> None]
    /\ answer = [s \in Requests |-> Response(None, {None}, None)]
    /\ quiet = TRUE
    /\ crashes = 0

-----------------------------------------------------------------------------
(***************************************************************************)
(* Training.                                                               *)
(***************************************************************************)

TrainingIdle == tpc \in {"down", "ready", "failed"}

BeginTraining ==
    /\ made' = made + 1
    /\ tver' = made + 1
    /\ tpc' = "dump"

\* output.exists() and the metadata's exists().
Present == bundleFile # None /\ metadata # None

\* Mutant: a start-up that finds the files does not verify them.
EnsureModelTrusting ==
    /\ TrainingIdle
    /\ \/ /\ Present /\ tpc' = "ready" /\ UNCHANGED <<tver, made>>
       \/ /\ ~ Present /\ BeginTraining
    /\ UNCHANGED <<files, service, reloads, requests, quiet, crashes>>

\* ensure_model: what it does with the three files it finds.  An empty
\* sidecar makes verify_checksum raise an IndexError, which
\* artifact_is_valid does not name.
EnsureModel ==
    /\ TrainingIdle
    /\ \/ /\ Present /\ sidecar = Torn
          /\ tpc' = "failed" /\ UNCHANGED <<tver, made>>
       \/ /\ Present /\ sidecar # Torn /\ sidecar = bundleFile
          /\ tpc' = "ready" /\ UNCHANGED <<tver, made>>
       \/ /\ ~ Present \/ (sidecar # Torn /\ sidecar # bundleFile)
          /\ BeginTraining
    /\ UNCHANGED <<files, service, reloads, requests, quiet, crashes>>

\* The trainer container of the tools profile trains whatever it finds.
TrainAgain ==
    /\ TrainingIdle
    /\ made <= MaxTrainings
    /\ BeginTraining
    /\ UNCHANGED <<files, service, reloads, requests, quiet, crashes>>

\* joblib.dump, write_checksum and the metadata's write_text: each opens its
\* file, which empties it, and then fills it.
Disturbs == quiet' = (quiet /\ \A r \in Reloads : rpc[r] = "idle")

WriteBundle ==
    /\ \/ tpc = "dump" /\ tpc' = "dumping" /\ bundleFile' = Torn
       \/ tpc = "dumping" /\ tpc' = "checksum" /\ bundleFile' = tver
    /\ Disturbs
    /\ UNCHANGED <<sidecar, metadata, tver, made, service, reloads, requests, crashes>>

WriteSidecar ==
    /\ \/ tpc = "checksum" /\ tpc' = "sealing" /\ sidecar' = Torn
       \/ tpc = "sealing" /\ tpc' = "describe" /\ sidecar' = tver
    /\ Disturbs
    /\ UNCHANGED <<bundleFile, metadata, tver, made, service, reloads, requests, crashes>>

WriteMetadata ==
    /\ \/ tpc = "describe" /\ tpc' = "describing" /\ metadata' = Torn
       \/ tpc = "describing" /\ tpc' = "ready" /\ metadata' = tver
    /\ UNCHANGED <<bundleFile, sidecar, tver, made, service, reloads, requests, quiet, crashes>>

TrainingDies ==
    /\ ~ TrainingIdle
    /\ tpc' = "down"
    /\ crashes < MaxCrashes /\ crashes' = crashes + 1
    /\ UNCHANGED <<files, tver, made, service, reloads, requests, quiet>>

-----------------------------------------------------------------------------
(***************************************************************************)
(* reload, one step for each access to a file or to the service.           *)
(***************************************************************************)

\* The service starts, or starts again: __init__ calls reload before any
\* request is served.
StartService(r) ==
    /\ \/ ~ serving /\ (\A q \in Reloads : rpc[q] = "idle") /\ UNCHANGED crashes
       \/ serving /\ crashes < MaxCrashes /\ crashes' = crashes + 1
    /\ serving' = FALSE
    /\ loaded' = None /\ sha' = None /\ explainer' = None
    /\ rpc' = [q \in Reloads |-> IF q = r THEN "sidecar" ELSE "idle"]
    /\ digest' = [q \in Reloads |-> None]
    /\ candidate' = [q \in Reloads |-> None]
    /\ spc' = [s \in Requests |-> "idle"]
    /\ used' = [s \in Requests |-> {}]
    /\ built' = [s \in Requests |-> None]
    /\ shap' = [s \in Requests |-> None]
    /\ UNCHANGED <<files, trainer, answer, quiet>>

BeginReload(r) ==
    /\ serving
    /\ rpc[r] = "idle"
    /\ rpc' = [rpc EXCEPT ![r] = "sidecar"]
    /\ quiet' = (quiet /\ \A q \in Reloads : rpc[q] = "idle")
    /\ UNCHANGED <<files, trainer, service, digest, candidate, requests, crashes>>

\* reload ends; with it __init__, the first time.
Returns(r) ==
    /\ rpc' = [rpc EXCEPT ![r] = "idle"] /\ serving' = TRUE
    /\ digest' = [digest EXCEPT ![r] = None]
    /\ candidate' = [candidate EXCEPT ![r] = None]

\* bundle_path.exists() answers no: back to the heuristic.
FindsNothing(r) ==
    /\ rpc[r] = "sidecar"
    /\ bundleFile = None
    /\ loaded' = None /\ sha' = None
    /\ Returns(r)
    /\ UNCHANGED <<files, trainer, explainer, requests, quiet, crashes>>

\* Mutant: a refused sidecar leaves no bundle in use.
RejectsSidecarForgets(r) ==
    /\ rpc[r] = "sidecar"
    /\ bundleFile # None
    /\ sidecar \in {None, Torn}
    /\ loaded' = None /\ sha' = None
    /\ Returns(r)
    /\ UNCHANGED <<files, trainer, explainer, requests, quiet, crashes>>

\* The sidecar is missing or malformed.
RejectsSidecar(r) ==
    /\ rpc[r] = "sidecar"
    /\ bundleFile # None
    /\ sidecar \in {None, Torn}
    /\ Returns(r)
    /\ UNCHANGED <<files, trainer, loaded, sha, explainer, requests, quiet, crashes>>

\* Mutant: what the sidecar holds is not looked at.
ReadsSidecarUnparsed(r) ==
    /\ rpc[r] = "sidecar"
    /\ bundleFile # None
    /\ sidecar # None
    /\ digest' = [digest EXCEPT ![r] = sidecar]
    /\ rpc' = [rpc EXCEPT ![r] = "hash"]
    /\ UNCHANGED <<files, trainer, service, candidate, requests, quiet, crashes>>

ReadsSidecar(r) ==
    /\ rpc[r] = "sidecar"
    /\ bundleFile # None
    /\ sidecar \notin {None, Torn}
    /\ digest' = [digest EXCEPT ![r] = sidecar]
    /\ rpc' = [rpc EXCEPT ![r] = "hash"]
    /\ UNCHANGED <<files, trainer, service, candidate, requests, quiet, crashes>>

\* Mutant: a mismatch leaves no bundle in use.
RejectsFileForgets(r) ==
    /\ rpc[r] = "hash"
    /\ bundleFile # digest[r]
    /\ loaded' = None /\ sha' = None
    /\ Returns(r)
    /\ UNCHANGED <<files, trainer, explainer, requests, quiet, crashes>>

\* sha256_file, and compare_digest.
RejectsFile(r) ==
    /\ rpc[r] = "hash"
    /\ bundleFile # digest[r]
    /\ Returns(r)
    /\ UNCHANGED <<files, trainer, loaded, sha, explainer, requests, quiet, crashes>>

\* Mutant: the digests are not compared.
AcceptsFileUnchecked(r) ==
    /\ rpc[r] = "hash"
    /\ rpc' = [rpc EXCEPT ![r] = "load"]
    /\ UNCHANGED <<files, trainer, service, digest, candidate, requests, quiet, crashes>>

AcceptsFile(r) ==
    /\ rpc[r] = "hash"
    /\ bundleFile = digest[r]
    /\ rpc' = [rpc EXCEPT ![r] = "load"]
    /\ UNCHANGED <<files, trainer, service, digest, candidate, requests, quiet, crashes>>

\* joblib.load opens the file anew, and fails on one that is being written.
LoadFails(r) ==
    /\ rpc[r] = "load"
    /\ bundleFile = Torn
    /\ Returns(r)
    /\ UNCHANGED <<files, trainer, loaded, sha, explainer, requests, quiet, crashes>>

Loads(r) ==
    /\ rpc[r] = "load"
    /\ bundleFile # Torn
    /\ candidate' = [candidate EXCEPT ![r] = bundleFile]
    /\ rpc' = [rpc EXCEPT ![r] = "bundle"]
    /\ UNCHANGED <<files, trainer, service, digest, requests, quiet, crashes>>

InstallsBundle(r) ==
    /\ rpc[r] = "bundle"
    /\ loaded' = candidate[r]
    /\ rpc' = [rpc EXCEPT ![r] = "sha"]
    /\ UNCHANGED <<files, trainer, serving, sha, explainer, digest, candidate, requests, quiet, crashes>>

InstallsSha(r) ==
    /\ rpc[r] = "sha"
    /\ sha' = digest[r]
    /\ rpc' = [rpc EXCEPT ![r] = "explainer"]
    /\ UNCHANGED <<files, trainer, serving, loaded, explainer, digest, candidate, requests, quiet, crashes>>

ClearsExplainer(r) ==
    /\ rpc[r] = "explainer"
    /\ explainer' = None
    /\ Returns(r)
    /\ UNCHANGED <<files, trainer, loaded, sha, requests, quiet, crashes>>

-----------------------------------------------------------------------------
(***************************************************************************)
(* score, one step for each access to the service.                         *)
(***************************************************************************)

\* `if self.bundle is None`: the heuristic needs no bundle until the
\* thresholds are chosen.
BeginScore(s) ==
    /\ serving
    /\ spc[s] = "idle"
    /\ IF loaded = None
         THEN /\ spc' = [spc EXCEPT ![s] = "global"]
              /\ used' = [used EXCEPT ![s] = {None}]
         ELSE /\ spc' = [spc EXCEPT ![s] = "preprocessor"]
              /\ UNCHANGED used
    /\ UNCHANGED <<files, trainer, service, reloads, built, shap, answer, quiet, crashes>>

\* self.bundle[...]: what the bundle is asked for, one question at a time.
\* Without a bundle the default thresholds serve every category.
After == [preprocessor |-> "model", model |-> "calibrator", calibrator |-> "explain",
          global |-> "category", category |-> "version"]
ReadsBundle(s) ==
    /\ spc[s] \in DOMAIN After
    /\ used' = [used EXCEPT ![s] = @ \cup {loaded}]
    /\ spc' = [spc EXCEPT ![s] = IF loaded = None THEN "version" ELSE After[@]]
    /\ UNCHANGED <<files, trainer, service, reloads, built, shap, answer, quiet, crashes>>

\* `if self._explainer is None`: TreeExplainer is built from the bundle's
\* model, and only then assigned.
WantsExplainer(s) ==
    /\ spc[s] = "explain"
    /\ spc' = [spc EXCEPT ![s] = IF explainer = None THEN "build" ELSE "shap"]
    /\ UNCHANGED <<files, trainer, service, reloads, used, built, shap, answer, quiet, crashes>>

BuildsExplainer(s) ==
    /\ spc[s] = "build"
    /\ built' = [built EXCEPT ![s] = loaded]
    /\ spc' = [spc EXCEPT ![s] = "assign"]
    /\ UNCHANGED <<files, trainer, service, reloads, used, shap, answer, quiet, crashes>>

\* TreeExplainer raises: nothing is assigned, and the response goes without an
\* explanation.
BuildFails(s) ==
    /\ spc[s] = "build"
    /\ spc' = [spc EXCEPT ![s] = "global"]
    /\ UNCHANGED <<files, trainer, service, reloads, used, built, shap, answer, quiet, crashes>>

AssignsExplainer(s) ==
    /\ spc[s] = "assign"
    /\ explainer' = built[s]
    /\ spc' = [spc EXCEPT ![s] = "shap"]
    /\ UNCHANGED <<files, trainer, serving, loaded, sha, reloads, used, built, shap, answer, quiet, crashes>>

\* shap_values: the contributions of the explainer of the moment, under the
\* feature names of the bundle.  If it is gone, or fails, the response goes
\* without an explanation.
Explains(s) ==
    /\ spc[s] = "shap"
    /\ \E e \in {explainer, None} : shap' = [shap EXCEPT ![s] = e]
    /\ spc' = [spc EXCEPT ![s] = "global"]
    /\ UNCHANGED <<files, trainer, service, reloads, used, built, answer, quiet, crashes>>

\* The response takes its model_version from the bundle of the moment.
Responds(s) ==
    /\ spc[s] = "version"
    /\ answer' = [answer EXCEPT ![s] = Response(loaded, used[s], shap[s])]
    /\ spc' = [spc EXCEPT ![s] = "idle"]
    /\ used' = [used EXCEPT ![s] = {}]
    /\ built' = [built EXCEPT ![s] = None]
    /\ shap' = [shap EXCEPT ![s] = None]
    /\ UNCHANGED <<files, trainer, service, reloads, quiet, crashes>>

-----------------------------------------------------------------------------
Training == EnsureModel \/ WriteBundle \/ WriteSidecar \/ WriteMetadata

Reload(r) ==
    \/ FindsNothing(r) \/ RejectsSidecar(r) \/ ReadsSidecar(r) \/ RejectsFile(r)
    \/ AcceptsFile(r) \/ LoadFails(r) \/ Loads(r) \/ InstallsBundle(r)
    \/ InstallsSha(r) \/ ClearsExplainer(r)

Score(s) == \/ BeginScore(s) \/ ReadsBundle(s) \/ WantsExplainer(s)
            \/ BuildsExplainer(s) \/ BuildFails(s) \/ AssignsExplainer(s)
            \/ Explains(s) \/ Responds(s)

Next == \/ Training \/ TrainAgain \/ TrainingDies
        \/ \E r \in Reloads : StartService(r) \/ BeginReload(r) \/ Reload(r)
        \/ \E s \in Requests : Score(s)

Spec == Init /\ [][Next]_vars

\* A training that has begun goes on unless it dies, and model-init is run
\* again at every `docker compose up`.
FairSpec == Spec /\ WF_vars(Training)

-----------------------------------------------------------------------------
(***************************************************************************)
(* Properties.                                                             *)
(***************************************************************************)

File == {None, Torn} \cup (Nat \ {0})
Bundle == Nat
TrainingSteps == {"down", "ready", "failed", "dump", "dumping", "checksum",
                  "sealing", "describe", "describing"}
ReloadSteps == {"idle", "sidecar", "hash", "load", "bundle", "sha", "explainer"}
ScoreSteps == {"idle", "explain", "build", "assign", "shap", "version"} \cup DOMAIN After

\* Every variable keeps its shape; in particular no reload ever installs a
\* bundle, and no request ever uses one, that was read half-written.
TypeOK ==
    /\ bundleFile \in File /\ sidecar \in File /\ metadata \in File
    /\ tpc \in TrainingSteps /\ tver \in Nat /\ made \in Nat
    /\ serving \in BOOLEAN
    /\ loaded \in Bundle /\ sha \in Bundle /\ explainer \in Bundle
    /\ rpc \in [Reloads -> ReloadSteps]
    /\ digest \in [Reloads -> Bundle] /\ candidate \in [Reloads -> Bundle]
    /\ spc \in [Requests -> ScoreSteps]
    /\ used \in [Requests -> SUBSET Bundle]
    /\ built \in [Requests -> Bundle] /\ shap \in [Requests -> Bundle]
    /\ answer \in [Requests -> [version : Bundle, used : SUBSET Bundle, shap : Bundle]]
    /\ quiet \in BOOLEAN
    /\ crashes \in Nat

ReloadIdle == \A r \in Reloads : rpc[r] = "idle"
Idle == ReloadIdle /\ \A s \in Requests : spc[s] = "idle"

\* "Loads only checksum-verified bundle" (tests/test_scoring_service.py): as
\* long as no reload met a writer or another reload, the digest that /health
\* shows is that of the bundle in use, whatever reloads were refused.
QuietReloadsAreVerified == quiet /\ ReloadIdle => loaded = sha

\* "... and preserves last good": the service falls back to the heuristic by
\* a restart only, however many reloads fail while files are half-written.
LastGoodIsKept == [][loaded # None /\ loaded' = None => crashes' > crashes]_vars

\* score reads self.bundle once for each part, so one response may mix
\* bundles; but its model_version, which becomes part of the consumer's
\* dedupe key, is never older than any part of it.  (Reloads that overlap,
\* or that race the training, can bring an older bundle back.)
ResponsesNameTheNewest ==
    quiet => \A s \in Requests : \A v \in answer[s].used : v <= answer[s].version

\* The inductive strengthening of the three.  Bundles are numbered in the
\* order of their trainings, and a bundle of a later training never gives way
\* to one of an earlier training in the file.
VersionInv ==
    /\ ~ TrainingIdle => tver > 0
    /\ tver <= made
    /\ bundleFile <= tver
    /\ loaded <= tver
    /\ bundleFile # Torn => loaded <= bundleFile
    /\ \A r \in Reloads : /\ candidate[r] <= tver
                          /\ bundleFile # Torn => candidate[r] <= bundleFile

\* A bundle, once installed, is replaced by a bundle or lost with the process.
KeptInv ==
    /\ ~ serving /\ ReloadIdle => loaded = None
    /\ bundleFile = None =>
         loaded = None /\ \A r \in Reloads : rpc[r] \in {"idle", "sidecar"}
    /\ \A r \in Reloads : rpc[r] = "bundle" => candidate[r] # None

\* While quiet one reload at most is at work, on one file from end to end,
\* and no request has used a bundle newer than the one in use.
QuietInv == quiet =>
    /\ \A q, r \in Reloads : rpc[q] # "idle" /\ rpc[r] # "idle" => q = r
    /\ (\A r \in Reloads : rpc[r] # "sha") => loaded = sha
    /\ \A r \in Reloads :
         /\ rpc[r] = "load" => bundleFile = digest[r]
         /\ rpc[r] = "bundle" => bundleFile = candidate[r] /\ candidate[r] = digest[r]
         /\ rpc[r] = "sha" => loaded = digest[r]
    /\ \A s \in Requests : \A v \in used[s] : v <= loaded
    /\ ResponsesNameTheNewest

\* A training cut short anywhere is made good by the next start, unless it
\* was cut short inside the write of the sidecar.
Valid == bundleFile \notin {None, Torn} /\ sidecar = bundleFile
RecoversUnlessSidecarTorn == <>[](tpc = "ready" /\ Valid) \/ <>[](sidecar = Torn)

\* "Startup ... verifies or trains a checksum-protected local model bundle"
\* (README).
EventuallyReady == <>(tpc = "ready" /\ Valid)

\* "SHAP supplies the largest feature contributions for each scored
\* transaction" (README): at rest, the explainer kept for the next request
\* is one for the model that will score it.
ExplainerIsOfTheModel == Idle => explainer \in {None, loaded}
=============================================================================
