------------------------ MODULE ModelLifecycleProofs ------------------------
(***************************************************************************)
(* Theorems about ModelLifecycle: types, what a reload may do to the       *)
(* bundle in use, and what a response may mix.                             *)
(***************************************************************************)
EXTENDS ModelLifecycle, TLAPS

-----------------------------------------------------------------------------
(* What groups of steps leave alone. *)

\* A reload that is refused changes nothing but its own progress.
LEMMA RefusedKeeps ==
  ASSUME NEW r \in Reloads, RejectsSidecar(r) \/ RejectsFile(r) \/ LoadFails(r)
  PROVE  /\ Returns(r)
         /\ UNCHANGED <<files, trainer, loaded, sha, explainer, requests, quiet, crashes>>
BY DEF RejectsSidecar, RejectsFile, LoadFails

\* A request reads the bundle and the explainer; of the service it writes the
\* explainer only.
LEMMA ScoreKeeps ==
  ASSUME NEW s \in Requests, Score(s)
  PROVE  UNCHANGED <<files, trainer, serving, loaded, sha, reloads, quiet, crashes>>
BY DEF Score, BeginScore, ReadsBundle, WantsExplainer, BuildsExplainer,
       BuildFails, AssignsExplainer, Explains, Responds, service

\* A training touches neither the service nor its threads.
LEMMA TrainingKeeps ==
  ASSUME Training \/ TrainAgain \/ TrainingDies
  PROVE  UNCHANGED <<service, reloads, requests>>
BY DEF Training, EnsureModel, WriteBundle, WriteSidecar, WriteMetadata,
       TrainAgain, TrainingDies

\* A reload writes no file and no training.
LEMMA ReloadKeeps ==
  ASSUME NEW r \in Reloads, StartService(r) \/ BeginReload(r) \/ Reload(r)
  PROVE  UNCHANGED <<files, trainer, answer>>
BY DEF StartService, BeginReload, Reload, FindsNothing, RejectsSidecar, ReadsSidecar,
       RejectsFile, AcceptsFile, LoadFails, Loads, InstallsBundle, InstallsSha,
       ClearsExplainer, requests

-----------------------------------------------------------------------------
(* Types. *)

\* The number of a training run is a file once the training has begun.
TypeInv == TypeOK /\ (~ TrainingIdle => tver > 0)

\* The initial state is well typed.
LEMMA TypeInit == Init => TypeInv
<1> SUFFICES ASSUME Init PROVE TypeInv
  OBVIOUS
<1> USE DEF Init, None, Bundle
<1>1. answer \in [Requests -> [version : Bundle, used : SUBSET Bundle, shap : Bundle]]
  BY DEF Response
<1>2. /\ spc \in [Requests -> ScoreSteps] /\ used \in [Requests -> SUBSET Bundle]
      /\ built \in [Requests -> Bundle] /\ shap \in [Requests -> Bundle]
  BY DEF ScoreSteps
<1>3. /\ rpc \in [Reloads -> ReloadSteps]
      /\ digest \in [Reloads -> Bundle] /\ candidate \in [Reloads -> Bundle]
  BY DEF ReloadSteps
<1>4. QED
  BY <1>1, <1>2, <1>3 DEF TypeInv, TypeOK, TrainingIdle, File, TrainingSteps

\* A training keeps every variable well typed.
LEMMA TypeTraining ==
  ASSUME TypeInv, Training \/ TrainAgain \/ TrainingDies
  PROVE  TypeInv'
<1> USE DEF TypeInv, TypeOK, TrainingIdle, TrainingSteps, files, service, reloads, requests
<1>1. CASE EnsureModel BY <1>1 DEF EnsureModel, BeginTraining
<1>2. CASE TrainAgain BY <1>2 DEF TrainAgain, BeginTraining
<1>3. CASE WriteBundle BY <1>3 DEF WriteBundle, Disturbs, File
<1>4. CASE WriteSidecar BY <1>4 DEF WriteSidecar, Disturbs, File
<1>5. CASE WriteMetadata BY <1>5 DEF WriteMetadata, File
<1>6. CASE TrainingDies BY <1>6 DEF TrainingDies
<1>7. QED BY <1>1, <1>2, <1>3, <1>4, <1>5, <1>6 DEF Training

\* So does a start of the service, or a reload.
LEMMA TypeReload ==
  ASSUME TypeInv, NEW r \in Reloads, StartService(r) \/ BeginReload(r) \/ Reload(r)
  PROVE  TypeInv'
<1> USE DEF TypeInv, TypeOK, TrainingIdle, Bundle, ReloadSteps, ScoreSteps, None,
            files, trainer, service, reloads, requests
<1>1. CASE StartService(r)
  <2>1. /\ spc' \in [Requests -> ScoreSteps] /\ used' \in [Requests -> SUBSET Bundle]
        /\ built' \in [Requests -> Bundle] /\ shap' \in [Requests -> Bundle]
    BY <1>1 DEF StartService
  <2>2. /\ rpc' \in [Reloads -> ReloadSteps]
        /\ digest' \in [Reloads -> Bundle] /\ candidate' \in [Reloads -> Bundle]
    BY <1>1 DEF StartService
  <2>3. crashes' \in Nat BY <1>1 DEF StartService
  <2>4. QED BY <1>1, <2>1, <2>2, <2>3 DEF StartService
<1>2. CASE BeginReload(r) BY <1>2 DEF BeginReload
<1>3. CASE FindsNothing(r) BY <1>3 DEF FindsNothing, Returns
<1>4. CASE RejectsSidecar(r) \/ RejectsFile(r) \/ LoadFails(r)
  <2>1. Returns(r) /\ UNCHANGED <<files, trainer, loaded, sha, explainer, requests, quiet, crashes>>
    BY <1>4, RefusedKeeps
  <2>2. QED BY <2>1 DEF Returns
<1>5. CASE ReadsSidecar(r) BY <1>5 DEF ReadsSidecar, File
<1>6. CASE AcceptsFile(r) BY <1>6 DEF AcceptsFile
<1>7. CASE Loads(r) BY <1>7 DEF Loads, File
<1>8. CASE InstallsBundle(r) \/ InstallsSha(r) BY <1>8 DEF InstallsBundle, InstallsSha
<1>9. CASE ClearsExplainer(r) BY <1>9 DEF ClearsExplainer, Returns
<1>10. QED
  BY <1>1, <1>2, <1>3, <1>4, <1>5, <1>6, <1>7, <1>8, <1>9 DEF Reload

\* So does a request.
LEMMA TypeScore ==
  ASSUME TypeInv, NEW s \in Requests, Score(s)
  PROVE  TypeInv'
<1> USE DEF TypeInv, TypeOK, TrainingIdle, Bundle, ScoreSteps, None,
            files, trainer, service, reloads, requests
<1>1. CASE BeginScore(s)
  <2>1. spc' \in [Requests -> ScoreSteps] BY <1>1 DEF BeginScore, After
  <2>2. used' \in [Requests -> SUBSET Bundle] BY <1>1 DEF BeginScore
  <2>3. QED BY <1>1, <2>1, <2>2 DEF BeginScore
<1>2. CASE ReadsBundle(s)
  <2>1. spc' \in [Requests -> ScoreSteps] BY <1>2 DEF ReadsBundle, After
  <2>2. used' \in [Requests -> SUBSET Bundle] BY <1>2 DEF ReadsBundle
  <2>3. QED BY <1>2, <2>1, <2>2 DEF ReadsBundle
<1>3. CASE WantsExplainer(s) BY <1>3 DEF WantsExplainer
<1>4. CASE BuildsExplainer(s) \/ AssignsExplainer(s)
  BY <1>4 DEF BuildsExplainer, AssignsExplainer
<1>5. CASE BuildFails(s) BY <1>5 DEF BuildFails, After
<1>6. CASE Explains(s) BY <1>6 DEF Explains, After
<1>7. CASE Responds(s) BY <1>7 DEF Responds, Response
<1>8. QED BY <1>1, <1>2, <1>3, <1>4, <1>5, <1>6, <1>7 DEF Score

\* So does every step.
LEMMA TypeStep == TypeInv /\ [Next]_vars => TypeInv'
<1> SUFFICES ASSUME TypeInv, [Next]_vars PROVE TypeInv'
  OBVIOUS
<1>1. CASE UNCHANGED vars BY <1>1 DEF TypeInv, TypeOK, TrainingIdle, vars
<1>2. QED BY <1>1, TypeTraining, TypeReload, TypeScore DEF Next

\* Every variable keeps its shape, whatever the bounds and the threads: no
\* reload installs, and no request uses, a bundle that was read half-written.
THEOREM TypeCorrect == Spec => []TypeOK
<1>1. TypeInv => TypeOK BY DEF TypeInv
<1>2. QED BY <1>1, TypeInit, TypeStep, PTL DEF Spec

-----------------------------------------------------------------------------
(* Versions: the file and the service only move on to later trainings. *)

\* A training makes a later bundle than any before it.
LEMMA VersionTraining ==
  ASSUME TypeInv, VersionInv, Training \/ TrainAgain \/ TrainingDies
  PROVE  VersionInv'
<1> USE DEF TypeInv, TypeOK, VersionInv, TrainingIdle, File, Bundle, None, Torn,
            files, service, reloads, requests
<1>1. UNCHANGED <<loaded, candidate>> BY TrainingKeeps
<1>2. CASE EnsureModel BY <1>1, <1>2 DEF EnsureModel, BeginTraining
<1>3. CASE TrainAgain BY <1>1, <1>3 DEF TrainAgain, BeginTraining
<1>4. CASE WriteBundle BY <1>1, <1>4 DEF WriteBundle
<1>5. CASE WriteSidecar \/ WriteMetadata
  BY <1>1, <1>5 DEF WriteSidecar, WriteMetadata
<1>6. CASE TrainingDies BY <1>1, <1>6 DEF TrainingDies
<1>7. QED BY <1>2, <1>3, <1>4, <1>5, <1>6 DEF Training

\* A reload installs the bundle of the file, or one that was there before.
LEMMA VersionReload ==
  ASSUME TypeInv, VersionInv, NEW r \in Reloads,
         StartService(r) \/ BeginReload(r) \/ Reload(r)
  PROVE  VersionInv'
<1> USE DEF TypeInv, TypeOK, VersionInv, TrainingIdle, File, Bundle, None, Torn,
            files, trainer, service, reloads
<1>1. UNCHANGED <<tpc, tver, made, bundleFile>> BY ReloadKeeps
<1>2. CASE StartService(r) BY <1>1, <1>2 DEF StartService
<1>3. CASE BeginReload(r) \/ ReadsSidecar(r) \/ AcceptsFile(r)
  BY <1>1, <1>3 DEF BeginReload, ReadsSidecar, AcceptsFile
<1>4. CASE FindsNothing(r) BY <1>1, <1>4 DEF FindsNothing, Returns
<1>5. CASE RejectsSidecar(r) \/ RejectsFile(r) \/ LoadFails(r)
  <2>1. Returns(r) /\ loaded' = loaded BY <1>5, RefusedKeeps
  <2>2. QED BY <1>1, <2>1 DEF Returns
<1>6. CASE Loads(r) BY <1>1, <1>6 DEF Loads
<1>7. CASE InstallsBundle(r) BY <1>1, <1>7 DEF InstallsBundle
<1>8. CASE InstallsSha(r) BY <1>1, <1>8 DEF InstallsSha
<1>9. CASE ClearsExplainer(r) BY <1>1, <1>9 DEF ClearsExplainer, Returns
<1>10. QED
  BY <1>2, <1>3, <1>4, <1>5, <1>6, <1>7, <1>8, <1>9 DEF Reload

\* So does every step.
LEMMA VersionStep == TypeInv /\ VersionInv /\ [Next]_vars => VersionInv'
<1> SUFFICES ASSUME TypeInv, VersionInv, [Next]_vars PROVE VersionInv'
  OBVIOUS
<1>1. CASE UNCHANGED vars BY <1>1 DEF VersionInv, TrainingIdle, vars
<1>2. ASSUME NEW s \in Requests, Score(s) PROVE VersionInv'
  BY <1>2, ScoreKeeps DEF VersionInv, TrainingIdle, files, trainer, reloads
<1>3. QED BY <1>1, <1>2, VersionTraining, VersionReload DEF Next

-----------------------------------------------------------------------------
(* The last good bundle is kept. *)

\* A training never removes the file again.
LEMMA KeptTraining ==
  ASSUME TypeInv, KeptInv, Training \/ TrainAgain \/ TrainingDies
  PROVE  KeptInv' /\ loaded' = loaded
<1>1. UNCHANGED <<serving, loaded, rpc, candidate>>
  BY TrainingKeeps DEF service, reloads
<1>2. bundleFile' = None => bundleFile = None
  <2> USE DEF TypeInv, TypeOK, TrainingIdle, None, Torn, files
  <2>1. CASE WriteBundle BY <2>1 DEF WriteBundle
  <2>2. CASE EnsureModel \/ TrainAgain \/ WriteSidecar \/ WriteMetadata \/ TrainingDies
    BY <2>2 DEF EnsureModel, TrainAgain, WriteSidecar, WriteMetadata, TrainingDies
  <2>3. QED BY <2>1, <2>2 DEF Training
<1>3. QED BY <1>1, <1>2 DEF KeptInv, ReloadIdle

\* A reload drops the bundle only when the process has just started.
LEMMA KeptReload ==
  ASSUME TypeInv, KeptInv, NEW r \in Reloads,
         StartService(r) \/ BeginReload(r) \/ Reload(r)
  PROVE  KeptInv' /\ (loaded # None /\ loaded' = None => crashes' > crashes)
<1> USE DEF TypeInv, TypeOK, KeptInv, ReloadIdle, ReloadSteps, Bundle, None, Torn,
            files, trainer, service, reloads
<1>1. bundleFile' = bundleFile BY ReloadKeeps
<1>2. CASE StartService(r) BY <1>1, <1>2 DEF StartService
<1>3. CASE BeginReload(r) BY <1>1, <1>3 DEF BeginReload
<1>4. CASE ReadsSidecar(r) \/ AcceptsFile(r)
  BY <1>1, <1>4 DEF ReadsSidecar, AcceptsFile
<1>5. CASE FindsNothing(r) BY <1>1, <1>5 DEF FindsNothing, Returns
<1>6. CASE RejectsSidecar(r) \/ RejectsFile(r) \/ LoadFails(r)
  BY <1>1, <1>6, RefusedKeeps DEF Returns
<1>7. CASE Loads(r) BY <1>1, <1>7 DEF Loads
<1>8. CASE InstallsBundle(r) BY <1>1, <1>8 DEF InstallsBundle
<1>9. CASE InstallsSha(r) BY <1>1, <1>9 DEF InstallsSha
<1>10. CASE ClearsExplainer(r) BY <1>1, <1>10 DEF ClearsExplainer, Returns
<1>11. QED
  BY <1>2, <1>3, <1>4, <1>5, <1>6, <1>7, <1>8, <1>9, <1>10 DEF Reload

\* So does every step.
LEMMA KeptStep ==
  TypeInv /\ KeptInv /\ [Next]_vars =>
    KeptInv' /\ (loaded # None /\ loaded' = None => crashes' > crashes)
<1> SUFFICES ASSUME TypeInv, KeptInv, [Next]_vars
             PROVE  KeptInv' /\ (loaded # None /\ loaded' = None => crashes' > crashes)
  OBVIOUS
<1>1. CASE UNCHANGED vars BY <1>1 DEF KeptInv, ReloadIdle, vars
<1>2. ASSUME NEW s \in Requests, Score(s)
      PROVE  KeptInv' /\ loaded' = loaded
  BY <1>2, ScoreKeeps DEF KeptInv, ReloadIdle, files, reloads
<1>3. QED BY <1>1, <1>2, KeptTraining, KeptReload DEF Next

\* While a file is half-written or refused, the service keeps the bundle it
\* last installed: it falls back to the heuristic by a restart only.
THEOREM LastGoodKept == Spec => LastGoodIsKept
<1>1. Init => KeptInv
  BY DEF Init, KeptInv, ReloadIdle, None
<1>2. TypeInv /\ KeptInv /\ [Next]_vars =>
        [loaded # None /\ loaded' = None => crashes' > crashes]_vars
  BY KeptStep
<1>3. QED BY <1>1, <1>2, TypeInit, TypeStep, KeptStep, PTL DEF Spec, LastGoodIsKept

-----------------------------------------------------------------------------
(* While no reload meets a writer or another reload. *)

\* A writer of the bundle or of its digest meets no reload, or ends the quiet.
LEMMA QuietTraining ==
  ASSUME TypeInv, VersionInv, QuietInv, Training \/ TrainAgain \/ TrainingDies
  PROVE  QuietInv'
<1>1. UNCHANGED <<loaded, sha, rpc, digest, candidate, used, answer>>
  BY TrainingKeeps DEF service, reloads, requests
<1>2. CASE WriteBundle \/ WriteSidecar
  <2>1. quiet' => quiet /\ \A r \in Reloads : rpc[r] = "idle"
    BY <1>2 DEF WriteBundle, WriteSidecar, Disturbs
  <2>2. QED BY <1>1, <2>1 DEF QuietInv, ResponsesNameTheNewest
<1>3. CASE EnsureModel \/ TrainAgain \/ WriteMetadata \/ TrainingDies
  <2>1. UNCHANGED <<quiet, bundleFile>>
    BY <1>3 DEF EnsureModel, TrainAgain, WriteMetadata, TrainingDies, files
  <2>2. QED BY <1>1, <2>1 DEF QuietInv, ResponsesNameTheNewest
<1>4. QED BY <1>2, <1>3 DEF Training

\* A reload alone with its files installs the bundle whose digest it read.
LEMMA QuietReload ==
  ASSUME TypeInv, VersionInv, KeptInv, QuietInv, NEW r \in Reloads,
         StartService(r) \/ BeginReload(r) \/ Reload(r)
  PROVE  QuietInv'
<1> USE DEF TypeInv, TypeOK, QuietInv, ReloadSteps, ResponsesNameTheNewest
<1>1. UNCHANGED <<bundleFile, answer>> BY ReloadKeeps DEF files
<1>2. CASE StartService(r) BY <1>1, <1>2 DEF StartService
<1>3. CASE BeginReload(r)
  BY <1>1, <1>3 DEF BeginReload, service, requests
<1>4. CASE ReadsSidecar(r) \/ AcceptsFile(r)
  BY <1>1, <1>4 DEF ReadsSidecar, AcceptsFile, service, requests
<1>5. CASE FindsNothing(r)
  BY <1>1, <1>5 DEF FindsNothing, Returns, requests, KeptInv
<1>6. CASE RejectsSidecar(r) \/ RejectsFile(r) \/ LoadFails(r)
  <2>1. Returns(r) /\ UNCHANGED <<loaded, sha, used, quiet>>
    BY <1>6, RefusedKeeps DEF requests
  <2>2. rpc[r] # "sha" BY <1>6 DEF RejectsSidecar, RejectsFile, LoadFails
  <2>3. QED BY <1>1, <2>1, <2>2 DEF Returns
<1>7. CASE Loads(r) BY <1>1, <1>7 DEF Loads, service, requests
<1>8. CASE InstallsBundle(r)
  <2>1. quiet => loaded <= candidate[r]
    BY <1>8 DEF InstallsBundle, VersionInv, Bundle, Torn
  <2>2. \A s \in Requests : \A v \in used[s] : v \in Nat BY DEF Bundle
  <2>3. quiet => \A s \in Requests : \A v \in used[s] : v <= candidate[r]
    BY <2>1, <2>2 DEF Bundle
  <2>4. QED BY <1>1, <1>8, <2>3 DEF InstallsBundle, requests
<1>9. CASE InstallsSha(r) BY <1>1, <1>9 DEF InstallsSha, requests
<1>10. CASE ClearsExplainer(r) BY <1>1, <1>10 DEF ClearsExplainer, Returns, requests
<1>11. QED
  BY <1>2, <1>3, <1>4, <1>5, <1>6, <1>7, <1>8, <1>9, <1>10 DEF Reload

\* A request adds the bundle in use, and answers with its version.
LEMMA QuietScore ==
  ASSUME TypeInv, QuietInv, NEW s \in Requests, Score(s)
  PROVE  QuietInv'
<1> USE DEF TypeInv, TypeOK, QuietInv, ResponsesNameTheNewest
<1>1. UNCHANGED <<bundleFile, loaded, sha, rpc, digest, candidate, quiet>>
  BY ScoreKeeps DEF files, reloads
<1>2. CASE BeginScore(s) BY <1>1, <1>2 DEF BeginScore, None, Bundle
<1>3. CASE ReadsBundle(s) BY <1>1, <1>3 DEF ReadsBundle, Bundle
<1>4. CASE \/ WantsExplainer(s) \/ BuildsExplainer(s) \/ BuildFails(s)
           \/ AssignsExplainer(s) \/ Explains(s)
  <2>1. UNCHANGED <<used, answer>>
    BY <1>4 DEF WantsExplainer, BuildsExplainer, BuildFails, AssignsExplainer, Explains
  <2>2. QED BY <1>1, <2>1
<1>5. CASE Responds(s) BY <1>1, <1>5 DEF Responds, Response
<1>6. QED BY <1>2, <1>3, <1>4, <1>5 DEF Score

\* Every step keeps it.
LEMMA QuietStep ==
  TypeInv /\ VersionInv /\ KeptInv /\ QuietInv /\ [Next]_vars => QuietInv'
<1> SUFFICES ASSUME TypeInv, VersionInv, KeptInv, QuietInv, [Next]_vars PROVE QuietInv'
  OBVIOUS
<1>1. CASE UNCHANGED vars BY <1>1 DEF QuietInv, ResponsesNameTheNewest, vars
<1>2. QED BY <1>1, QuietTraining, QuietReload, QuietScore DEF Next

\* The whole invariant holds of every reachable state.
LEMMA Reachable == Spec => [](TypeInv /\ VersionInv /\ KeptInv /\ QuietInv)
<1>1. Init => VersionInv
  BY DEF Init, VersionInv, TrainingIdle, None, Torn
<1>2. Init => KeptInv
  BY DEF Init, KeptInv, ReloadIdle, None
<1>3. Init => QuietInv
  BY DEF Init, QuietInv, ResponsesNameTheNewest, Response, None
<1>4. QED
  BY <1>1, <1>2, <1>3, TypeInit, TypeStep, VersionStep, KeptStep, QuietStep, PTL DEF Spec

\* As long as no reload met a writer or another reload, the digest that
\* /health shows is that of the bundle in use.
THEOREM QuietVerified == Spec => []QuietReloadsAreVerified
<1>1. QuietInv => QuietReloadsAreVerified
  BY DEF QuietInv, QuietReloadsAreVerified, ReloadIdle
<1>2. QED BY <1>1, Reachable, PTL

\* As long as no reload met a writer or another reload, no part of a response
\* is newer than the model_version it names, though a reload runs between any
\* two of its reads.
THEOREM NewestNamed == Spec => []ResponsesNameTheNewest
<1>1. QuietInv => ResponsesNameTheNewest
  BY DEF QuietInv, ResponsesNameTheNewest
<1>2. QED BY <1>1, Reachable, PTL
=============================================================================
