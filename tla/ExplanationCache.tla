--------------------------- MODULE ExplanationCache ---------------------------
(***************************************************************************)
(* The plain-English explanation of one transaction                        *)
(* (get_or_create_plain_explanation in apps/dashboard/data.py), written to *)
(* its row of scored_transactions by the dashboard's sessions, under an    *)
(* advisory lock, while the consumer's upsert (database.py) scores the     *)
(* same row again.                                                         *)
(*                                                                         *)
(* The row is represented by the model version it was scored under.  The   *)
(* page hands get_or_create the row as cached_transactions saw it, which   *)
(* is up to thirty seconds ago (apps/dashboard/app.py).                    *)
(***************************************************************************)
EXTENDS Integers, FiniteSets

CONSTANTS
    Sessions,     \* Streamlit sessions that review the transaction
    Providers,    \* external providers that may be configured
    Versions,     \* model versions
    NoOne,        \* holder of a free advisory lock, version of no text
    MaxRescores,  \* bound: upserts of the row
    MaxFaults     \* bound: failed transactions and dashboard restarts

Externals == {"anthropic", "openai", "gemini", "openai_compatible"}
Template == "template"   \* the provider that needs no key, and its source
Configs == Providers \cup {Template}
NoModel == "none"

CacheAssumption == Providers \subseteq Externals /\ NoOne \notin Sessions

\* The .env of the dashboard: the provider it selects, and the providers whose
\* key, or URL and model, it sets.
Settings == [provider : {"auto", Template, "unsupported"} \cup Externals,
             keyed : SUBSET Providers]

\* resolve_llm_provider: the first usable one for "auto", else the selected one
\* if it can be used, and the template in every other case.
Resolve(s) ==
    LET rank == [anthropic |-> 1, openai |-> 2, gemini |-> 3, openai_compatible |-> 4]
    IN  IF s.provider = "auto" /\ s.keyed # {}
          THEN CHOOSE p \in s.keyed : \A q \in s.keyed : rank[p] <= rank[q]
          ELSE IF s.provider \in s.keyed THEN s.provider ELSE Template

\* What a provider may answer: a fit sentence, one that _validate_sentence
\* refuses, no block, choice or candidate at all, one whose text is null, a
\* string where an object belongs, or no JSON object (transport errors too).
Replies == {"sentence", "unfit", "empty", "null", "bare", "refused"}

\* What the four readers make of it.  They raise one of the exceptions that
\* explain_transaction names, or AttributeError, which it does not; the last
\* reader writes a null out as the word "None".
ReadBlocks(reply) ==
    CASE reply = "sentence" -> "text" [] reply = "bare" -> "escapes" [] OTHER -> "caught"
ReadChoice(reply) ==
    CASE reply \in {"sentence", "null"} -> "text" [] reply = "bare" -> "escapes"
      [] OTHER -> "caught"
Reader(provider, reply) ==
    IF provider = "openai_compatible" THEN ReadChoice(reply) ELSE ReadBlocks(reply)

\* explanation_text, _source and _model of a row: the decision that the text
\* describes, who wrote it, and the provider whose model is named.
Texts == [of : Versions, source : Configs, model : Providers \cup {NoModel}]
NoText == [of |-> NoOne, source |-> NoModel, model |-> NoModel]

VARIABLES
    row,       \* scored_transactions: model_version of the row
    text,      \* scored_transactions: its explanation_* columns
    recent,    \* st.cache_data: the row as cached_transactions holds it
    config,    \* llm_provider of the running dashboard
    lock,      \* holder of the transaction's advisory lock
    pc,        \* where each session is
    selected,  \* the row each session handed to get_or_create
    draft,     \* the result of its explain_transaction
    calls,     \* calls made to an external provider
    rescores, clearings, faults

database == <<row, text, lock>>
session == <<pc, selected, draft>>
history == <<calls, rescores, clearings, faults>>
vars == <<row, text, recent, config, lock, pc, selected, draft,
          calls, rescores, clearings, faults>>

Init ==
    /\ row \in Versions /\ text = NoText
    /\ recent = row
    /\ config \in {Resolve(e) : e \in Settings}
    /\ lock = NoOne
    /\ pc = [s \in Sessions |-> "idle"]
    /\ selected = [s \in Sessions |-> row]
    /\ draft = [s \in Sessions |-> NoText]
    /\ calls = 0 /\ rescores = 0 /\ clearings = 0 /\ faults = 0

-----------------------------------------------------------------------------
\* Mutant of Rescore: the upsert leaves the explanation columns alone.
RescoreKeepsText ==
    /\ rescores < MaxRescores /\ rescores' = rescores + 1
    /\ row' \in Versions
    /\ UNCHANGED <<text, clearings>>
    /\ UNCHANGED <<recent, config, lock, session, calls, faults>>

\* SCORE_UPSERT: another model version sets the explanation to NULL.
Rescore ==
    /\ rescores < MaxRescores /\ rescores' = rescores + 1
    /\ row' \in Versions
    /\ IF row' # row
         THEN text' = NoText /\ clearings' = clearings + 1
         ELSE UNCHANGED <<text, clearings>>
    /\ UNCHANGED <<recent, config, lock, session, calls, faults>>

\* The thirty seconds of cached_transactions are over.
RefreshRecent ==
    /\ recent' = row
    /\ UNCHANGED <<database, config, session, history>>

\* The page selects the transaction and opens a database transaction.
Review(s) ==
    /\ pc[s] = "idle"
    /\ selected' = [selected EXCEPT ![s] = recent]
    /\ pc' = [pc EXCEPT ![s] = "lock"]
    /\ UNCHANGED <<database, recent, config, draft, history>>

\* pg_advisory_xact_lock.
Locks(s) ==
    /\ pc[s] = "lock"
    /\ lock = NoOne
    /\ lock' = s
    /\ pc' = [pc EXCEPT ![s] = "read"]
    /\ UNCHANGED <<row, text, recent, config, selected, draft, history>>

\* The transaction ends, and with it the lock.
Ends(s) ==
    /\ pc' = [pc EXCEPT ![s] = "idle"]
    /\ draft' = [draft EXCEPT ![s] = NoText]
    /\ lock' = NoOne

\* Mutant of CachedCanBeUsed: a fallback text is never good enough.
CachedUnlessTemplate(t) ==
    t # NoText /\ (t.source # Template \/ config = Template)

\* A fallback text serves the provider that failed, and the template alone.
CachedCanBeUsed(t) ==
    /\ t # NoText
    /\ t.source # Template \/ config = Template \/ t.model = config

\* A usable text is returned as it is.
FindsCached(s) ==
    /\ pc[s] = "read"
    /\ CachedCanBeUsed(text)
    /\ Ends(s)
    /\ UNCHANGED <<row, text, recent, config, selected, history>>

\* There is none: a new one is made, with the lock held all the while.
FindsNone(s) ==
    /\ pc[s] = "read"
    /\ ~ CachedCanBeUsed(text)
    /\ pc' = [pc EXCEPT ![s] = "explain"]
    /\ UNCHANGED <<database, recent, config, selected, draft, history>>

\* A result of explain_transaction, from the row that was handed in.
Drafts(s, source, model) ==
    /\ draft' = [draft EXCEPT ![s] = [of |-> selected[s], source |-> source, model |-> model]]
    /\ pc' = [pc EXCEPT ![s] = "save"]
    /\ UNCHANGED <<database, recent, config, selected, rescores, clearings, faults>>

\* Without a provider: the template's sentence.
ExplainsLocally(s) ==
    /\ pc[s] = "explain"
    /\ config = Template
    /\ Drafts(s, Template, NoModel)
    /\ UNCHANGED calls

\* With one: its sentence, or the template's under the provider's model.
ExplainsByProvider(s) ==
    /\ pc[s] = "explain"
    /\ config # Template
    /\ calls' = calls + 1
    /\ \E reply \in Replies :
         \/ Reader(config, reply) = "text" /\ Drafts(s, config, config)
         \/ Reader(config, reply) = "caught" /\ Drafts(s, Template, config)

\* AttributeError passes through: the transaction is rolled back, and the page
\* shows a warning.
ExplanationEscapes(s) ==
    /\ pc[s] = "explain"
    /\ config # Template
    /\ \E reply \in Replies : Reader(config, reply) = "escapes"
    /\ calls' = calls + 1
    /\ faults < MaxFaults /\ faults' = faults + 1
    /\ Ends(s)
    /\ UNCHANGED <<row, text, recent, config, selected, rescores, clearings>>

\* UPDATE ... RETURNING, and commit.
Saves(s) ==
    /\ pc[s] = "save"
    /\ text' = draft[s]
    /\ Ends(s)
    /\ UNCHANGED <<row, recent, config, selected, history>>

\* Mutant of Fails: the lock is a session's, which the pool keeps.
FailsLocked(s) ==
    /\ pc[s] # "idle"
    /\ faults < MaxFaults /\ faults' = faults + 1
    /\ pc' = [pc EXCEPT ![s] = "idle"]
    /\ draft' = [draft EXCEPT ![s] = NoText]
    /\ UNCHANGED <<row, text, lock, recent, config, selected, calls, rescores, clearings>>

\* The connection is lost, or a statement fails: the page shows a warning,
\* and the transaction and its lock are gone.
Fails(s) ==
    /\ pc[s] # "idle"
    /\ faults < MaxFaults /\ faults' = faults + 1
    /\ pc' = [pc EXCEPT ![s] = "idle"]
    /\ draft' = [draft EXCEPT ![s] = NoText]
    /\ lock' = IF lock = s THEN NoOne ELSE lock
    /\ UNCHANGED <<row, text, recent, config, selected, calls, rescores, clearings>>

\* The dashboard is recreated, with any provider; its sessions are gone.
Recreate ==
    /\ faults < MaxFaults /\ faults' = faults + 1
    /\ config' \in {Resolve(e) : e \in Settings}
    /\ recent' = row
    /\ pc' = [s \in Sessions |-> "idle"]
    /\ draft' = [s \in Sessions |-> NoText]
    /\ lock' = NoOne
    /\ UNCHANGED <<row, text, selected, calls, rescores, clearings>>

-----------------------------------------------------------------------------
Explains(s) == ExplainsLocally(s) \/ ExplainsByProvider(s)
InTransaction(s) == FindsCached(s) \/ FindsNone(s) \/ Explains(s) \/ Saves(s)

Next == \/ Rescore \/ RefreshRecent \/ Recreate
        \/ \E s \in Sessions : \/ Review(s) \/ Locks(s) \/ InTransaction(s)
                               \/ ExplanationEscapes(s) \/ Fails(s)

Spec == Init /\ [][Next]_vars

\* A session goes on with its transaction, and PostgreSQL serves the waiters
\* of an advisory lock in the order of their arrival.  Nobody has to review
\* anything, and nothing has to fail.
Fairness == \A s \in Sessions : WF_vars(InTransaction(s)) /\ SF_vars(Locks(s))
FairSpec == Spec /\ Fairness

-----------------------------------------------------------------------------
(***************************************************************************)
(* Properties.                                                             *)
(***************************************************************************)

\* Every variable keeps its shape, and only the holder of the lock is
\* between its read and its commit.
Holding(s) == pc[s] \in {"read", "explain", "save"}
TypeOK ==
    /\ row \in Versions /\ recent \in Versions
    /\ text \in Texts \cup {NoText}
    /\ config \in Configs
    /\ lock \in Sessions \cup {NoOne}
    /\ pc \in [Sessions -> {"idle", "lock", "read", "explain", "save"}]
    /\ \A s \in Sessions : Holding(s) <=> lock = s
    /\ selected \in [Sessions -> Versions]
    /\ draft \in [Sessions -> Texts \cup {NoText}]
    /\ calls \in Nat /\ rescores \in Nat /\ clearings \in Nat /\ faults \in Nat

\* "Generate once on review and persist the result so dashboard reruns are
\* free" (get_or_create_plain_explanation): sessions that review the same
\* transaction at once pay for one call of the provider, which a fallback
\* text does not repeat either; another call needs a new score, a failed
\* transaction or a recreated dashboard.
GeneratedOnce == calls <= 1 + clearings + faults

\* No session waits for another's transaction for ever.
ReviewsEnd == \A s \in Sessions : pc[s] = "lock" ~> pc[s] = "idle"

\* The explanation is "generated lazily from allowlisted transaction fields
\* and top SHAP drivers, then cached. It summarizes model evidence"
\* (apps/dashboard/app.py): the evidence of the score it is stored with.
TextDescribesRow == text # NoText => text.of = row

\* Upserts and reviews of one row interleave, yet only a page that was handed
\* an older row can leave a text that describes another decision than the one
\* it is stored with; scoring a row again never does.
OnlyStalePagesMislead ==
    [][text' # NoText /\ text'.of # row' =>
         /\ row' = row
         /\ \/ text' = text
            \/ \E s \in Sessions : pc[s] = "save" /\ selected[s] # row /\ text' = draft[s]]_vars

\* Why OnlyStalePagesMislead holds: a text that is about to be written describes
\* the row that its session was handed.
DraftInv == \A s \in Sessions : pc[s] = "save" => draft[s].of = selected[s]

\* Why GeneratedOnce holds: a session that calls a provider has found no usable
\* text while it holds the lock, and a call that nothing has made good for since
\* has left a usable text, or one that is about to be written.
PaidInv ==
    /\ \A s \in Sessions : pc[s] = "explain" => ~ CachedCanBeUsed(text)
    /\ \A s \in Sessions : pc[s] = "save" => CachedCanBeUsed(draft[s])
    /\ \/ calls <= clearings + faults
       \/ /\ calls <= 1 + clearings + faults
          /\ CachedCanBeUsed(text) \/ \E s \in Sessions : pc[s] = "save"
=============================================================================
