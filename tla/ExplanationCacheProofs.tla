------------------------ MODULE ExplanationCacheProofs ------------------------
(***************************************************************************)
(* Theorems about ExplanationCache: the lock keeps sessions apart, and the *)
(* provider is paid once for each score and failure, for any number of     *)
(* sessions, providers, upserts and failures.                              *)
(***************************************************************************)
EXTENDS ExplanationCache, TLAPS

Locations == {"idle", "lock", "read", "explain", "save"}

\* What each provider setting resolves to is the template or a provider.
LEMMA ResolveIsConfig ==
  ASSUME CacheAssumption, NEW e \in Settings
  PROVE  Resolve(e) \in Configs
<1> DEFINE rank == [anthropic |-> 1, openai |-> 2, gemini |-> 3, openai_compatible |-> 4]
<1>1. e.keyed \subseteq Providers BY DEF Settings
<1>2. ASSUME e.keyed # {} PROVE \E p \in e.keyed : \A q \in e.keyed : rank[p] <= rank[q]
  <2>1. e.keyed \subseteq Externals BY <1>1 DEF CacheAssumption
  <2>2. CASE "anthropic" \in e.keyed BY <2>1, <2>2 DEF Externals
  <2>3. CASE "anthropic" \notin e.keyed /\ "openai" \in e.keyed BY <2>1, <2>3 DEF Externals
  <2>4. CASE /\ "anthropic" \notin e.keyed /\ "openai" \notin e.keyed
             /\ "gemini" \in e.keyed
    BY <2>1, <2>4 DEF Externals
  <2>5. CASE e.keyed \subseteq {"openai_compatible"} BY <1>2, <2>5
  <2>6. QED BY <2>1, <2>2, <2>3, <2>4, <2>5 DEF Externals
<1>3. CASE e.provider = "auto" /\ e.keyed # {}
  <2>1. Resolve(e) \in e.keyed BY <1>2, <1>3 DEF Resolve
  <2>2. QED BY <1>1, <2>1 DEF Configs
<1>4. CASE ~ (e.provider = "auto" /\ e.keyed # {})
  BY <1>1, <1>4 DEF Resolve, Configs
<1>5. QED BY <1>3, <1>4

\* The initial states are well typed.
LEMMA TypeInit ==
  ASSUME CacheAssumption, Init
  PROVE  TypeOK
BY ResolveIsConfig DEF CacheAssumption, Init, TypeOK, Holding, NoText

-----------------------------------------------------------------------------
(* Types. *)

\* A transaction that ends frees the lock, which its session alone held.
LEMMA EndKeeps ==
  ASSUME TypeOK, CacheAssumption, NEW s \in Sessions,
         pc' = [pc EXCEPT ![s] = "idle"], draft' = [draft EXCEPT ![s] = NoText],
         lock' = IF lock = s THEN NoOne ELSE lock
  PROVE  /\ lock' \in Sessions \cup {NoOne}
         /\ pc' \in [Sessions -> Locations]
         /\ \A q \in Sessions : Holding(q)' <=> lock' = q
         /\ draft' \in [Sessions -> Texts \cup {NoText}]
BY DEF TypeOK, CacheAssumption, Holding, Locations

\* Ends is such an end, when the session holds the lock.
LEMMA EndsFrees ==
  ASSUME TypeOK, NEW s \in Sessions, Holding(s), Ends(s)
  PROVE  /\ pc' = [pc EXCEPT ![s] = "idle"]
         /\ draft' = [draft EXCEPT ![s] = NoText]
         /\ lock' = IF lock = s THEN NoOne ELSE lock
BY DEF TypeOK, Ends

\* A session that moves on inside its transaction keeps the lock.
LEMMA MoveKeeps ==
  ASSUME TypeOK, NEW s \in Sessions, NEW l \in {"explain", "save"}, Holding(s),
         pc' = [pc EXCEPT ![s] = l], UNCHANGED lock
  PROVE  /\ pc' \in [Sessions -> Locations]
         /\ \A q \in Sessions : Holding(q)' <=> lock' = q
BY DEF TypeOK, Holding, Locations

\* Drafts writes a text of the row that was selected.
LEMMA DraftTypes ==
  ASSUME TypeOK, NEW s \in Sessions, NEW source \in Configs,
         NEW model \in Providers \cup {NoModel}, Drafts(s, source, model)
  PROVE  draft' \in [Sessions -> Texts \cup {NoText}]
<1>1. [of |-> selected[s], source |-> source, model |-> model] \in Texts
  BY DEF TypeOK, Texts
<1>2. QED BY <1>1 DEF TypeOK, Drafts

\* Every step keeps every variable well typed and the lock exclusive.
LEMMA TypeStep ==
  ASSUME TypeOK, CacheAssumption, [Next]_vars
  PROVE  TypeOK'
<1> USE DEF Locations
<1>1. CASE Rescore
  BY <1>1 DEF Rescore, TypeOK, Holding, session
<1>2. CASE RefreshRecent
  BY <1>2 DEF RefreshRecent, TypeOK, Holding, database, session, history
<1>3. CASE Recreate
  <2>1. config' \in Configs BY <1>3, ResolveIsConfig DEF Recreate
  <2>2. \A s \in Sessions : pc'[s] = "idle" /\ lock' # s
    BY <1>3 DEF Recreate, CacheAssumption
  <2>3. QED BY <1>3, <2>1, <2>2 DEF Recreate, TypeOK, Holding
<1>4. ASSUME NEW s \in Sessions, Review(s) PROVE TypeOK'
  BY <1>4 DEF Review, TypeOK, Holding, database, history
<1>5. ASSUME NEW s \in Sessions, Locks(s) PROVE TypeOK'
  BY <1>5 DEF Locks, TypeOK, Holding, history, CacheAssumption
<1>6. ASSUME NEW s \in Sessions, FindsNone(s) PROVE TypeOK'
  <2>1. Holding(s) /\ UNCHANGED lock BY <1>6 DEF FindsNone, Holding, database
  <2>2. QED BY <1>6, <2>1, MoveKeeps DEF FindsNone, TypeOK, database, history
<1>7. ASSUME NEW s \in Sessions, Explains(s) PROVE TypeOK'
  <2>1. Holding(s) BY <1>7 DEF Explains, ExplainsLocally, ExplainsByProvider, Holding
  <2>2. PICK source \in Configs, model \in Providers \cup {NoModel} : Drafts(s, source, model)
    BY <1>7 DEF Explains, ExplainsLocally, ExplainsByProvider, TypeOK, Configs
  <2>3. calls' \in Nat
    BY <1>7 DEF Explains, ExplainsLocally, ExplainsByProvider, TypeOK
  <2>4. draft' \in [Sessions -> Texts \cup {NoText}] BY <2>2, DraftTypes
  <2>5. UNCHANGED <<row, text, lock, recent, config, selected, rescores, clearings, faults>>
    BY <2>2 DEF Drafts, database
  <2>6. pc' = [pc EXCEPT ![s] = "save"] BY <2>2 DEF Drafts
  <2>7. QED BY <2>1, <2>3, <2>4, <2>5, <2>6, MoveKeeps DEF TypeOK
<1>8. ASSUME NEW s \in Sessions, FindsCached(s) \/ Saves(s) \/ ExplanationEscapes(s) PROVE TypeOK'
  <2>1. Holding(s) /\ Ends(s)
    BY <1>8 DEF FindsCached, Saves, ExplanationEscapes, Holding
  <2>2. /\ text' \in Texts \cup {NoText} /\ calls' \in Nat /\ faults' \in Nat
        /\ UNCHANGED <<row, recent, config, selected, rescores, clearings>>
    BY <1>8 DEF FindsCached, Saves, ExplanationEscapes, TypeOK, history
  <2>3. QED BY <2>1, <2>2, EndsFrees, EndKeeps DEF TypeOK
<1>9. ASSUME NEW s \in Sessions, Fails(s) PROVE TypeOK'
  <2>1. /\ faults' \in Nat
        /\ UNCHANGED <<row, text, recent, config, selected, calls, rescores, clearings>>
    BY <1>9 DEF Fails, TypeOK
  <2>2. /\ pc' = [pc EXCEPT ![s] = "idle"]
        /\ draft' = [draft EXCEPT ![s] = NoText]
        /\ lock' = IF lock = s THEN NoOne ELSE lock
    BY <1>9 DEF Fails
  <2>3. QED BY <2>1, <2>2, EndKeeps DEF TypeOK
<1>10. CASE UNCHANGED vars BY <1>10 DEF vars, TypeOK, Holding
<1>11. QED
  BY <1>1, <1>2, <1>3, <1>4, <1>5, <1>6, <1>7, <1>8, <1>9, <1>10 DEF Next, InTransaction

\* Every variable keeps its shape, and two sessions are never between the read
\* and the commit of their transactions at once, whatever fails.
THEOREM TypeCorrect == ASSUME CacheAssumption PROVE Spec => []TypeOK
<1>1. Init => TypeOK BY TypeInit
<1>2. TypeOK /\ [Next]_vars => TypeOK' BY TypeStep
<1>3. QED BY <1>1, <1>2, PTL DEF Spec

-----------------------------------------------------------------------------
(* The provider is paid once. *)

\* Whether a text can be used depends on the text and the provider only.
LEMMA UsableStays ==
  ASSUME UNCHANGED config, NEW t
  PROVE  CachedCanBeUsed(t)' <=> CachedCanBeUsed(t')
BY DEF CachedCanBeUsed

\* What explain_transaction returns can be used until the provider changes.
LEMMA DraftIsUsable ==
  ASSUME TypeOK, CacheAssumption, NEW s \in Sessions, Explains(s)
  PROVE  CachedCanBeUsed(draft'[s])
<1>1. PICK source, model :
        /\ Drafts(s, source, model)
        /\ \/ source = Template /\ config = Template /\ model = NoModel
           \/ source = config /\ config # Template /\ model = config
           \/ source = Template /\ model = config
        /\ config # Template \/ source = Template
    BY DEF Explains, ExplainsLocally, ExplainsByProvider
<1>2. draft'[s] = [of |-> selected[s], source |-> source, model |-> model]
  BY <1>1 DEF Drafts, TypeOK
<1>3. draft'[s] # NoText
  BY <1>1, <1>2 DEF NoText, TypeOK, Configs, CacheAssumption, Externals, NoModel, Template
<1>4. QED BY <1>1, <1>2, <1>3 DEF CachedCanBeUsed

\* The initial states satisfy it: nothing was paid.
LEMMA PaidInit == Init => PaidInv
BY DEF Init, PaidInv

\* A step that leaves the counters and the session that saves, if any, alone.
LEMMA CountersKeep ==
  ASSUME TypeOK, PaidInv, UNCHANGED <<text, config, draft, calls, clearings, faults>>,
         \A s \in Sessions : /\ pc'[s] = "save" <=> pc[s] = "save"
                             /\ pc'[s] = "explain" => pc[s] = "explain" \/ ~ CachedCanBeUsed(text)
  PROVE  PaidInv'
BY DEF PaidInv, CachedCanBeUsed

\* A failure makes good for what was lost with it.
LEMMA FailureKeeps ==
  ASSUME TypeOK, PaidInv, UNCHANGED <<text, calls, clearings>>, faults' = faults + 1,
         \A s \in Sessions : \/ pc'[s] \notin {"explain", "save"}
                             \/ pc'[s] = pc[s] /\ draft'[s] = draft[s] /\ UNCHANGED config
  PROVE  PaidInv'
<1>1. calls' <= clearings' + faults' BY DEF PaidInv, TypeOK
<1>2. QED BY <1>1 DEF PaidInv, CachedCanBeUsed

\* Every step keeps it.
LEMMA PaidStep ==
  ASSUME TypeOK, TypeOK', PaidInv, CacheAssumption, [Next]_vars
  PROVE  PaidInv'
<1>1. CASE Rescore
  <2>1. UNCHANGED <<config, pc, draft, calls, faults>> BY <1>1 DEF Rescore, session
  <2>2. CASE row' = row
    <3>1. UNCHANGED <<text, clearings>> BY <1>1, <2>2 DEF Rescore
    <3>2. QED BY <2>1, <3>1, CountersKeep
  <2>3. CASE row' # row
    <3>1. text' = NoText /\ clearings' = clearings + 1 BY <1>1, <2>3 DEF Rescore
    <3>2. calls' <= clearings' + faults' BY <2>1, <3>1 DEF PaidInv, TypeOK
    <3>3. QED BY <2>1, <3>1, <3>2 DEF PaidInv, CachedCanBeUsed
  <2>4. QED BY <2>2, <2>3
<1>2. CASE RefreshRecent
  BY <1>2, CountersKeep DEF RefreshRecent, database, session, history
<1>3. CASE Recreate
  BY <1>3, FailureKeeps DEF Recreate
<1>4. ASSUME NEW s \in Sessions, Review(s) \/ Locks(s) \/ FindsNone(s) PROVE PaidInv'
  <2>1. UNCHANGED <<text, config, draft, calls, clearings, faults>>
    BY <1>4 DEF Review, Locks, FindsNone, database, history
  <2>2. \A q \in Sessions : /\ pc'[q] = "save" <=> pc[q] = "save"
                            /\ pc'[q] = "explain" => pc[q] = "explain" \/ ~ CachedCanBeUsed(text)
    BY <1>4 DEF Review, Locks, FindsNone, TypeOK
  <2>3. QED BY <2>1, <2>2, CountersKeep
<1>5. ASSUME NEW s \in Sessions, FindsCached(s) PROVE PaidInv'
  <2>1. UNCHANGED <<text, config, calls, clearings, faults>> /\ CachedCanBeUsed(text)
    BY <1>5 DEF FindsCached, history
  <2>2. \A q \in Sessions : \/ pc'[q] = "idle"
                            \/ pc'[q] = pc[q] /\ draft'[q] = draft[q]
    BY <1>5 DEF FindsCached, Ends, TypeOK
  <2>3. QED BY <2>1, <2>2 DEF PaidInv, CachedCanBeUsed
<1>6. ASSUME NEW s \in Sessions, Explains(s) PROVE PaidInv'
  <2>1. Holding(s) /\ pc[s] = "explain"
    BY <1>6 DEF Explains, ExplainsLocally, ExplainsByProvider, Holding
  <2>2. calls <= clearings + faults
    BY <2>1 DEF PaidInv, TypeOK, Holding
  <2>3. /\ UNCHANGED <<text, config, clearings, faults>>
        /\ pc' = [pc EXCEPT ![s] = "save"]
        /\ \A q \in Sessions \ {s} : draft'[q] = draft[q]
    BY <1>6 DEF Explains, ExplainsLocally, ExplainsByProvider, Drafts, database, TypeOK
  <2>4. calls' \in {calls, calls + 1}
    BY <1>6 DEF Explains, ExplainsLocally, ExplainsByProvider
  <2>5. calls' <= 1 + clearings' + faults' BY <2>2, <2>3, <2>4 DEF TypeOK
  <2>6. CachedCanBeUsed(draft'[s]) BY <1>6, DraftIsUsable
  <2>7. \A q \in Sessions : pc'[q] = "save" <=> q = s
    BY <2>1, <2>3 DEF TypeOK, Holding
  <2>8. \A q \in Sessions : pc'[q] # "explain"
    BY <2>1, <2>3 DEF TypeOK, Holding
  <2>9. QED BY <2>3, <2>5, <2>6, <2>7, <2>8 DEF PaidInv, CachedCanBeUsed
<1>7. ASSUME NEW s \in Sessions, Saves(s) PROVE PaidInv'
  <2>1. Holding(s) /\ pc[s] = "save" BY <1>7 DEF Saves, Holding
  <2>2. text' = draft[s] /\ UNCHANGED <<config, calls, clearings, faults>>
    BY <1>7 DEF Saves, history
  <2>3. \A q \in Sessions : pc'[q] \notin {"explain", "save"}
    BY <1>7, <2>1 DEF Saves, Ends, TypeOK, Holding
  <2>4. CachedCanBeUsed(draft[s]) BY <2>1 DEF PaidInv
  <2>5. calls <= 1 + clearings + faults BY DEF PaidInv, TypeOK
  <2>6. QED BY <2>2, <2>3, <2>4, <2>5 DEF PaidInv, CachedCanBeUsed
<1>8. ASSUME NEW s \in Sessions, ExplanationEscapes(s) PROVE PaidInv'
  <2>1. Holding(s) /\ pc[s] = "explain" BY <1>8 DEF ExplanationEscapes, Holding
  <2>2. calls <= clearings + faults BY <2>1 DEF PaidInv, TypeOK, Holding
  <2>3. /\ calls' = calls + 1 /\ faults' = faults + 1
        /\ UNCHANGED <<text, config, clearings>>
    BY <1>8 DEF ExplanationEscapes
  <2>4. calls' <= clearings' + faults' BY <2>2, <2>3 DEF TypeOK
  <2>5. \A q \in Sessions : pc'[q] \notin {"explain", "save"}
    BY <1>8, <2>1 DEF ExplanationEscapes, Ends, TypeOK, Holding
  <2>6. QED BY <2>4, <2>5 DEF PaidInv
<1>9. ASSUME NEW s \in Sessions, Fails(s) PROVE PaidInv'
  <2>1. faults' = faults + 1 /\ UNCHANGED <<text, config, calls, clearings>>
    BY <1>9 DEF Fails
  <2>2. \A q \in Sessions : \/ pc'[q] = "idle"
                            \/ pc'[q] = pc[q] /\ draft'[q] = draft[q]
    BY <1>9 DEF Fails, TypeOK
  <2>3. QED BY <2>1, <2>2, FailureKeeps
<1>10. CASE UNCHANGED vars BY <1>10, CountersKeep DEF vars
<1>11. QED
  BY <1>1, <1>2, <1>3, <1>4, <1>5, <1>6, <1>7, <1>8, <1>9, <1>10 DEF Next, InTransaction

\* Sessions that review the transaction at once pay for one call of the
\* provider; another call needs a new score, a failure or a new dashboard.
THEOREM PaidOnce == ASSUME CacheAssumption PROVE Spec => []GeneratedOnce
<1>1. Init => TypeOK /\ PaidInv BY TypeInit, PaidInit
<1>2. (TypeOK /\ PaidInv) /\ [Next]_vars => (TypeOK /\ PaidInv)'
  <2>1. SUFFICES ASSUME TypeOK, PaidInv, [Next]_vars PROVE TypeOK' /\ PaidInv' OBVIOUS
  <2>2. TypeOK' BY <2>1, TypeStep
  <2>3. QED BY <2>1, <2>2, PaidStep
<1>3. TypeOK /\ PaidInv => GeneratedOnce BY DEF TypeOK, PaidInv, GeneratedOnce
<1>4. QED BY <1>1, <1>2, <1>3, PTL DEF Spec

-----------------------------------------------------------------------------
(* Whose evidence a text describes. *)

\* Every step keeps it: nobody changes the draft or the row of a session that is
\* about to save.
LEMMA DraftStep ==
  ASSUME TypeOK, DraftInv, [Next]_vars
  PROVE  DraftInv'
<1>1. CASE Rescore \/ RefreshRecent \/ UNCHANGED vars
  BY <1>1 DEF Rescore, RefreshRecent, vars, session, DraftInv
<1>2. CASE Recreate BY <1>2 DEF Recreate, DraftInv
<1>3. ASSUME NEW s \in Sessions,
             Review(s) \/ Locks(s) \/ FindsCached(s) \/ FindsNone(s) \/ Saves(s)
               \/ ExplanationEscapes(s) \/ Fails(s)
      PROVE  DraftInv'
  <2>1. \A q \in Sessions : pc'[q] = "save" =>
          pc[q] = "save" /\ draft'[q] = draft[q] /\ selected'[q] = selected[q]
    BY <1>3 DEF Review, Locks, FindsCached, FindsNone, Saves, ExplanationEscapes, Fails,
                Ends, TypeOK
  <2>2. QED BY <2>1 DEF DraftInv
<1>4. ASSUME NEW s \in Sessions, Explains(s) PROVE DraftInv'
  <2>1. PICK source, model : Drafts(s, source, model)
    BY <1>4 DEF Explains, ExplainsLocally, ExplainsByProvider
  <2>2. draft'[s].of = selected[s] /\ selected' = selected
    BY <2>1 DEF Drafts, TypeOK
  <2>3. \A q \in Sessions \ {s} : pc'[q] = pc[q] /\ draft'[q] = draft[q]
    BY <2>1 DEF Drafts, TypeOK
  <2>4. QED BY <2>2, <2>3 DEF DraftInv
<1>5. QED BY <1>1, <1>2, <1>3, <1>4 DEF Next, InTransaction

\* A text that describes another decision than the one it is stored with was
\* written for a page that had been handed an older row.
LEMMA StaleStep ==
  ASSUME TypeOK, DraftInv, [Next]_vars, text' # NoText, text'.of # row'
  PROVE  /\ row' = row
         /\ \/ text' = text
            \/ \E s \in Sessions : pc[s] = "save" /\ selected[s] # row /\ text' = draft[s]
<1>1. CASE Rescore BY <1>1 DEF Rescore
<1>2. CASE RefreshRecent \/ Recreate \/ UNCHANGED vars
  BY <1>2 DEF RefreshRecent, Recreate, database, vars
<1>3. ASSUME NEW s \in Sessions,
             Review(s) \/ Locks(s) \/ FindsCached(s) \/ FindsNone(s) \/ Explains(s)
               \/ ExplanationEscapes(s) \/ Fails(s)
      PROVE  text' = text /\ row' = row
  BY <1>3 DEF Review, Locks, FindsCached, FindsNone, Explains, ExplainsLocally,
              ExplainsByProvider, Drafts, ExplanationEscapes, Fails, database
<1>4. ASSUME NEW s \in Sessions, Saves(s)
      PROVE  row' = row /\ pc[s] = "save" /\ selected[s] # row /\ text' = draft[s]
  BY <1>4 DEF Saves, DraftInv
<1>5. QED BY <1>1, <1>2, <1>3, <1>4 DEF Next, InTransaction

\* Scoring the row again never makes its text describe another decision.
THEOREM OnlyStalePages == ASSUME CacheAssumption PROVE Spec => OnlyStalePagesMislead
<1>1. Init => TypeOK /\ DraftInv BY TypeInit DEF Init, DraftInv
<1>2. (TypeOK /\ DraftInv) /\ [Next]_vars => (TypeOK /\ DraftInv)'
  BY TypeStep, DraftStep
<1>3. (TypeOK /\ DraftInv) /\ [Next]_vars =>
        [text' # NoText /\ text'.of # row' =>
           /\ row' = row
           /\ \/ text' = text
              \/ \E s \in Sessions : pc[s] = "save" /\ selected[s] # row /\ text' = draft[s]]_vars
  BY StaleStep
<1>4. QED BY <1>1, <1>2, <1>3, PTL DEF Spec, OnlyStalePagesMislead
=============================================================================
