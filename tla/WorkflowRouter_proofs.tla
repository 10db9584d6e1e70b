------------------------ MODULE WorkflowRouter_proofs ------------------------
(* Proofs about WorkflowRouter, for any workflows, selectors, report age,      *)
(* period and skew of the two clocks, and any number of generations, reports   *)
(* and transmissions.                                                          *)
EXTENDS WorkflowRouter, TLAPS

----------------------------------------------------------------------------
(* The types. *)

\* The state of the router, the reports and the vault's counters keep their types.
THEOREM RouterTyping == Spec => []RouterTypeOK
<1>1. Init => RouterTypeOK
  <2> SUFFICES ASSUME Init PROVE RouterTypeOK
    OBVIOUS
  <2>1. routerPaused \in BOOLEAN
    BY DEF Init
  <2>2. /\ metadata \in [Workflows -> Metas \union {NoMeta}]
        /\ readings \subseteq Reports /\ signed \subseteq Reports
    BY DEF Init
  <2>3. generation \in [Workflows -> Generations]
    BY RouterAssumption DEF Init, Generations
  <2>4. selectors \in [Workflows -> [Generations -> SUBSET Selectors]]
    BY DEF Init
  <2>5. /\ donTime \in Nat /\ blockTime \in Nat
        /\ nonce \in [Selectors -> Nat] /\ lastRun \in [Selectors -> Nat]
    BY DEF Init
  <2> QED
    BY <2>1, <2>2, <2>3, <2>4, <2>5 DEF RouterTypeOK
<1>2. RouterTypeOK /\ [Next]_vars => RouterTypeOK'
  <2> SUFFICES ASSUME RouterTypeOK, [Next]_vars
               PROVE  RouterTypeOK'
    OBVIOUS
  <2> USE RouterAssumption DEF RouterTypeOK
  <2>1. ASSUME NEW w \in Workflows, NEW m \in Metas, NEW s \in Selectors,
               WorkflowReads(w, m, s)
        PROVE  RouterTypeOK'
    BY <2>1 DEF WorkflowReads, Reports, configVars, clockVars, vaultVars
  <2>2. ASSUME NEW r \in readings, SubmitReport(r)
        PROVE  RouterTypeOK'
    BY <2>2 DEF SubmitReport, configVars, clockVars, vaultVars
  <2>3. ASSUME NEW r \in signed, OnReport(r)
        PROVE  RouterTypeOK'
    BY <2>3 DEF OnReport, Reports, configVars, clockVars, vaultVars
  <2>4. ASSUME NEW w \in Workflows, NEW m \in Metas \union {NoMeta},
               SetWorkflowMetadata(w, m)
        PROVE  RouterTypeOK'
    BY <2>4 DEF SetWorkflowMetadata, Generations, clockVars, vaultVars
  <2>5. ASSUME NEW w \in Workflows, NEW S \in SUBSET Selectors, NEW allow \in BOOLEAN,
               SetWorkflowSelectors(w, S, allow)
        PROVE  RouterTypeOK'
    BY <2>5 DEF SetWorkflowSelectors, clockVars, vaultVars
  <2>6. ASSUME Pause \/ Unpause
        PROVE  RouterTypeOK'
    <3>1. routerPaused' \in BOOLEAN
      BY <2>6 DEF Pause, Unpause
    <3>2. UNCHANGED <<metadata, generation, selectors, donTime, blockTime, readings,
                      signed, nonce, lastRun>>
      BY <2>6 DEF Pause, Unpause, clockVars, vaultVars
    <3> QED
      BY <3>1, <3>2
  <2>8. ASSUME DonTicks \/ BlockTicks
        PROVE  RouterTypeOK'
    BY <2>8 DEF DonTicks, BlockTicks, configVars, clockVars, vaultVars
  <2>7. CASE UNCHANGED vars
    BY <2>7 DEF vars, configVars, clockVars, vaultVars
  <2> QED
    BY <2>1, <2>2, <2>3, <2>4, <2>5, <2>6, <2>7, <2>8 DEF Next
<1> QED
  BY <1>1, <1>2, PTL DEF Spec

----------------------------------------------------------------------------
(* The period. *)

\* What a handler saw when it found its call due is still true, or a later call
\* has overtaken the report: its nonce is the vault's only as long as the vault
\* counts its period from the time the handler read.
ReportsDue ==
    \A r \in readings \union signed :
        /\ r.nonce <= nonce[r.call]
        /\ r.nonce = nonce[r.call] => lastRun[r.call] + MinPeriod <= r.observedAt

\* No step makes a report claim more than it saw: reports enter as readings of the
\* present, and the vault moves its period only together with its nonce.
LEMMA ReportsDueStep ==
    ASSUME RouterTypeOK, RouterTypeOK', ReportsDue, [Next]_vars
    PROVE  ReportsDue'
<1> USE RouterAssumption DEF RouterTypeOK, ReportsDue
<1>1. ASSUME NEW w \in Workflows, NEW m \in Metas, NEW s \in Selectors,
             WorkflowReads(w, m, s)
      PROVE  ReportsDue'
  BY <1>1 DEF WorkflowReads, PeriodElapsed, Reports, vaultVars
<1>2. ASSUME NEW r \in readings, SubmitReport(r)
      PROVE  ReportsDue'
  BY <1>2 DEF SubmitReport, vaultVars
<1>3. ASSUME NEW r \in signed, OnReport(r)
      PROVE  ReportsDue'
  <2>1. r.call \in Selectors
    BY DEF Reports
  <2> SUFFICES ASSUME NEW q \in readings \union signed
               PROVE  /\ q.nonce <= nonce'[q.call]
                      /\ q.nonce = nonce'[q.call] =>
                           lastRun'[q.call] + MinPeriod <= q.observedAt
    BY <1>3 DEF OnReport
  <2>2. q.call \in Selectors /\ q.nonce \in Nat
    BY DEF Reports
  <2>3. CASE q.call = r.call
    <3>1. nonce'[q.call] = nonce[q.call] + 1
      BY <1>3, <2>1, <2>3 DEF OnReport
    <3> QED
      BY <2>2, <3>1
  <2>4. CASE q.call # r.call
    BY <1>3, <2>1, <2>2, <2>4 DEF OnReport
  <2> QED
    BY <2>3, <2>4
<1>4. ASSUME NEW w \in Workflows, NEW m \in Metas \union {NoMeta},
             SetWorkflowMetadata(w, m)
      PROVE  ReportsDue'
  BY <1>4 DEF SetWorkflowMetadata, vaultVars
<1>5. ASSUME NEW w \in Workflows, NEW S \in SUBSET Selectors, NEW allow \in BOOLEAN,
             SetWorkflowSelectors(w, S, allow)
      PROVE  ReportsDue'
  BY <1>5 DEF SetWorkflowSelectors, vaultVars
<1>6. ASSUME Pause \/ Unpause \/ DonTicks \/ BlockTicks
      PROVE  ReportsDue'
  BY <1>6 DEF Pause, Unpause, DonTicks, BlockTicks, vaultVars
<1>7. CASE UNCHANGED vars
  BY <1>7 DEF vars, vaultVars
<1> QED
  BY <1>1, <1>2, <1>3, <1>4, <1>5, <1>6, <1>7 DEF Next

\* A report the router forwards was observed no later than the present block, so
\* a period that had run at the observation has run in the block.
LEMMA DueWhenForwarded ==
    ASSUME RouterTypeOK, ReportsDue
    PROVE  DueCallNotTooEarly
BY RouterAssumption
   DEF DueCallNotTooEarly, RouterTypeOK, ReportsDue, Reports, Forwardable, InWindow,
       VaultTakes, PeriodElapsed

\* However far the clocks of the DON and of the chain drift apart, and however late
\* or often a report is transmitted, onReport never spends a current report on a
\* call the vault refuses as too early.
THEOREM DueCallsAreNotTooEarly == Spec => []DueCallNotTooEarly
<1>1. Init => ReportsDue
  BY DEF Init, ReportsDue
<1> QED
  BY <1>1, RouterTyping, ReportsDueStep, DueWhenForwarded, PTL DEF Spec

----------------------------------------------------------------------------
(* The grants. *)

\* A generation that no registration has reached holds no selector.
NoGrantsAhead ==
    \A w \in Workflows, g \in Generations : generation[w] < g => selectors[w][g] = {}

\* Selectors are only written in the present generation, and it only grows.
LEMMA NoGrantsAheadStep ==
    ASSUME RouterTypeOK, RouterTypeOK', NoGrantsAhead, [Next]_vars
    PROVE  NoGrantsAhead'
<1> USE RouterAssumption DEF RouterTypeOK, NoGrantsAhead, Generations
<1>1. CASE UNCHANGED <<generation, selectors>>
  BY <1>1
<1>2. ASSUME NEW w \in Workflows, NEW m \in Metas \union {NoMeta},
             SetWorkflowMetadata(w, m)
      PROVE  NoGrantsAhead'
  BY <1>2 DEF SetWorkflowMetadata
<1>3. ASSUME NEW w \in Workflows, NEW S \in SUBSET Selectors, NEW allow \in BOOLEAN,
             SetWorkflowSelectors(w, S, allow)
      PROVE  NoGrantsAhead'
  BY <1>3 DEF SetWorkflowSelectors
<1>4. ASSUME NEW w \in Workflows, NEW m \in Metas, NEW s \in Selectors,
             WorkflowReads(w, m, s)
      PROVE  UNCHANGED <<generation, selectors>>
  BY <1>4 DEF WorkflowReads, configVars
<1>5. ASSUME NEW r \in readings, SubmitReport(r)
      PROVE  UNCHANGED <<generation, selectors>>
  BY <1>5 DEF SubmitReport, configVars
<1>6. ASSUME NEW r \in signed, OnReport(r)
      PROVE  UNCHANGED <<generation, selectors>>
  BY <1>6 DEF OnReport, configVars
<1>7. ASSUME Pause \/ Unpause \/ DonTicks \/ BlockTicks
      PROVE  UNCHANGED <<generation, selectors>>
  BY <1>7 DEF Pause, Unpause, DonTicks, BlockTicks, configVars
<1>8. ASSUME UNCHANGED vars
      PROVE  UNCHANGED <<generation, selectors>>
  BY <1>8 DEF vars, configVars
<1> HIDE DEF NoGrantsAhead
<1> QED
  BY <1>1, <1>2, <1>3, <1>4, <1>5, <1>6, <1>7, <1>8 DEF Next

\* Every step of the router is a step of the grants, or changes nothing of them: a
\* new generation is a registration without a grant because its selectors are
\* still empty, and onReport calls the vault for a registered workflow only.
LEMMA GrantsStep ==
    ASSUME RouterTypeOK, RouterTypeOK', NoGrantsAhead, [Next]_vars
    PROVE  [Grants!Next]_(Grants!vars)
<1> USE RouterAssumption DEF RouterTypeOK
<1> DEFINE granted == [w \in Workflows |-> selectors[w][generation[w]]]
<1>1. ASSUME UNCHANGED <<routerPaused, metadata, generation, selectors, nonce>>
      PROVE  UNCHANGED Grants!vars
  BY <1>1 DEF Grants!vars
<1>2. ASSUME NEW r \in signed, OnReport(r)
      PROVE  Grants!CallVault(r.workflow, r.call)
  BY <1>2 DEF OnReport, Forwardable, Grants!CallVault, configVars, Reports
<1>3. ASSUME NEW w \in Workflows, NEW m \in Metas \union {NoMeta},
             SetWorkflowMetadata(w, m)
      PROVE  Grants!Register(w, m)
  <2>1. selectors[w][generation[w] + 1] = {}
    <3>1. generation[w] \in Nat /\ generation[w] + 1 \in Generations
      BY <1>3 DEF SetWorkflowMetadata, Generations
    <3>2. generation[w] < generation[w] + 1
      BY <3>1
    <3> QED
      BY <3>1, <3>2 DEF NoGrantsAhead
  <2>2. granted' = [granted EXCEPT ![w] = {}]
    BY <1>3, <2>1 DEF SetWorkflowMetadata
  <2> QED
    BY <1>3, <2>2 DEF SetWorkflowMetadata, Grants!Register, vaultVars
<1>4. ASSUME NEW w \in Workflows, NEW S \in SUBSET Selectors, NEW allow \in BOOLEAN,
             SetWorkflowSelectors(w, S, allow)
      PROVE  \E G \in SUBSET Selectors : Grants!ChangeGrants(w, G)
  <2>1. PICK G \in SUBSET Selectors : G = selectors'[w][generation[w]]
    BY <1>4 DEF SetWorkflowSelectors
  <2>2. \A v \in Workflows :
          selectors'[v][generation'[v]] =
            IF v = w THEN G ELSE selectors[v][generation[v]]
    BY <1>4, <2>1 DEF SetWorkflowSelectors
  <2>3. granted' = [granted EXCEPT ![w] = G]
    BY <2>2
  <2>4. Grants!ChangeGrants(w, G)
    BY <1>4, <2>3 DEF SetWorkflowSelectors, Grants!ChangeGrants, vaultVars
  <2> QED
    BY <2>4
<1>5. ASSUME Pause \/ Unpause
      PROVE  Grants!Switch
  BY <1>5 DEF Pause, Unpause, Grants!Switch, vaultVars
<1>6. ASSUME UNCHANGED vars
      PROVE  UNCHANGED Grants!vars
  BY <1>1, <1>6 DEF vars, configVars, vaultVars
<1>7. ASSUME NEW w \in Workflows, NEW m \in Metas, NEW s \in Selectors,
             WorkflowReads(w, m, s)
      PROVE  UNCHANGED Grants!vars
  BY <1>1, <1>7 DEF WorkflowReads, configVars, vaultVars
<1>8. ASSUME NEW r \in readings, SubmitReport(r)
      PROVE  UNCHANGED Grants!vars
  BY <1>1, <1>8 DEF SubmitReport, configVars, vaultVars
<1>9. ASSUME DonTicks \/ BlockTicks
      PROVE  UNCHANGED Grants!vars
  BY <1>1, <1>9 DEF DonTicks, BlockTicks, configVars, vaultVars
<1>10. \A r \in signed : r.workflow \in Workflows /\ r.call \in Selectors
  BY DEF Reports
<1> HIDE DEF RouterTypeOK
<1> QED
  BY Zenon, <1>2, <1>3, <1>4, <1>5, <1>6, <1>7, <1>8, <1>9, <1>10 DEF Next, Grants!Next

\* A call reaches the vault only under a grant of the present registration: the
\* router with its generations implements the grants without them.
THEOREM RouterImplementsGrants == Spec => ImplementsGrants
<1>1. Init => Grants!Init /\ NoGrantsAhead
  BY RouterAssumption DEF Init, Grants!Init, NoGrantsAhead, Generations
<1>2. RouterTypeOK /\ RouterTypeOK' /\ NoGrantsAhead /\ [Next]_vars
        => NoGrantsAhead' /\ [Grants!Next]_(Grants!vars)
  BY NoGrantsAheadStep, GrantsStep
<1> QED
  BY <1>1, <1>2, RouterTyping, PTL DEF Spec, ImplementsGrants, Grants!Spec
=============================================================================
