------------------------ MODULE BlueGreenDeployProof ------------------------
(***************************************************************************)
(* What holds of every deployment, however many releases and proxy files.   *)
(*                                                                         *)
(* The invariant says which of the two releases of the record must be up in  *)
(* each phase, and that it is so in PM2's saved list too, since a reboot may *)
(* come at any point; and where the files and nginx may route meanwhile.    *)
(***************************************************************************)
EXTENDS BlueGreenDeploy, FiniteSetTheorems, TLAPS

\* A step of path p.
On(p, S) == at \in {At(p, s) : s \in S}

\* A release that runs and is in the saved list, with its VoiceHub.
Up(r) ==
  /\ r \in mains /\ r \in dump.mains
  /\ voice[r] \in voices /\ voice[r] \in dump.voices

Undone == state.phase \notin {"active", "draining"}

\* The phase of each path.
PathPhase ==
  /\ at[1] \in {"deploy"} /\ at[2] \in {"voice", "main", "save", "ready"}
       => state.phase = "preparing"
  /\ at[1] = "abort" => state.phase = "preparing"
  /\ at[1] = "deploy" /\ at[2] \notin {"voice", "main", "save", "ready"}
       => state.phase = "switching"
  /\ at[1] = "rollback" => state.phase = "switching"
  /\ at[1] = "recover" => Undone
  /\ at[1] = "retire" => state.phase = "draining"
  /\ at[1] \in {"web", "prune"} => state.phase = "active"

\* The two releases of the record, and nothing else, are run.
Pair ==
  /\ state.phase = "active" <=> Previous = Candidate
  /\ Previous # Candidate => port[Previous] # port[Candidate]
  /\ port[Previous] \in Ports /\ port[Candidate] \in Ports
  /\ mains \subseteq {Previous, Candidate}
  /\ dump.mains \subseteq {Previous, Candidate}

\* Who is up.
Kept ==
  /\ IF state.phase \in {"active", "draining"} THEN Up(Candidate) ELSE Up(Previous)
  /\ state.phase = "draining" /\ plan = "none" => Up(Previous)
  /\ On("retire", {"ask", "wait", "bot", "main", "voice", "mark", "save", "record"})
       => plan # "none"
  /\ at = At("deploy", "voice") => voice[Candidate] = Candidate
  /\ On("deploy", {"main", "save", "ready"}) => voice[Candidate] \in voices
  /\ On("deploy", {"save", "ready"}) => Candidate \in mains
  /\ On("deploy", {"ready", "files", "reload", "verify"}) => Up(Candidate)
  /\ \A f \in Files :
       Undone /\ port[Candidate] \in {conf[f], gen[f]} => Up(Candidate)

\* Who is gone.
Gone ==
  \A p \in Ends :
    /\ On(p, {"voice", "mark", "save", "record"}) => Leaves(p) \notin mains
    /\ at = At(p, "record") => Leaves(p) \notin dump.mains

\* Where the files and nginx route.
Routed ==
  \A f \in Files :
    /\ {conf[f], gen[f]} \subseteq {port[Previous], port[Candidate], "edited"}
    /\ state.phase = "preparing" => {conf[f], gen[f]} \subseteq {port[Previous], "edited"}
    /\ state.phase = "draining" => {conf[f], gen[f]} \subseteq {port[Candidate], "edited"}
    /\ at = At("deploy", "files") /\ f \notin todo => conf[f] \in {port[Candidate], "edited"}
    /\ On("deploy", {"reload", "verify"}) => conf[f] \in {port[Candidate], "edited"}
    /\ at = At("deploy", "verify") => gen[f] \in {port[Candidate], "edited"}
    /\ at = At("recover", "files") /\ f \notin todo => conf[f] \in {port[Previous], "edited"}
    /\ On("recover", {"reload", "wait", "main", "voice", "mark", "save", "record"})
         => conf[f] \in {port[Previous], "edited"}
    /\ On("recover", {"wait", "main", "voice", "mark", "save", "record"})
         => gen[f] \in {port[Previous], "edited"}

\* The server that is about to be stopped is out of use, and stays so, because
\* nginx does not route to it any more (or yet).
Quiet ==
  /\ state.phase = "preparing" \/ at = At("recover", "main") => IdleUpstream(Candidate)
  /\ On("retire", {"bot", "main"}) => IdleUpstream(Previous)

\* While the bot is away because the previous release sent it, the record of the
\* hand-over says so, and no run is past waiting for it.
HandOver ==
  /\ plan # "none" => state.phase = "draining"
  /\ asked \subseteq {Previous} /\ (asked # {} => plan # "none")
  /\ away => plan = "required" /\ bot = "off"
  /\ On("retire", {"main", "voice", "mark", "save", "record"}) => ~away

\* The one who works is the one the marker names.
OwnerWorks == working \subseteq {owner}

IInv == TypeOK /\ PathPhase /\ Pair /\ Kept /\ Gone /\ Routed /\ Quiet
        /\ HandOver /\ OwnerWorks

-------------------------------------------------------------------------------
\* Up to the switch the previous release is untouched; a file is moved only when
\* the candidate is up, and saved.
LEMMA DeploysKeep == IInv /\ Deploys => IInv'
<1> USE DeploymentAssumption DEF IInv, TypeOK, PathPhase, Pair, Kept, Gone, Routed,
      Quiet, HandOver, OwnerWorks,
      On, Up, Undone, At, Idle, Previous, Candidate, Leaves, Stays, IdleUpstream,
      Paths, Steps, Phases, Ends, files
<1>1. ASSUME IInv, NEW r \in Releases, NEW nv \in BOOLEAN, Begin(r, nv) PROVE IInv'
  <2> USE DEF Begin, Proceed, Fresh, routing, processes, chat
  <2>1. TypeOK'
    BY <1>1, SMTT(30)
  <2>2. PathPhase' /\ Pair'
    BY <1>1, SMTT(30)
  <2>3. Kept'
    BY <1>1, SMTT(30)
  <2>4. Gone' /\ Routed'
    BY <1>1, SMTT(30)
  <2>5. Quiet' /\ HandOver' /\ OwnerWorks'
    BY <1>1, SMTT(30)
  <2> QED BY <2>1, <2>2, <2>3, <2>4, <2>5
<1>2. ASSUME IInv, StartVoice PROVE IInv'
  BY <1>2, SMTT(30) DEF StartVoice, Proceed, records, routing, pages, chat
<1>3. ASSUME IInv, StartMain PROVE IInv'
  BY <1>3, SMTT(30) DEF StartMain, Proceed, records, routing, pages, chat
<1>4. ASSUME IInv, SaveStarted PROVE IInv'
  BY <1>4, SMTT(30) DEF SaveStarted, Proceed, SaveList, records, routing, pages,
     chat
<1>5. ASSUME IInv, Ready PROVE IInv'
  BY <1>5, SMTT(30) DEF Ready, Proceed, InPhase, world, records, routing, processes,
     pages, chat
<1>6. ASSUME IInv, NEW f \in Files, ReplaceFile(f, "deploy") PROVE IInv'
  BY <1>6, SMTT(30) DEF ReplaceFile, records, processes, pages, chat
<1>7. ASSUME IInv, PublishPage PROVE IInv'
  BY <1>7, SMTT(30) DEF PublishPage, Proceed, records, routing, processes, chat
<1>8. ASSUME IInv, Reload PROVE IInv'
  BY <1>8, SMTT(30) DEF Reload, Proceed, records, processes, pages, chat
<1>9. ASSUME IInv, Verify PROVE IInv'
  BY <1>9, SMTT(30) DEF Verify, Proceed, InPhase, world, records, routing,
     processes, pages, chat
<1>10. ASSUME IInv, Abort PROVE IInv'
  BY <1>10, SMTT(30) DEF Abort, Goto, world, records, routing, processes, pages,
     chat
<1>11. ASSUME IInv, Rollback PROVE IInv'
  BY <1>11, SMTT(30) DEF Rollback, Goto, world, records, routing, processes, pages,
     chat
<1>12. ASSUME IInv, NEW f \in Files, CompareFile(f, "deploy") PROVE IInv'
  BY <1>12, SMTT(30) DEF CompareFile, world, records, routing, processes, pages, chat
<1> HIDE DEF IInv
<1> QED BY <1>1, <1>2, <1>3, <1>4, <1>5, <1>6, <1>7, <1>8, <1>9, <1>10, <1>11, <1>12
        DEF Deploys

\* On the way back the previous release is still up, and when nginx is reloaded the
\* candidate is no longer routed to.
LEMMA GoesBackKeep == IInv /\ GoesBack => IInv'
<1> USE DeploymentAssumption DEF IInv, TypeOK, PathPhase, Pair, Kept, Gone, Routed,
      Quiet, HandOver, OwnerWorks,
      On, Up, Undone, At, Idle, Previous, Candidate, Leaves, Stays, IdleUpstream,
      Paths, Steps, Phases, Ends, files
<1>1. ASSUME IInv, Recover PROVE IInv'
  BY <1>1, SMTT(30) DEF Recover, Proceed, world, records, routing, processes, pages,
     chat
<1>2. ASSUME IInv, NEW p \in Back, Validate(p) PROVE IInv'
  BY <1>2, SMTT(30) DEF Validate, BackAt, Goto, world, Back, records, routing,
     processes, pages, chat
<1>3. ASSUME IInv, NEW p \in Back, NEW f \in Files, ReplaceFile(f, p) PROVE IInv'
  BY <1>3, SMTT(30) DEF ReplaceFile, records, processes, pages, chat, Back
<1>4. ASSUME IInv, NEW p \in Back, RestorePage(p) PROVE IInv'
  BY <1>4, SMTT(30) DEF RestorePage, BackAt, Goto, records, routing, processes,
     chat, Back
<1>5. ASSUME IInv, NEW p \in Back, ReloadBack(p) PROVE IInv'
  <2> USE DEF ReloadBack, BackAt, Goto, records, processes, pages, chat, Back
  <2>1. TypeOK'
    BY <1>5, SMTT(30)
  <2>2. PathPhase' /\ Pair'
    BY <1>5, SMTT(30)
  <2>3. Kept'
    BY <1>5, SMTT(30)
  <2>4. Gone' /\ Routed'
    BY <1>5, SMTT(30)
  <2>5. Quiet' /\ HandOver' /\ OwnerWorks'
    BY <1>5, SMTT(30)
  <2> QED BY <2>1, <2>2, <2>3, <2>4, <2>5
<1>6. ASSUME IInv, RecordRollback PROVE IInv'
  BY <1>6, SMTT(30) DEF RecordRollback, Proceed, InPhase, world, records, routing,
     processes, pages, chat
<1>7. ASSUME IInv, RollbackFails PROVE IInv'
  BY <1>7, SMTT(30) DEF RollbackFails, Goto, world, records, routing, processes,
     pages, chat
<1>8. ASSUME IInv, RecordFailure PROVE IInv'
  BY <1>8, SMTT(30) DEF RecordFailure, Proceed, InPhase, world, records, routing,
     processes, pages, chat
<1>9. ASSUME IInv, Drained PROVE IInv'
  BY <1>9, SMTT(30) DEF Drained, Proceed, world, records, routing, processes, pages,
     chat
<1>10. ASSUME IInv, NEW p \in Back, NEW f \in Files, CompareFile(f, p) \/ SkipFile(p, f)
       PROVE IInv'
  BY <1>10, SMTT(30) DEF CompareFile, SkipFile, BackAt, world, records, routing, processes,
     pages, chat, Back
<1> HIDE DEF IInv
<1> QED BY <1>1, <1>2, <1>3, <1>4, <1>5, <1>6, <1>7, <1>8, <1>9, <1>10 DEF GoesBack

\* A run that retires the previous release passes each point only if nothing uses it
\* and the bot is where the hand-over record wants it.
LEMMA RetiresKeep == IInv /\ Retires => IInv'
<1> USE DeploymentAssumption DEF IInv, TypeOK, PathPhase, Pair, Kept, Gone, Routed,
      Quiet, HandOver, OwnerWorks,
      On, Up, Undone, At, Idle, Previous, Candidate, Leaves, Stays, IdleUpstream,
      Paths, Steps, Phases, Ends, files
<1>1. ASSUME IInv, Resume PROVE IInv'
  BY <1>1, SMTT(30) DEF Resume, Proceed, world, records, routing, processes, pages,
     chat
<1>2. ASSUME IInv, CheckRoutes PROVE IInv'
  BY <1>2, SMTT(30) DEF CheckRoutes, Proceed, RoutesAreCandidates, world, records,
     routing, processes, pages, chat
<1>3. ASSUME IInv, Plan PROVE IInv'
  BY <1>3, SMTT(30) DEF Plan, Proceed, records, routing, processes, pages
<1>4. ASSUME IInv, Ask PROVE IInv'
  BY <1>4, SMTT(30) DEF Ask, Proceed, records, routing, processes, pages
<1>5. ASSUME IInv, AwaitIdle PROVE IInv'
  BY <1>5, SMTT(30) DEF AwaitIdle, Proceed, RoutesAreCandidates, world, records,
     routing, processes, pages, chat
<1>6. ASSUME IInv, AwaitBot PROVE IInv'
  BY <1>6, SMTT(30) DEF AwaitBot, Proceed, world, records, routing, processes,
     pages, chat
<1> HIDE DEF IInv
<1> QED BY <1>1, <1>2, <1>3, <1>4, <1>5, <1>6 DEF Retires

\* What is stopped here is routed to by neither the files nor nginx, and the record
\* changes when the saved list has already forgotten it.
LEMMA FinishesKeep == IInv /\ Finishes => IInv'
<1> USE DeploymentAssumption DEF IInv, TypeOK, PathPhase, Pair, Kept, Gone, Routed,
      Quiet, HandOver, OwnerWorks,
      On, Up, Undone, At, Idle, Previous, Candidate, Leaves, Stays, IdleUpstream,
      Paths, Steps, Phases, Ends, files
<1>1. ASSUME IInv, NEW p \in Ends, EndMain(p) PROVE IInv'
  <2> USE DEF EndMain, EndAt, RemoveMain, Goto, records, routing, pages
  <2>1. TypeOK'
    BY <1>1, SMTT(30)
  <2>2. PathPhase' /\ Pair'
    BY <1>1, SMTT(30)
  <2>3. Kept'
    BY <1>1, SMTT(30)
  <2>4. Gone' /\ Routed'
    BY <1>1, SMTT(30)
  <2>5. Quiet' /\ HandOver' /\ OwnerWorks'
    BY <1>1, SMTT(30)
  <2> QED BY <2>1, <2>2, <2>3, <2>4, <2>5
<1>2. ASSUME IInv, NEW p \in Ends, EndVoice(p) PROVE IInv'
  BY <1>2, SMTT(30) DEF EndVoice, EndAt, RemoveVoice, processes, chat, Goto,
     records, routing, pages
<1>3. ASSUME IInv, NEW p \in Ends, Activate(p) PROVE IInv'
  BY <1>3, SMTT(30) DEF Activate, EndAt, Goto, records, routing, processes, pages,
     chat
<1>4. ASSUME IInv, NEW p \in Ends, EndSave(p) PROVE IInv'
  <2> USE DEF EndSave, EndAt, SaveList, Goto, records, routing, pages, chat
  <2>1. TypeOK'
    BY <1>4, SMTT(30)
  <2>2. PathPhase' /\ Pair'
    BY <1>4, SMTT(30)
  <2>3. Kept'
    BY <1>4, SMTT(30)
  <2>4. Gone' /\ Routed'
    BY <1>4, SMTT(30)
  <2>5. Quiet' /\ HandOver' /\ OwnerWorks'
    BY <1>4, SMTT(30)
  <2> QED BY <2>1, <2>2, <2>3, <2>4, <2>5
<1>5. ASSUME IInv, NEW p \in Ends, Record(p) PROVE IInv'
  <2> USE DEF Record, EndAt, Active, Forget, routing, processes
  <2>1. TypeOK'
    BY <1>5, SMTT(30)
  <2>2. PathPhase' /\ Pair'
    BY <1>5, SMTT(30)
  <2>3. Kept'
    <3>1. Up(Stays(p))
      BY <1>5
    <3>2. /\ state'.phase = "active" /\ Candidate' = Stays(p)
          /\ voice'[Stays(p)] = voice[Stays(p)]
      BY <1>5
    <3>3. Up(Candidate)'
      BY <1>5, <3>1, <3>2
    <3> QED BY <1>5, <3>2, <3>3
  <2>4. Gone' /\ Routed'
    BY <1>5, SMTT(30)
  <2>5. Quiet' /\ HandOver' /\ OwnerWorks'
    BY <1>5, SMTT(30)
  <2> QED BY <2>1, <2>2, <2>3, <2>4, <2>5
<1>6. ASSUME IInv, Prune PROVE IInv'
  BY <1>6, SMTT(30) DEF Prune, Proceed, routing, processes, pages, chat
<1> HIDE DEF IInv
<1> QED BY <1>1, <1>2, <1>3, <1>4, <1>5, <1>6 DEF Finishes

\* Neither processes nor routes are touched.
LEMMA UpdatesPageKeep == IInv /\ UpdatesPage => IInv'
<1> USE DeploymentAssumption DEF IInv, TypeOK, PathPhase, Pair, Kept, Gone, Routed,
      Quiet, HandOver, OwnerWorks,
      On, Up, Undone, At, Idle, Previous, Candidate, Leaves, Stays, IdleUpstream,
      Paths, Steps, Phases, Ends, files
<1>1. ASSUME IInv, BeginWeb PROVE IInv'
  BY <1>1, SMTT(30) DEF BeginWeb, Proceed, records, routing, processes, chat
<1>2. ASSUME IInv, KeepWeb PROVE IInv'
  BY <1>2, SMTT(30) DEF KeepWeb, Proceed, world, records, routing, processes, pages,
     chat
<1>3. ASSUME IInv, UndoWeb PROVE IInv'
  BY <1>3, SMTT(30) DEF UndoWeb, Proceed, records, routing, processes, chat
<1> HIDE DEF IInv
<1> QED BY <1>1, <1>2, <1>3 DEF UpdatesPage

\* A connection reaches only what nginx routes to, and workers start only at the
\* owner.
LEMMA SurroundingsKeep == IInv /\ Surroundings => IInv'
<1> USE DeploymentAssumption DEF IInv, TypeOK, PathPhase, Pair, Kept, Gone, Routed,
      Quiet, HandOver, OwnerWorks,
      On, Up, Undone, At, Idle, Previous, Candidate, Leaves, Stays, IdleUpstream,
      Paths, Steps, Phases, Ends, files
<1>1. ASSUME IInv, NEW f \in Files, NEW r \in Releases, Request(f, r) PROVE IInv'
  BY <1>1, SMTT(30) DEF Request, Reaches, deployer, routing, processes, chat,
     records, pages
<1>2. ASSUME IInv, NEW f \in Files, NEW r \in Releases, BotKnocks(f, r) PROVE IInv'
  <2> USE DEF BotKnocks, Reaches, deployer, routing, processes, records, pages
  <2>1. TypeOK'
    <3>1. {bot', knocking'} \subseteq mains' \cup {"off"}
      BY <1>2 DEF TypeOK
    <3> QED BY <1>2, <3>1
  <2>2. PathPhase' /\ Pair'
    BY <1>2, SMTT(30)
  <2>3. Kept'
    BY <1>2, SMTT(30)
  <2>4. Gone' /\ Routed'
    BY <1>2, SMTT(30)
  <2>5. Quiet' /\ HandOver' /\ OwnerWorks'
    BY <1>2, SMTT(30)
  <2> QED BY <2>1, <2>2, <2>3, <2>4, <2>5
<1>3. ASSUME IInv, NEW r \in Releases, Respond(r) PROVE IInv'
  BY <1>3, SMTT(30) DEF Respond, deployer, routing, processes, chat, records, pages
<1>4. ASSUME IInv, NEW r \in Releases, SendAway(r) PROVE IInv'
  <2> USE DEF SendAway, deployer, routing, processes, records, pages
  <2>1. TypeOK'
    <3>1. {bot', knocking'} \subseteq mains' \cup {"off"}
      BY <1>4 DEF TypeOK
    <3> QED BY <1>4, <3>1
  <2>2. PathPhase' /\ Pair'
    BY <1>4, SMTT(30)
  <2>3. Kept'
    BY <1>4, SMTT(30)
  <2>4. Gone' /\ Routed'
    BY <1>4, SMTT(30)
  <2>5. Quiet' /\ HandOver' /\ OwnerWorks'
    BY <1>4, SMTT(30)
  <2> QED BY <2>1, <2>2, <2>3, <2>4, <2>5
<1>5. ASSUME IInv, NEW r \in Releases, StartWork(r) PROVE IInv'
  BY <1>5, SMTT(30) DEF StartWork, deployer, routing, chat, records, pages
<1>6. ASSUME IInv, BotLeaves PROVE IInv'
  BY <1>6, SMTT(30) DEF BotLeaves, deployer, routing, processes, records, pages
<1>7. ASSUME IInv, BotJoins PROVE IInv'
  <2> USE DEF BotJoins, deployer, routing, processes, records, pages
  <2>1. TypeOK'
    <3>1. {bot', knocking'} \subseteq mains' \cup {"off"}
      BY <1>7 DEF TypeOK
    <3> QED BY <1>7, <3>1
  <2>2. PathPhase' /\ Pair'
    BY <1>7, SMTT(30)
  <2>3. Kept'
    BY <1>7, SMTT(30)
  <2>4. Gone' /\ Routed'
    BY <1>7, SMTT(30)
  <2>5. Quiet' /\ HandOver' /\ OwnerWorks'
    BY <1>7, SMTT(30)
  <2> QED BY <2>1, <2>2, <2>3, <2>4, <2>5
<1> HIDE DEF IInv
<1> QED BY <1>1, <1>2, <1>3, <1>4, <1>5, <1>6, <1>7 DEF Surroundings

\* Whatever the next run needs is in the record already.
LEMMA StopKeeps == IInv /\ Stop => IInv'
<1> USE DeploymentAssumption DEF IInv, TypeOK, PathPhase, Pair, Kept, Gone, Routed,
      Quiet, HandOver, OwnerWorks,
      On, Up, Undone, At, Idle, Previous, Candidate, Leaves, Stays, IdleUpstream,
      Paths, Steps, Phases, Ends, files
<1>1. ASSUME IInv, Stop PROVE IInv'
  BY <1>1, SMTT(30) DEF Stop, world, records, routing, processes, pages, chat
<1> HIDE DEF IInv
<1> QED BY <1>1

\* An edit takes a file out of every route the invariant speaks of.
LEMMA EditKeeps == IInv /\ (\E f \in Files : Edit(f)) => IInv'
<1> USE DeploymentAssumption DEF IInv, TypeOK, PathPhase, Pair, Kept, Gone, Routed,
      Quiet, HandOver, OwnerWorks,
      On, Up, Undone, At, Idle, Previous, Candidate, Leaves, Stays, IdleUpstream,
      Paths, Steps, Phases, Ends, files
<1>1. ASSUME IInv, NEW f \in Files, Edit(f) PROVE IInv'
  BY <1>1, SMTT(30) DEF Edit, deployer, processes, chat, records, pages
<1> HIDE DEF IInv
<1> QED BY <1>1

\* The processes come back from the saved list and nginx from its files: this is why
\* the invariant speaks of both.
LEMMA RebootKeeps == IInv /\ Reboot => IInv'
<1> USE DeploymentAssumption DEF IInv, TypeOK, PathPhase, Pair, Kept, Gone, Routed,
      Quiet, HandOver, OwnerWorks,
      On, Up, Undone, At, Idle, Previous, Candidate, Leaves, Stays, IdleUpstream,
      Paths, Steps, Phases, Ends, files
<1>1. ASSUME IInv, Reboot PROVE IInv'
  <2> USE DEF Reboot, records, pages
  <2>1. TypeOK'
    BY <1>1, SMTT(30)
  <2>2. PathPhase' /\ Pair'
    BY <1>1, SMTT(30)
  <2>3. Kept'
    BY <1>1, SMTT(30)
  <2>4. Gone' /\ Routed'
    BY <1>1, SMTT(30)
  <2>5. Quiet' /\ HandOver' /\ OwnerWorks'
    BY <1>1, SMTT(30)
  <2> QED BY <2>1, <2>2, <2>3, <2>4, <2>5
<1> HIDE DEF IInv
<1> QED BY <1>1

\* A world in which nothing moves.
LEMMA StutterKeeps == IInv /\ UNCHANGED vars => IInv'
<1> SUFFICES ASSUME IInv, UNCHANGED vars PROVE IInv'
  OBVIOUS
<1> USE DEF IInv, vars, On, Up, Undone, Previous, Candidate, Leaves, Stays, IdleUpstream
<1>1. TypeOK' /\ PathPhase' /\ Pair' /\ OwnerWorks'
  BY DEF TypeOK, PathPhase, Pair, OwnerWorks
<1>2. Kept' /\ Gone'
  BY DEF Kept, Gone
<1>3. Routed' /\ Quiet' /\ HandOver'
  BY DEF Routed, Quiet, HandOver
<1> QED BY <1>1, <1>2, <1>3

LEMMA InvInit == Init => IInv
<1> SUFFICES ASSUME Init PROVE IInv
  OBVIOUS
<1> USE DeploymentAssumption DEF Init, Active, Idle, At, On, Up, Undone, Previous, Candidate
<1>1. TypeOK /\ OwnerWorks
  <2>1. PICK p \in Ports : /\ port = [r \in Releases |-> IF r = Initial THEN p ELSE "none"]
                           /\ conf = [f \in Files |-> p]
    OBVIOUS
  <2>2. /\ state \in [phase : Phases, previous : Releases, candidate : Releases]
        /\ dump \in [mains : SUBSET Releases, voices : SUBSET Releases]
        /\ at \in Paths \X Steps
    BY DEF Phases, Paths, Steps
  <2>3. /\ port \in [Releases -> Ports \cup {"none"}] /\ voice \in [Releases -> Releases]
        /\ conf \in [Files -> Ports \cup {"edited"}]
    BY <2>1
  <2>4. {bot, knocking} \subseteq mains \cup {"off"} /\ away \in BOOLEAN
    OBVIOUS
  <2>5. /\ mains \subseteq Releases /\ voices \subseteq Releases /\ dirs \subseteq Releases
        /\ page \in Releases /\ before \in Releases /\ owner \in Releases
        /\ working \subseteq mains /\ busy \subseteq mains /\ closing \subseteq mains
        /\ plan = "none" /\ asked \subseteq Releases
        /\ todo \subseteq Files /\ compared \subseteq todo /\ unseen \subseteq compared
    OBVIOUS
  <2>6. gen \in [Files -> Ports \cup {"edited"}] /\ working \subseteq {owner}
    BY <2>3
  <2> QED BY <2>2, <2>3, <2>4, <2>5, <2>6 DEF TypeOK, OwnerWorks
<1>2. PathPhase /\ Pair
  BY DEF PathPhase, Pair
<1>3. Kept /\ Gone
  BY DEF Kept, Gone, Ends
<1>4. Routed /\ Quiet /\ HandOver
  BY DEF Routed, Quiet, HandOver
<1> QED BY <1>1, <1>2, <1>3, <1>4 DEF IInv

LEMMA InvNext == IInv /\ [Next]_vars => IInv'
BY DeploysKeep, GoesBackKeep, RetiresKeep, FinishesKeep, UpdatesPageKeep,
   SurroundingsKeep, StopKeeps, EditKeeps, RebootKeeps, StutterKeeps DEF Next

THEOREM Invariant == Spec => []IInv
BY InvInit, InvNext, PTL DEF Spec

-------------------------------------------------------------------------------
\* The deployer, nginx, PM2 and the bot keep to the types of their state.
THEOREM TypeCorrect == Spec => []TypeOK
<1>1. IInv => TypeOK
  BY DEF IInv
<1> QED BY <1>1, Invariant, PTL

\* Two instances run side by side during a deployment, and yet at most one does the
\* background work: the marker moves only when its former owner is gone.
THEOREM OneWorkerOnly == Spec => []OneWorker
<1>1. IInv => OneWorker
  <2> SUFFICES ASSUME IInv PROVE Cardinality(working) <= 1
    BY DEF OneWorker
  <2>1. working \subseteq {owner}
    BY DEF IInv, OwnerWorks
  <2>2. IsFiniteSet({owner}) /\ Cardinality({owner}) = 1
    BY FS_Singleton
  <2>3. Cardinality(working) <= Cardinality({owner})
    BY <2>1, <2>2, FS_Subset
  <2> QED BY <2>2, <2>3
<1> QED BY <1>1, Invariant, PTL

\* nginx always routes to a server that runs, through failures, kills and reboots.
THEOREM TrafficAlwaysServed == Spec => []TrafficIsServed
<1>1. IInv => TrafficIsServed
  <2> SUFFICES ASSUME IInv, NEW f \in Files, gen[f] # "edited"
               PROVE  \E r \in mains : port[r] = gen[f] /\ voice[r] \in voices
    BY DEF TrafficIsServed
  <2>1. gen[f] \in {port[Previous], port[Candidate]}
    BY DEF IInv, Routed
  <2>2. CASE state.phase \in {"active", "draining"}
    BY <2>1, <2>2 DEF IInv, Routed, Kept, Pair, Up
  <2>3. CASE state.phase \notin {"active", "draining"}
    <3>1. Up(Previous)
      BY <2>3 DEF IInv, Kept
    <3>2. gen[f] = port[Candidate] => Up(Candidate)
      BY <2>3 DEF IInv, Kept, Undone
    <3> QED BY <2>1, <3>1, <3>2 DEF Up
  <2> QED BY <2>2, <2>3
<1> QED BY <1>1, Invariant, PTL

\* A deployment that was left in the middle can always be completed or undone.
THEOREM RecoveryAlwaysPossible == Spec => []RecoveryIsPossible
<1>1. IInv => RecoveryIsPossible
  BY DEF IInv, Kept, Routed, Up, RecoveryIsPossible
<1> QED BY <1>1, Invariant, PTL

\* The one step of the deployer that stops a server; a reboot ends its run.
LEMMA OnlyEndMainStops ==
  ASSUME Next, NEW r \in mains \ mains', at # Idle, at' # Idle
  PROVE  \E p \in Ends : EndMain(p)
<1> USE DEF world, records, routing, processes, pages, chat, files, deployer, SaveList
<1>1. CASE Deploys
  BY <1>1 DEF Deploys, Begin, StartVoice, StartMain, SaveStarted, Ready, CompareFile,
     ReplaceFile, PublishPage, Reload, Verify, Abort, Rollback
<1>2. CASE GoesBack
  BY <1>2 DEF GoesBack, Recover, Validate, CompareFile, ReplaceFile, SkipFile,
     RestorePage, ReloadBack, RecordRollback, RollbackFails, RecordFailure, Drained
<1>3. CASE Retires
  BY <1>3 DEF Retires, Resume, CheckRoutes, Plan, Ask, AwaitIdle, AwaitBot
<1>4. CASE Finishes
  BY <1>4 DEF Finishes, EndVoice, RemoveVoice, Activate, EndSave, Record, Prune
<1>5. CASE UpdatesPage \/ Stop
  BY <1>5 DEF UpdatesPage, BeginWeb, KeepWeb, UndoWeb, Stop
<1>6. CASE Surroundings
  BY <1>6 DEF Surroundings, Request, BotKnocks, BotJoins, Respond, SendAway,
     StartWork, BotLeaves
<1>7. CASE \E f \in Files : Edit(f)
  BY <1>7 DEF Edit
<1>8. CASE Reboot
  BY <1>8 DEF Reboot
<1> QED BY <1>1, <1>2, <1>3, <1>4, <1>5, <1>6, <1>7, <1>8 DEF Next

\* What the deployer stops nothing is connected to.
THEOREM NoConnectionIsCut == Spec => ConnectionsAreNotCut
<1>1. IInv /\ [Next]_vars =>
        [\A r \in mains \ mains' : at # Idle /\ at' # Idle =>
           r \notin busy /\ r \notin {bot, knocking}]_vars
  <2> SUFFICES ASSUME IInv, Next, NEW r \in mains \ mains', at # Idle, at' # Idle
               PROVE  r \notin busy /\ r \notin {bot, knocking}
    BY DEF vars
  <2>1. PICK p \in Ends : EndMain(p)
    BY OnlyEndMainStops
  <2>2. r = Leaves(p)
    BY <2>1 DEF EndMain, RemoveMain
  <2>3. at = At(p, "main") /\ (p = "abort" => state.phase = "preparing")
    BY <2>1 DEF EndMain, EndAt, IInv, PathPhase, At
  <2>4. IdleUpstream(r)
    BY <2>1, <2>2, <2>3 DEF Ends, IInv, Quiet, On, Leaves
  <2> QED BY <2>4 DEF IdleUpstream
<1> QED BY <1>1, Invariant, PTL DEF Spec, ConnectionsAreNotCut

\* A server that sent the bot away is stopped only when the bot has come back.
THEOREM BotAlwaysHandedOver == Spec => BotIsHandedOver
<1>1. IInv /\ [Next]_vars =>
        [\A r \in mains \ mains' : at # Idle /\ at' # Idle /\ r \in asked => ~away]_vars
  <2> SUFFICES ASSUME IInv, Next, NEW r \in mains \ mains', at # Idle, at' # Idle, r \in asked
               PROVE  ~away
    BY DEF vars
  <2>1. PICK p \in Ends : EndMain(p)
    BY OnlyEndMainStops
  <2>2. at = At(p, "main") /\ state.phase = "draining"
    BY <2>1 DEF EndMain, EndAt, IInv, HandOver
  <2>3. p = "retire"
    BY <2>2 DEF Ends, IInv, PathPhase, Undone, At
  <2> QED BY <2>2, <2>3 DEF IInv, HandOver, On
<1> QED BY <1>1, Invariant, PTL DEF Spec, BotIsHandedOver

\* A file that is about to be replaced is as it was when it was compared, or has been
\* edited since.
Noted == \A f \in compared : conf[f] = "edited" => f \in unseen

\* Who touches a file, or the deployer's notion of it.
LEMMA FilesMove ==
  ASSUME Next
  PROVE  \/ UNCHANGED <<conf, compared, unseen>>
         \/ conf' = conf /\ compared' = {}
         \/ \E f \in Files : \/ Edit(f)
                            \/ \E path \in Back \cup {"deploy"} :
                                 CompareFile(f, path) \/ ReplaceFile(f, path)
<1> USE DEF world, records, routing, processes, pages, chat, files, deployer
<1>1. CASE Deploys
  BY <1>1 DEF Deploys, Begin, StartVoice, StartMain, SaveStarted, Ready,
     PublishPage, Reload, Verify, Abort, Rollback
<1>2. CASE GoesBack
  BY <1>2 DEF GoesBack, Recover, Validate, SkipFile, RestorePage, ReloadBack,
     RecordRollback, RollbackFails, RecordFailure, Drained
<1>3. CASE Retires
  BY <1>3 DEF Retires, Resume, CheckRoutes, Plan, Ask, AwaitIdle, AwaitBot
<1>4. CASE Finishes
  BY <1>4 DEF Finishes, EndMain, EndVoice, Activate, EndSave, Record, Prune
<1>5. CASE UpdatesPage \/ Stop
  BY <1>5 DEF UpdatesPage, BeginWeb, KeepWeb, UndoWeb, Stop
<1>6. CASE Surroundings
  BY <1>6 DEF Surroundings, Request, BotKnocks, BotJoins, Respond, SendAway,
     StartWork, BotLeaves
<1>7. CASE Reboot
  BY <1>7 DEF Reboot
<1> QED BY <1>1, <1>2, <1>3, <1>4, <1>5, <1>6, <1>7 DEF Next

LEMMA NotedNext == IInv /\ Noted /\ [Next]_vars => Noted'
<1> SUFFICES ASSUME IInv, Noted, [Next]_vars PROVE Noted'
  OBVIOUS
<1>1. {port[Previous], port[Candidate]} \subseteq Ports /\ "edited" \notin Ports
  BY DeploymentAssumption DEF IInv, Pair
<1>2. CASE UNCHANGED <<conf, compared, unseen>> \/ (conf' = conf /\ compared' = {})
  BY <1>2 DEF Noted
<1>3. ASSUME NEW f \in Files, Edit(f) PROVE Noted'
  BY <1>3 DEF Edit, Noted, IInv, TypeOK
<1>4. ASSUME NEW f \in Files, NEW path, CompareFile(f, path) PROVE Noted'
  BY <1>1, <1>4 DEF CompareFile, Noted, world, routing
<1>5. ASSUME NEW f \in Files, NEW path, ReplaceFile(f, path) PROVE Noted'
  BY <1>5 DEF ReplaceFile, Noted
<1>6. CASE UNCHANGED vars
  BY <1>6, <1>2 DEF vars
<1> QED BY <1>2, <1>3, <1>4, <1>5, <1>6, FilesMove

\* An edit is lost only between the comparison of its file and the replacement.
THEOREM SeenEditsAlwaysSurvive == Spec => SeenEditsSurvive
<1>1. Init => Noted
  BY DEF Init, Noted
<1>2. IInv /\ Noted /\ [Next]_vars =>
        [\A f \in Files : conf[f] = "edited" /\ f \notin unseen => conf'[f] = "edited"]_vars
  <2> SUFFICES ASSUME IInv, Noted, Next, NEW f \in Files, conf[f] = "edited", f \notin unseen
               PROVE  conf'[f] = "edited"
    BY DEF vars
  <2>1. CASE conf' = conf
    BY <2>1
  <2>2. ASSUME NEW g \in Files, NEW path, ReplaceFile(g, path) PROVE conf'[f] = "edited"
    BY <2>2 DEF ReplaceFile, Noted, IInv, TypeOK
  <2>3. ASSUME NEW g \in Files, Edit(g) PROVE conf'[f] = "edited"
    BY <2>3 DEF Edit, IInv, TypeOK
  <2>4. ASSUME NEW g \in Files, NEW path, CompareFile(g, path) PROVE conf' = conf
    BY <2>4 DEF CompareFile, world, routing
  <2> QED BY <2>1, <2>2, <2>3, <2>4, FilesMove
<1> QED BY <1>1, <1>2, NotedNext, Invariant, PTL DEF Spec, SeenEditsSurvive

-------------------------------------------------------------------------------
(* What a finished deployment leaves behind.                                *)

\* The VoiceHub processes, and those that a reboot would bring back, are the two
\* releases'; when one release goes, so does its own.
VoicesKept ==
  /\ voices \cup dump.voices \subseteq {voice[Previous], voice[Candidate]}
  /\ \A p \in Ends :
       /\ On(p, {"mark", "save", "record"}) => voices \subseteq {voice[Stays(p)]}
       /\ at = At(p, "record") => dump.voices \subseteq {voice[Stays(p)]}

\* Whatever may run has its directory.
DirsKept == {Previous, Candidate, voice[Previous], voice[Candidate]} \subseteq dirs

\* Which page is served, and which one the way back would restore.
PagesKept ==
  /\ before \in {Previous, "web"}
  /\ state.phase = "active" => page \in {Candidate, "web"}
  /\ state.phase = "preparing" => page \in {Previous, "web"}
  /\ state.phase = "draining" => page = Candidate
  /\ On("deploy", {"reload", "verify"}) => page = Candidate
  /\ On("recover", {"reload", "wait", "main", "voice", "mark", "save", "record"})
       => page \in {Previous, "web"}

Left == VoicesKept /\ DirsKept /\ PagesKept

\* Processes, directories and pages change at few steps, and each leaves what the
\* next one, or the next run, relies on.
LEMMA LeftNext == IInv /\ Left /\ Next => Left'
<1> USE DeploymentAssumption DEF Left, VoicesKept, DirsKept, PagesKept, IInv, TypeOK,
      PathPhase, Pair, Kept, Gone, On, Up, Undone, At, Idle, Previous, Candidate,
      Leaves, Stays, Ends, Back, BackAt, EndAt, Proceed, Goto, world, records, routing,
      processes, pages, chat, files, deployer
<1>1. ASSUME IInv, Left, Deploys PROVE Left'
  <2>1. ASSUME NEW r \in Releases, NEW nv \in BOOLEAN, Begin(r, nv) PROVE Left'
    BY <1>1, <2>1, SMTT(30) DEF Begin, Fresh
  <2>2. CASE StartVoice \/ StartMain \/ SaveStarted
    BY <1>1, <2>2, SMTT(30) DEF StartVoice, StartMain, SaveStarted, SaveList
  <2>3. CASE Ready \/ Verify
    BY <1>1, <2>3, SMTT(30) DEF Ready, Verify, InPhase
  <2>4. CASE PublishPage \/ Reload
    BY <1>1, <2>4, SMTT(30) DEF PublishPage, Reload
  <2>5. CASE \/ \E f \in Files : CompareFile(f, "deploy") \/ ReplaceFile(f, "deploy")
             \/ Abort \/ Rollback
    BY <1>1, <2>5, SMTT(30) DEF CompareFile, ReplaceFile, Abort, Rollback
  <2>6. QED
    BY <1>1, <2>1, <2>2, <2>3, <2>4, <2>5 DEF Deploys
<1>2. ASSUME IInv, Left, GoesBack PROVE Left'
  <2>1. CASE Recover \/ Drained \/ RollbackFails
    BY <1>2, <2>1, SMTT(30) DEF Recover, Drained, RollbackFails
  <2>2. CASE RecordRollback \/ RecordFailure
    BY <1>2, <2>2, SMTT(30) DEF RecordRollback, RecordFailure, InPhase
  <2>3. ASSUME NEW p \in Back,
               \/ Validate(p)
               \/ \E f \in Files : CompareFile(f, p) \/ ReplaceFile(f, p) \/ SkipFile(p, f)
        PROVE  Left'
    BY <1>2, <2>3, SMTT(30) DEF Validate, CompareFile, ReplaceFile, SkipFile
  <2>4. ASSUME NEW p \in Back, RestorePage(p) \/ ReloadBack(p) PROVE Left'
    BY <1>2, <2>4, SMTT(30) DEF RestorePage, ReloadBack
  <2>5. QED
    BY <1>2, <2>1, <2>2, <2>3, <2>4 DEF GoesBack
<1>3. ASSUME IInv, Left, Retires PROVE Left'
  BY <1>3, SMTT(30) DEF Retires, Resume, CheckRoutes, Plan, Ask, AwaitIdle, AwaitBot
<1>4. ASSUME IInv, Left, Finishes PROVE Left'
  <2>1. ASSUME NEW p \in Ends, EndMain(p) PROVE Left'
    BY <1>4, <2>1, SMTT(30) DEF EndMain, RemoveMain
  <2>2. ASSUME NEW p \in Ends, EndVoice(p) PROVE Left'
    BY <1>4, <2>2, SMTT(30) DEF EndVoice, RemoveVoice
  <2>3. ASSUME NEW p \in Ends, Activate(p) \/ EndSave(p) PROVE Left'
    BY <1>4, <2>3, SMTT(30) DEF Activate, EndSave, SaveList
  <2>4. ASSUME NEW p \in Ends, Record(p) PROVE Left'
    BY <1>4, <2>4, SMTT(30) DEF Record, Active, Forget
  <2>5. CASE Prune
    BY <1>4, <2>5, SMTT(30) DEF Prune
  <2>6. QED
    BY <1>4, <2>1, <2>2, <2>3, <2>4, <2>5 DEF Finishes
<1>5. ASSUME IInv, Left, UpdatesPage PROVE Left'
  BY <1>5, SMTT(30) DEF UpdatesPage, BeginWeb, KeepWeb, UndoWeb
<1>6. ASSUME IInv, Left, Stop \/ Reboot PROVE Left'
  BY <1>6, SMTT(30) DEF Stop, Reboot
<1>7. ASSUME IInv, Left, Surroundings \/ (\E f \in Files : Edit(f)) PROVE Left'
  BY <1>7, SMTT(30) DEF Surroundings, Request, BotKnocks, BotJoins, Respond, SendAway,
     StartWork, BotLeaves, Edit
<1> HIDE DEF IInv, Left
<1>8. QED
  BY <1>1, <1>2, <1>3, <1>4, <1>5, <1>6, <1>7 DEF Next

LEMMA LeftStutters == Left /\ UNCHANGED vars => Left'
  BY DEF Left, VoicesKept, DirsKept, PagesKept, vars, On, Previous, Candidate, Stays

LEMMA LeftInit == Init => Left
<1>1. SUFFICES ASSUME Init PROVE Left
  OBVIOUS
<1>2. Previous = Initial /\ Candidate = Initial /\ voice[Initial] = Initial /\ at[1] = "none"
  BY <1>1, DeploymentAssumption DEF Init, Active, Previous, Candidate, Idle, At
<1>3. VoicesKept
  BY <1>1, <1>2 DEF Init, VoicesKept, On, At, Ends
<1>4. DirsKept
  BY <1>1, <1>2 DEF Init, DirsKept
<1>5. PagesKept
  BY <1>1, <1>2 DEF Init, Active, PagesKept, On, At
<1>6. QED
  BY <1>3, <1>4, <1>5 DEF Left

THEOREM LeftBehind == Spec => []Left
<1>1. IInv /\ Left /\ [Next]_vars => Left'
  BY LeftNext, LeftStutters
<1>2. QED
  BY <1>1, LeftInit, Invariant, PTL DEF Spec

\* When a deployment has ended, whatever failed on its way, one release runs with its
\* VoiceHub, PM2 would start no other after a reboot, and the files route to it.
THEOREM ActiveRunsAlone == Spec => []ActiveIsAlone
<1>1. IInv /\ Left => ActiveIsAlone
  <2>1. SUFFICES ASSUME IInv, Left, state.phase = "active" PROVE ActiveIsAlone
    BY DEF ActiveIsAlone
  <2>2. Previous = Candidate /\ Up(Candidate)
    BY <2>1 DEF IInv, Pair, Kept
  <2>3. mains = {Candidate} /\ dump.mains = {Candidate}
    BY <2>1, <2>2 DEF IInv, Pair, Up
  <2>4. voices = {voice[Candidate]} /\ dump.voices = {voice[Candidate]}
    BY <2>1, <2>2 DEF Left, VoicesKept, Up
  <2>5. dump = [mains |-> mains, voices |-> voices]
    BY <2>1, <2>3, <2>4 DEF IInv, TypeOK
  <2>6. \A f \in Files : conf[f] \in {port[Candidate], "edited"}
    BY <2>1, <2>2 DEF IInv, Routed
  <2>7. QED
    BY <2>3, <2>4, <2>5, <2>6 DEF ActiveIsAlone
<1>2. QED
  BY <1>1, Invariant, LeftBehind, PTL

\* The page of a release that was rolled back does not stay.
THEOREM PageAlwaysFits == Spec => []PageHasItsRelease
<1>1. Left => PageHasItsRelease
  BY DEF Left, PagesKept, PageHasItsRelease
<1>2. QED
  BY <1>1, LeftBehind, PTL

\* No directory goes that a process, a reboot or a recovery needs.
THEOREM ReleasesAlwaysKept == Spec => []ReleasesAreKept
<1>1. IInv /\ Left => ReleasesAreKept
  BY DEF IInv, Pair, Left, VoicesKept, DirsKept, ReleasesAreKept
<1>2. QED
  BY <1>1, Invariant, LeftBehind, PTL

===============================================================================
