--------------------------- MODULE BlueGreenDeploy ---------------------------
(***************************************************************************)
(* Online updates (ops/deploy/blue-green.mjs).  A deployment starts a       *)
(* second instance of the service beside the first, routes nginx to it,     *)
(* waits until the first has no connection left and retires it; a failed    *)
(* switch routes back.  The deployer may be killed at any point, so each    *)
(* phase is persisted before the step it announces, and the next run        *)
(* completes the deployment or undoes it from what is persisted.  Updates   *)
(* are serialized by a file lock, so there is one deployer.                 *)
(*                                                                         *)
(* Around it: nginx, PM2, the operator who may edit nginx's files, clients,  *)
(* the chat bot that keeps one connection, and a reboot of the host.        *)
(***************************************************************************)
EXTENDS FiniteSets, Naturals

CONSTANTS
  Releases,  \* identifiers of releases; one that nothing refers to is used again
  Initial,   \* the release that is active at first
  Files,     \* nginx's proxy files
  Ports      \* the blue and the green port

ASSUME DeploymentAssumption ==
  /\ Initial \in Releases /\ Releases \cap {"off", "web"} = {}
  /\ Cardinality(Ports) = 2 /\ Ports \cap {"none", "edited"} = {}

VARIABLES
  state,       \* the persisted deployment state
  port, voice, \* by release: the port of its server, and the release whose
               \* VoiceHub process it uses
  conf,        \* conf[f]: the port that file f routes to, or "edited"
  gen,         \* the same of the configuration nginx runs
  mains,       \* releases whose server process PM2 runs
  voices,      \* releases whose VoiceHub process PM2 runs
  dump,        \* what pm2 save recorded last
  dirs,        \* releases that have a directory
  page, before,\* the page served, and the backup of the one before: the one
               \* of a release, or "web", of an update of the page alone
  owner,       \* the release the background marker names
  working,     \* servers that have started the background workers
  busy,        \* servers that have requests in flight
  bot,         \* the server that the chat bot is connected to, or "off"
  knocking,    \* the server that has let its upgrade pass, or "off"
  away,        \* the bot, counted on by the record, was sent away and has not
               \* come back
  plan,        \* the hand-over record: "none", "required" or "notRequired"
  asked,       \* releases that have been asked to send the bot away
  closing,     \* servers that have done so
  at,          \* the step of the deployer
  todo,        \* the files that step has not done with
  compared,    \* the one that it has compared and is about to replace
  unseen       \* history: that one, if it has been edited since

routing == <<conf, gen>>
processes == <<mains, voices, dump, working>>
pages == <<page, before>>
chat == <<bot, knocking, away, plan, asked, closing>>
files == <<todo, compared, unseen>>
records == <<port, voice, dirs>>
world == <<records, routing, processes, pages, owner, busy, chat>>
deployer == <<state, records, pages, owner, at, files>>
vars == <<state, port, voice, conf, gen, mains, voices, dump, dirs, page, before,
          owner, working, busy, bot, knocking, away, plan, asked, closing, at, todo,
          compared, unseen>>

\* The path of the deployer and the step on it.
At(path, step) == <<path, step>>
Idle == At("none", "none")
Goto(path, step) == at' = At(path, step)
Proceed(from, to) == at = from /\ at' = to

Paths == {"none", "deploy", "abort", "rollback", "recover", "retire", "web", "prune"}
Steps == {"none", "voice", "main", "save", "ready", "switch", "files", "page",
          "reload", "verify", "validate", "record", "failed", "wait", "mark",
          "check", "plan", "ask", "bot", "prune"}
Phases == {"active", "preparing", "switching", "draining", "rollback-draining",
           "recovery-required"}

TypeOK ==
  /\ state \in [phase : Phases, previous : Releases, candidate : Releases]
  /\ port \in [Releases -> Ports \cup {"none"}]
  /\ voice \in [Releases -> Releases]
  /\ conf \in [Files -> Ports \cup {"edited"}]
  /\ gen \in [Files -> Ports \cup {"edited"}]
  /\ mains \subseteq Releases /\ voices \subseteq Releases
  /\ dump \in [mains : SUBSET Releases, voices : SUBSET Releases]
  /\ dirs \subseteq Releases
  /\ page \in Releases \cup {"web"} /\ before \in Releases \cup {"web"}
  /\ owner \in Releases
  /\ working \subseteq mains /\ busy \subseteq mains
  /\ {bot, knocking} \subseteq mains \cup {"off"} /\ away \in BOOLEAN
  /\ plan \in {"none", "required", "notRequired"}
  /\ asked \subseteq Releases /\ closing \subseteq mains
  /\ at \in Paths \X Steps
  /\ todo \subseteq Files /\ compared \subseteq todo /\ unseen \subseteq compared

Previous == state.previous
Candidate == state.candidate

\* A release that owns its deployment is recorded as both.
Active(r) == [phase |-> "active", previous |-> r, candidate |-> r]

InPhase(p) == [state EXCEPT !.phase = p]

Init ==
  \E p \in Ports :
    /\ state = Active(Initial)
    /\ port = [r \in Releases |-> IF r = Initial THEN p ELSE "none"]
    /\ voice = [r \in Releases |-> r]
    /\ conf = [f \in Files |-> p]
    /\ gen = conf
    /\ mains = {Initial} /\ voices = {Initial}
    /\ dump = [mains |-> {Initial}, voices |-> {Initial}]
    /\ dirs = {Initial}
    /\ page = Initial /\ before = Initial
    /\ owner = Initial /\ working = {Initial}
    /\ busy = {} /\ bot = "off" /\ knocking = "off" /\ away = FALSE
    /\ plan = "none" /\ asked = {} /\ closing = {}
    /\ at = Idle /\ todo = {} /\ compared = {} /\ unseen = {}

-------------------------------------------------------------------------------
(* A run of the deployer begins.                                            *)

\* An identifier that no file, process or record names.
Fresh(r) ==
  r \notin {Previous, Candidate, voice[Candidate], owner, page}
            \cup mains \cup voices \cup dump.mains \cup dump.voices

\* The server is up, and every proxy file routes to it; the other port is free.
\* A backup of the page is taken and the candidate is recorded before anything
\* of it runs.
Begin(r, newVoice) ==
  LET a == Candidate IN
  /\ Proceed(Idle, At("deploy", IF newVoice THEN "voice" ELSE "main"))
  /\ state.phase = "active" /\ Fresh(r)
  /\ a \in mains
  /\ \A f \in Files : conf[f] = port[a]
  /\ newVoice => voices \subseteq {voice[a]}
  /\ \E p \in Ports :
       /\ p # port[a]
       /\ \A m \in mains : port[m] # p
       /\ port' = [port EXCEPT ![r] = p]
  /\ voice' = [voice EXCEPT ![r] = IF newVoice THEN r ELSE voice[a]]
  /\ dirs' = dirs \cup {r}
  /\ before' = page
  /\ state' = [phase |-> "preparing", previous |-> a, candidate |-> r]
  /\ UNCHANGED <<routing, processes, page, owner, busy, chat, files>>

\* An update of the page alone.
BeginWeb ==
  /\ Proceed(Idle, At("web", "verify"))
  /\ state.phase = "active"
  /\ Candidate \in mains
  /\ before' = page
  /\ page' = "web"
  /\ UNCHANGED <<state, records, routing, processes, owner, busy, chat, files>>

\* An interrupted deployment that had switched is completed.
Resume ==
  /\ Proceed(Idle, At("retire", "check"))
  /\ state.phase = "draining"
  /\ Candidate \in mains
  /\ UNCHANGED <<state, files, world>>

\* Any other is undone.
Recover ==
  /\ Proceed(Idle, At("recover", "validate"))
  /\ state.phase \notin {"active", "draining"}
  /\ Previous \in mains
  /\ UNCHANGED <<state, files, world>>

-------------------------------------------------------------------------------
(* Steps that several paths share.                                          *)

\* pm2 delete: the process stops, if there is one.
RemoveMain(r) ==
  /\ mains' = mains \ {r}
  /\ working' = working \ {r}
  /\ busy' = busy \ {r}
  /\ closing' = closing \ {r}
  /\ bot' = IF bot = r THEN "off" ELSE bot
  /\ knocking' = IF knocking = r THEN "off" ELSE knocking
  /\ UNCHANGED <<voices, dump, away, plan, asked>>

RemoveVoice(r) ==
  /\ voices' = voices \ {r}
  /\ UNCHANGED <<mains, dump, working, busy, chat>>

SaveList ==
  /\ dump' = [mains |-> mains, voices |-> voices]
  /\ UNCHANGED <<mains, voices, working, busy, chat>>

\* Mutant: only requests are counted.
IdleOfRequests(r) == r \notin busy

\* No established connection at its port.
IdleUpstream(r) == r \notin busy /\ r \notin {bot, knocking}

\* What the record of an active release no longer names: the other's port and
\* VoiceHub, and the files in its directory that only its deployment reads.
Forget(r) ==
  /\ port' = [port EXCEPT ![r] = "none"]
  /\ voice' = [voice EXCEPT ![r] = r]
  /\ before' = page
  /\ plan' = "none"
  /\ asked' = {}
  /\ UNCHANGED <<dirs, page, bot, knocking, away, closing>>

-------------------------------------------------------------------------------
(* A deployment until it is persisted that the switch is about to begin.     *)

StartVoice ==
  /\ Proceed(At("deploy", "voice"), At("deploy", "main"))
  /\ voices' = voices \cup {Candidate}
  /\ UNCHANGED <<state, records, routing, mains, dump, working, pages, owner, busy,
                 chat, files>>

StartMain ==
  /\ Proceed(At("deploy", "main"), At("deploy", "save"))
  /\ mains' = mains \cup {Candidate}
  /\ UNCHANGED <<state, records, routing, voices, dump, working, pages, owner, busy,
                 chat, files>>

SaveStarted ==
  /\ Proceed(At("deploy", "save"), At("deploy", "ready"))
  /\ SaveList
  /\ UNCHANGED <<state, records, routing, pages, owner, files>>

\* The candidate answers readiness; the intent is persisted.
Ready ==
  /\ Proceed(At("deploy", "ready"), At("deploy", "files"))
  /\ state' = InPhase("switching")
  /\ todo' = Files
  /\ UNCHANGED <<compared, unseen, world>>

\* Anything may fail before that, and is cleaned up at once.
Abort ==
  /\ at \in {At("deploy", s) : s \in {"voice", "main", "save", "ready"}}
  /\ Goto("abort", "main")
  /\ UNCHANGED <<state, files, world>>

-------------------------------------------------------------------------------
(* The switch.                                                              *)

\* Mutant: whatever the file holds is replaced.
CompareNothing(f, path) ==
  /\ at = At(path, "files")
  /\ compared = {} /\ f \in todo
  /\ compared' = {f}
  /\ UNCHANGED <<state, at, todo, unseen, world>>

\* replaceConfig, on either way: the file is read, and nothing but the expected text
\* is replaced; by the time the new text is renamed over it, it may be another.
CompareFile(f, path) ==
  /\ at = At(path, "files")
  /\ compared = {} /\ f \in todo
  /\ conf[f] = port[IF path = "deploy" THEN Previous ELSE Candidate]
  /\ compared' = {f}
  /\ UNCHANGED <<state, at, todo, unseen, world>>

ReplaceFile(f, path) ==
  /\ at = At(path, "files")
  /\ f \in compared
  /\ conf' = [conf EXCEPT ![f] = port[IF path = "deploy" THEN Candidate ELSE Previous]]
  /\ todo' = todo \ {f}
  /\ compared' = {} /\ unseen' = {}
  /\ UNCHANGED <<at, state, records, gen, processes, pages, owner, busy, chat>>

PublishPage ==
  /\ Proceed(At("deploy", "files"), At("deploy", "reload"))
  /\ todo = {}
  /\ page' = Candidate
  /\ UNCHANGED <<state, records, routing, processes, before, owner, busy, chat, files>>

\* nginx -s reload: new connections are routed by the files as they are now.
Reload ==
  /\ Proceed(At("deploy", "reload"), At("deploy", "verify"))
  /\ gen' = conf
  /\ UNCHANGED <<state, records, conf, processes, pages, owner, busy, chat, files>>

\* Mutant: the drain is not announced.
VerifyUnrecorded ==
  /\ Proceed(At("deploy", "verify"), At("retire", "check"))
  /\ \E f \in Files : gen[f] = port[Candidate]
  /\ UNCHANGED <<state, files, world>>

\* The public address answers with the new commit.
Verify ==
  /\ Proceed(At("deploy", "verify"), At("retire", "check"))
  /\ \E f \in Files : gen[f] = port[Candidate]
  /\ state' = InPhase("draining")
  /\ UNCHANGED <<files, world>>

\* A failure in between rolls back.
Rollback ==
  /\ at \in {At("deploy", s) : s \in {"files", "reload", "verify"}}
  /\ Goto("rollback", "validate")
  /\ todo' = {} /\ compared' = {} /\ unseen' = {}
  /\ UNCHANGED <<state, world>>

-------------------------------------------------------------------------------
(* The way back, of a run that failed and of one that finds it interrupted.  *)

Back == {"rollback", "recover"}
BackAt(path, step) == path \in Back /\ at = At(path, step)

\* The whole set of files is looked at before the first is touched.
Validate(path) ==
  /\ BackAt(path, "validate")
  /\ \A f \in Files : conf[f] \in {port[Previous], port[Candidate]}
  /\ todo' = Files
  /\ Goto(path, "files")
  /\ UNCHANGED <<state, compared, unseen, world>>

\* A file that is as it was before is left alone.
SkipFile(path, f) ==
  /\ BackAt(path, "files")
  /\ compared = {} /\ f \in todo
  /\ conf[f] = port[Previous]
  /\ todo' = todo \ {f}
  /\ UNCHANGED <<state, at, compared, unseen, world>>

\* Mutant: only the routes are restored.
RestoreNoPage(path) ==
  /\ BackAt(path, "files")
  /\ todo = {}
  /\ Goto(path, "reload")
  /\ UNCHANGED <<state, files, world>>

RestorePage(path) ==
  /\ BackAt(path, "files")
  /\ todo = {}
  /\ page' = before
  /\ Goto(path, "reload")
  /\ UNCHANGED <<state, records, routing, processes, before, owner, busy, chat, files>>

\* Mutant: nginx is not told of the restored files.
RestoredUnloaded(path) ==
  /\ BackAt(path, "reload")
  /\ Goto(path, IF path = "rollback" THEN "record" ELSE "wait")
  /\ UNCHANGED <<state, files, world>>

ReloadBack(path) ==
  /\ BackAt(path, "reload")
  /\ gen' = conf
  /\ Goto(path, IF path = "rollback" THEN "record" ELSE "wait")
  /\ UNCHANGED <<state, records, conf, processes, pages, owner, busy, chat, files>>

\* A roll-back leaves both releases as they are; the next run recovers.
RecordRollback ==
  /\ Proceed(At("rollback", "record"), Idle)
  /\ state' = InPhase("rollback-draining")
  /\ UNCHANGED <<files, world>>

RollbackFails ==
  /\ at \in {At("rollback", s) : s \in {"validate", "files", "reload", "record"}}
  /\ Goto("rollback", "failed")
  /\ todo' = {} /\ compared' = {} /\ unseen' = {}
  /\ UNCHANGED <<state, world>>

RecordFailure ==
  /\ Proceed(At("rollback", "failed"), Idle)
  /\ state' = InPhase("recovery-required")
  /\ UNCHANGED <<files, world>>

\* A recovery goes on when the candidate has no connection left.
Drained ==
  /\ Proceed(At("recover", "wait"), At("recover", "main"))
  /\ IdleUpstream(Candidate)
  /\ UNCHANGED <<state, files, world>>

-------------------------------------------------------------------------------
(* Retiring the previous release.                                           *)

RoutesAreCandidates == \A f \in Files : conf[f] = port[Candidate]

CheckRoutes ==
  /\ Proceed(At("retire", "check"), At("retire", "plan"))
  /\ RoutesAreCandidates
  /\ UNCHANGED <<state, files, world>>

\* Mutant: each run draws up the record anew.
PlanAnew ==
  /\ Proceed(At("retire", "plan"), At("retire", "ask"))
  /\ plan' = IF bot = Previous THEN "required" ELSE "notRequired"
  /\ UNCHANGED <<state, records, routing, processes, pages, owner, busy, bot, knocking,
                 away, asked, closing, files>>

\* The record of the first run stands; drawing it up takes an answer of both.
Plan ==
  /\ Proceed(At("retire", "plan"), At("retire", "ask"))
  /\ IF plan = "none"
     THEN /\ {Previous, Candidate} \subseteq mains
          /\ plan' = IF bot = Previous THEN "required" ELSE "notRequired"
     ELSE UNCHANGED plan
  /\ UNCHANGED <<state, records, routing, processes, pages, owner, busy, bot, knocking,
                 away, asked, closing, files>>

Ask ==
  /\ Proceed(At("retire", "ask"), At("retire", "wait"))
  /\ asked' = asked \cup {Previous}
  /\ UNCHANGED <<state, records, routing, processes, pages, owner, busy, bot, knocking,
                 away, plan, closing, files>>

\* The previous release has had no connection for a while, the files still route
\* to the candidate and it answers.
AwaitIdle ==
  /\ Proceed(At("retire", "wait"), At("retire", "bot"))
  /\ IdleUpstream(Previous)
  /\ RoutesAreCandidates
  /\ Candidate \in mains
  /\ UNCHANGED <<state, files, world>>

\* Mutant: the marker is written before the previous release has stopped.
AwaitBotMarks ==
  /\ Proceed(At("retire", "bot"), At("retire", "main"))
  /\ plan = "required" => bot = Candidate
  /\ owner' = Candidate
  /\ UNCHANGED <<state, records, routing, processes, pages, busy, chat, files>>

AwaitBot ==
  /\ Proceed(At("retire", "bot"), At("retire", "main"))
  /\ plan = "required" => bot = Candidate
  /\ UNCHANGED <<state, files, world>>

-------------------------------------------------------------------------------
(* The end of each path: one release goes, the other stays.  It is made the   *)
(* owner of the background work, which it is already after an abort, and only *)
(* then recorded as active.                                                  *)

Ends == {"abort", "recover", "retire"}
EndAt(path, step) == path \in Ends /\ at = At(path, step)

Leaves(path) == IF path = "retire" THEN Previous ELSE Candidate
Stays(path) == IF path = "retire" THEN Candidate ELSE Previous

EndMain(path) ==
  /\ EndAt(path, "main")
  /\ RemoveMain(Leaves(path))
  /\ Goto(path, "voice")
  /\ UNCHANGED <<state, records, routing, pages, owner, files>>

EndVoice(path) ==
  /\ EndAt(path, "voice")
  /\ IF voice[Leaves(path)] # voice[Stays(path)]
     THEN RemoveVoice(voice[Leaves(path)])
     ELSE UNCHANGED <<processes, busy, chat>>
  /\ Goto(path, IF path = "abort" THEN "save" ELSE "mark")
  /\ UNCHANGED <<state, records, routing, pages, owner, files>>

Activate(path) ==
  /\ EndAt(path, "mark")
  /\ owner' = Stays(path)
  /\ Goto(path, "save")
  /\ UNCHANGED <<state, records, routing, processes, pages, busy, chat, files>>

\* Mutant: PM2's list is not saved again.
EndUnsaved(path) ==
  /\ EndAt(path, "save")
  /\ Goto(path, "record")
  /\ UNCHANGED <<state, files, world>>

EndSave(path) ==
  /\ EndAt(path, "save")
  /\ SaveList
  /\ Goto(path, "record")
  /\ UNCHANGED <<state, records, routing, pages, owner, files>>

Record(path) ==
  /\ EndAt(path, "record")
  /\ state' = Active(Stays(path))
  /\ Forget(Leaves(path))
  /\ at' = IF path = "retire" THEN At("prune", "prune") ELSE Idle
  /\ UNCHANGED <<routing, processes, owner, busy, files>>

\* Mutant: the VoiceHub of an older release is not looked for.
PruneOfServers ==
  /\ Proceed(At("prune", "prune"), Idle)
  /\ dirs' = dirs \cap ({Candidate} \cup mains)
  /\ UNCHANGED <<state, port, voice, routing, processes, pages, owner, busy, chat, files>>

\* Whatever the record and the processes do not need; which of the rest are the
\* newest, and kept, is left out.
Prune ==
  /\ Proceed(At("prune", "prune"), Idle)
  /\ dirs' = dirs \cap ({Candidate, voice[Candidate]} \cup mains \cup voices)
  /\ UNCHANGED <<state, port, voice, routing, processes, pages, owner, busy, chat, files>>

-------------------------------------------------------------------------------
(* The page alone.                                                          *)

KeepWeb ==
  /\ Proceed(At("web", "verify"), At("prune", "prune"))
  /\ UNCHANGED <<state, files, world>>

UndoWeb ==
  /\ Proceed(At("web", "verify"), Idle)
  /\ page' = before
  /\ UNCHANGED <<state, records, routing, processes, before, owner, busy, chat, files>>

\* The deployer is killed, or gives up and leaves the rest to the next run.
Stop ==
  /\ at # Idle
  /\ at' = Idle
  /\ todo' = {} /\ compared' = {} /\ unseen' = {}
  /\ UNCHANGED <<state, world>>

-------------------------------------------------------------------------------
(* Around the deployer.                                                     *)

\* The server that a new connection through file f reaches.
Reaches(f, r) == r \in mains /\ port[r] = gen[f]

Request(f, r) ==
  /\ Reaches(f, r)
  /\ busy' = busy \cup {r}
  /\ UNCHANGED <<deployer, routing, processes, chat>>

Respond(r) ==
  /\ r \in busy
  /\ busy' = busy \ {r}
  /\ UNCHANGED <<deployer, routing, processes, chat>>

\* An upgrade: a server that is closing refuses it, and does not look again after
\* the await that follows.
BotKnocks(f, r) ==
  /\ bot = "off" /\ knocking = "off"
  /\ Reaches(f, r) /\ r \notin closing
  /\ knocking' = r
  /\ UNCHANGED <<deployer, routing, processes, busy, bot, away, plan, asked, closing>>

BotJoins ==
  /\ knocking # "off"
  /\ bot' = knocking
  /\ knocking' = "off"
  /\ away' = FALSE
  /\ UNCHANGED <<deployer, routing, processes, busy, plan, asked, closing>>

\* The connection breaks, or the upgrade fails.
BotLeaves ==
  /\ {bot, knocking} # {"off"}
  /\ bot' = "off" /\ knocking' = "off"
  /\ UNCHANGED <<deployer, routing, processes, busy, away, plan, asked, closing>>

\* A server that was asked to, and has nothing pending for the bot, does so once.
SendAway(r) ==
  /\ r \in (mains \cap asked) \ closing
  /\ closing' = closing \cup {r}
  /\ IF bot = r THEN bot' = "off" /\ away' = (plan = "required") ELSE UNCHANGED <<bot, away>>
  /\ UNCHANGED <<deployer, routing, processes, busy, knocking, plan, asked>>

\* waitForBackgroundOwnership: once the marker names the release.
StartWork(r) ==
  /\ r \in mains \ working
  /\ owner = r
  /\ working' = working \cup {r}
  /\ UNCHANGED <<deployer, routing, mains, voices, dump, busy, chat>>

\* The operator changes a proxy file.
Edit(f) ==
  /\ conf[f] # "edited"
  /\ conf' = [conf EXCEPT ![f] = "edited"]
  /\ unseen' = unseen \cup (compared \cap {f})
  /\ UNCHANGED <<state, records, pages, owner, at, todo, compared, gen, processes, busy,
                 chat>>

\* The host starts again: nginx from its files, PM2 from what it saved.
Reboot ==
  /\ gen' = conf
  /\ mains' = dump.mains /\ voices' = dump.voices
  /\ working' = {} /\ busy' = {} /\ closing' = {}
  /\ bot' = "off" /\ knocking' = "off"
  /\ at' = Idle
  /\ todo' = {} /\ compared' = {} /\ unseen' = {}
  /\ UNCHANGED <<state, records, conf, dump, pages, owner, away, plan, asked>>

Deploys ==
  \/ \E r \in Releases, newVoice \in BOOLEAN : Begin(r, newVoice)
  \/ StartVoice \/ StartMain \/ SaveStarted \/ Ready
  \/ (\E f \in Files : CompareFile(f, "deploy") \/ ReplaceFile(f, "deploy"))
  \/ PublishPage \/ Reload \/ Verify
  \/ Abort \/ Rollback

GoesBack ==
  \/ Recover
  \/ \E path \in Back :
       \/ Validate(path)
       \/ \E f \in Files : CompareFile(f, path) \/ ReplaceFile(f, path) \/ SkipFile(path, f)
       \/ RestorePage(path) \/ ReloadBack(path)
  \/ RecordRollback \/ RollbackFails \/ RecordFailure \/ Drained

Retires == Resume \/ CheckRoutes \/ Plan \/ Ask \/ AwaitIdle \/ AwaitBot

Finishes ==
  \/ \E path \in Ends : EndMain(path) \/ EndVoice(path) \/ Activate(path)
                          \/ EndSave(path) \/ Record(path)
  \/ Prune

UpdatesPage == BeginWeb \/ KeepWeb \/ UndoWeb

Surroundings ==
  \/ \E f \in Files, r \in Releases : Request(f, r) \/ BotKnocks(f, r)
  \/ \E r \in Releases : Respond(r) \/ SendAway(r) \/ StartWork(r)
  \/ BotJoins \/ BotLeaves

Next ==
  \/ Deploys \/ GoesBack \/ Retires \/ Finishes \/ UpdatesPage \/ Stop
  \/ Surroundings \/ (\E f \in Files : Edit(f)) \/ Reboot

Spec == Init /\ [][Next]_vars

-------------------------------------------------------------------------------
(* Properties.                                                              *)

\* Wherever the deployer is, has failed or was killed, and also after a reboot, what
\* nginx routes to is a server that runs, with the VoiceHub it relays to.
TrafficIsServed ==
  \A f \in Files : gen[f] # "edited" =>
    \E r \in mains : port[r] = gen[f] /\ voice[r] \in voices

\* "Never kill the candidate here": the deployer stops no server that has requests
\* in flight or the bot's connection, established or not.
ConnectionsAreNotCut ==
  [][\A r \in mains \ mains' : at # Idle /\ at' # Idle =>
       r \notin busy /\ r \notin {bot, knocking}]_vars

\* "never enables a second background worker": at most one server does the
\* background work.
OneWorker == Cardinality(working) <= 1

\* "an external edit must never be overwritten", of an edit at any time but between the
\* comparison of a file and its replacement, where the code looks no more: whatever
\* failed before, neither a switch nor a way back, of this run or of the next,
\* overwrites an edit that was there to be seen.
SeenEditsSurvive ==
  [][\A f \in Files : conf[f] = "edited" /\ f \notin unseen => conf'[f] = "edited"]_vars

\* "A killed deployment must leave enough information to retain both processes and
\* recover on the next run": the release that the next run goes on with is up, and
\* nothing but an edit of the operator keeps it from the files.
RecoveryIsPossible ==
  state.phase # "active" =>
    IF state.phase = "draining"
    THEN /\ Candidate \in mains
         /\ plan = "none" => Previous \in mains
         /\ \A f \in Files : conf[f] \in {port[Candidate], "edited"}
    ELSE /\ Previous \in mains
         /\ \A f \in Files : conf[f] \in {port[Previous], port[Candidate], "edited"}

\* "active": the release has taken over and the others' processes are gone, after
\* whatever failures came before; nginx's files route to it.
ActiveIsAlone ==
  at = Idle /\ state.phase = "active" =>
    /\ mains = {Candidate} /\ voices = {voice[Candidate]}
    /\ dump = [mains |-> mains, voices |-> voices]
    /\ \A f \in Files : conf[f] \in {port[Candidate], "edited"}

\* The page of a release that was rolled back is not left behind: it is the page of
\* the active release, or of a later update of the page alone.
PageHasItsRelease ==
  at = Idle /\ state.phase = "active" => page \in {Candidate, "web"}

\* A bot that the hand-over record counts on and the previous release sent away has
\* come back before that release is stopped, also when another run does so.
BotIsHandedOver ==
  [][\A r \in mains \ mains' : at # Idle /\ at' # Idle /\ r \in asked => ~away]_vars

\* No directory is removed that a process runs from, would run from after a
\* reboot, or a recovery would read.
ReleasesAreKept ==
  /\ mains \cup voices \cup dump.mains \cup dump.voices \subseteq dirs
  /\ state.phase # "active" => Candidate \in dirs

===============================================================================
