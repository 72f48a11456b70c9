---------------------------- MODULE StaticSite ----------------------------
(***************************************************************************)
(* A static site: Apply, Stop and RemoveApp, the TTL callback, suspension  *)
(* for idleness, the requests that come through the exposure proxy and     *)
(* resume a suspended site, and the restart of the server.                 *)
(*                                                                         *)
(* Each section under a mutex is a step; the handlers hold no lock across  *)
(* them.  The scheduler and the tracker are what Deadlines promises,       *)
(* without a clock: an armed deadline may be due at any time.  Bytes,      *)
(* ports and unpacking are left out: a port is the site that listens on it. *)
(***************************************************************************)
EXTENDS Integers, FiniteSets

CONSTANTS
    Admin,     \* threads that apply, stop and remove
    Visitor,   \* requests to the proxy
    Idler, Expirer,  \* the goroutines of the tracker and of the scheduler
    Document,  \* configurations
    Exposed, Leased, Idle,  \* those with spec.exposure, a TTL, an idle timeout
    Pinned,    \* exposed ones that pin a token of their own
    Generated, \* the token generated for the app
    None,
    Op,        \* the operations administrators use
    Site,      \* sites: listeners, numbered
    Root,      \* directories of artifacts
    MaxGen,    \* bound of the model: no apply once the record has this generation, and
               \* of those that overlap none records more than the next
    Overlap,   \* sets of threads that may get in each other's way, one of which a behaviour has
    CrashAnywhere  \* the server may end in the middle of a handler

Thread == Admin \cup Visitor \cup {Idler, Expirer}
Token  == Pinned \cup {Generated}

Gen == 0..(MaxGen + 1)
IdleApp == [gen : Gen, doc : Document, suspended : BOOLEAN]
Target == [gen : Gen, site : Site]

ASSUME ConstantsAssumption ==
    /\ Exposed \cup Leased \cup Idle \subseteq Document
    /\ Pinned \subseteq Exposed
    /\ None \notin Document \cup Token \cup Site \cup Root
    /\ None \notin IdleApp \cup Target
    /\ Idler # Expirer
    /\ {Idler, Expirer} \cap (Admin \cup Visitor) = {}
    /\ Admin \cap Visitor = {}
    /\ Op \subseteq {"apply", "stop", "remove"}
    /\ MaxGen \in Nat
    /\ Overlap \subseteq SUBSET Thread
    /\ CrashAnywhere \in BOOLEAN

VARIABLES
    overlap,   \* the choice among Overlap
    record,    \* the app's record in SyncManager.state
    sites,     \* Handler.sites[app]
    idleApp,   \* Handler.idleApps[app]
    proxyUp, targets,  \* the proxy, started on first use, and its targets
    idleArmed, ttlArmed,  \* the generation the tracker and the scheduler have, or 0
    resuming,  \* Handler.resuming[app]
    open,      \* sites that listen
    rootOf,    \* the directory each site serves
    files,     \* the directories that exist
    pc, op,    \* where each thread is and what it does
    gen, site, copy, doc,  \* the local variables of the threads
    genOf,     \* history: the generation recorded for each directory
    withdrawn  \* history: since its suspension the app was told to stop

siteVars == <<sites, open, rootOf, files>>
proxy    == <<proxyUp, targets>>
armVars  == <<idleArmed, ttlArmed>>
local    == <<gen, site, copy, doc>>
history  == <<genOf, withdrawn>>
vars == <<overlap, record, siteVars, idleApp, proxy, armVars, resuming, pc, op, local, history>>

Record == [status : {"none", "running", "stopped", "expired", "failed"}, gen : Gen,
           doc : Document \cup {None}, root : Root \cup {None}, port : Site \cup {None},
           token : Token \cup {None}, suspended : BOOLEAN]
NoRecord == [status |-> "none", gen |-> 0, doc |-> None, root |-> None, port |-> None,
             token |-> None, suspended |-> FALSE]
PC == {"idle", "swap", "closeOld", "recordReads", "recordWrites", "armTtl", "publish", "armIdle",
       "remember", "tokenReads", "tokenWrites", "withdraw", "unregister", "take", "close",
       "markReads", "markWrites", "deregister", "check", "guard", "lookup", "open", "install",
       "register", "reads", "writes", "flag", "arm", "touch"}

\* A thread that is to write the record has read one.
LocalsOK ==
    /\ pc \in [Thread -> PC]
    /\ op \in [Thread -> Op \cup {"none"}]
    /\ gen \in [Thread -> Gen]
    /\ site \in [Thread -> Site \cup {None}]
    /\ copy \in [Thread -> Record]
    /\ doc \in [Thread -> Document \cup {None}]
    /\ \A t \in Thread : pc[t] \in {"markWrites", "tokenWrites", "writes"} => copy[t] # NoRecord

TypeOK ==
    /\ record \in Record
    /\ sites \in Site \cup {None}
    /\ idleApp \in IdleApp \cup {None}
    /\ overlap \in Overlap
    /\ proxyUp \in BOOLEAN
    /\ targets \in [Token -> Target \cup {None}]
    /\ idleArmed \in Gen /\ ttlArmed \in Gen
    /\ resuming \in BOOLEAN
    /\ open \subseteq Site
    /\ rootOf \in [Site -> Root \cup {None}]
    /\ files \subseteq Root
    /\ LocalsOK
    /\ genOf \in [Root -> Gen]
    /\ withdrawn \in BOOLEAN

Init ==
    /\ record = NoRecord
    /\ sites = None
    /\ idleApp = None
    /\ overlap \in Overlap
    /\ proxyUp = FALSE
    /\ targets = [k \in Token |-> None]
    /\ idleArmed = 0 /\ ttlArmed = 0
    /\ resuming = FALSE
    /\ open = {}
    /\ rootOf = [s \in Site |-> None]
    /\ files = {}
    /\ pc = [t \in Thread |-> "idle"]
    /\ op = [t \in Thread |-> "none"]
    /\ gen = [t \in Thread |-> 0]
    /\ site = [t \in Thread |-> None]
    /\ copy = [t \in Thread |-> NoRecord]
    /\ doc = [t \in Thread |-> None]
    /\ genOf = [r \in Root |-> 0]
    /\ withdrawn = FALSE

----------------------------------------------------------------------------
(* Threads *)

Goto(t, label) == pc' = [pc EXCEPT ![t] = label]

Leave(t) ==
    /\ Goto(t, "idle")
    /\ op' = [op EXCEPT ![t] = "none"]
    /\ gen' = [gen EXCEPT ![t] = 0]
    /\ site' = [site EXCEPT ![t] = None]
    /\ copy' = [copy EXCEPT ![t] = NoRecord]
    /\ doc' = [doc EXCEPT ![t] = None]

GoOn(t, label) == Goto(t, label) /\ UNCHANGED <<op, local>>
KeepCopy(t, label, c) ==
    /\ Goto(t, label)
    /\ copy' = [copy EXCEPT ![t] = c]
    /\ UNCHANGED <<op, gen, site, doc>>

\* Nothing in the code keeps two threads apart.  In a behaviour of the model the
\* calls, callbacks and requests of overlap do overlap and the others do not.
Busy == {t \in Thread : pc[t] # "idle"}
MayBegin(t) ==
    /\ pc[t] = "idle"
    /\ Busy \subseteq overlap
    /\ t \in overlap \/ Busy = {}

\* A new listener: its number is one nobody knows any more.
Unused == {s \in Site :
    /\ s \notin open /\ s # sites /\ record.port # s
    /\ \A k \in Token : targets[k] = None \/ targets[k].site # s
    /\ \A t \in Thread : site[t] # s /\ copy[t].port # s}
NewSite == CHOOSE s \in Unused : TRUE
UnusedRoot == {r \in Root :
    /\ r \notin files /\ r # record.root
    /\ \A s \in Site \ Unused : rootOf[s] # r
    /\ \A t \in Thread : copy[t].root # r}

Listen(t, r, label) ==
    /\ Unused # {}
    /\ open' = open \cup {NewSite}
    /\ rootOf' = [rootOf EXCEPT ![NewSite] = r]
    /\ site' = [site EXCEPT ![t] = NewSite]
    /\ Goto(t, label)

----------------------------------------------------------------------------
(* Apply of a StaticSite *)

\* The artifact is unpacked into a directory of its own and a site started on
\* it.  Applying what runs already changes nothing and has no action.
Apply(t) ==
    /\ t \in Admin /\ "apply" \in Op /\ MayBegin(t)
    /\ record.gen < MaxGen
    /\ \E d \in Document :
        /\ ~(record.status = "running" /\ record.doc = d /\ sites # None)
        /\ doc' = [doc EXCEPT ![t] = d]
    /\ op' = [op EXCEPT ![t] = "apply"]
    /\ UnusedRoot # {}
    /\ LET r == CHOOSE r \in UnusedRoot : TRUE IN
        /\ files' = files \cup {r}
        /\ Listen(t, r, "swap")
    /\ UNCHANGED <<overlap, record, sites, idleApp, proxy, armVars, resuming, gen, copy, genOf, withdrawn>>

\* site[t] is the old site from here to ApplyCloses; the new one is in the map
\* and its directory is the last this thread needs to know.
ApplySwaps(t) ==
    /\ pc[t] = "swap"
    /\ sites' = site[t]
    /\ copy' = [copy EXCEPT ![t].root = rootOf[site[t]], ![t].port = site[t]]
    /\ site' = [site EXCEPT ![t] = sites]
    /\ Goto(t, IF sites = None THEN "recordReads" ELSE "closeOld")
    /\ UNCHANGED <<overlap, record, idleApp, proxy, armVars, resuming, open, rootOf, files, op, gen, doc, history>>

ApplyCloses(t) ==
    /\ pc[t] = "closeOld"
    /\ open' = open \ {site[t]}
    /\ files' = files \ {rootOf[site[t]]}
    /\ site' = [site EXCEPT ![t] = None]
    /\ Goto(t, "recordReads")
    /\ UNCHANGED <<overlap, record, sites, idleApp, proxy, armVars, resuming, rootOf, op, gen, copy, doc, history>>

PinnedToken(d) == IF d \in Pinned THEN d ELSE None
Or(token, other) == IF token = None THEN other ELSE token

\* recordStaticSite: the generation and the token come from the old record.
RecordReads(t) ==
    /\ pc[t] = "recordReads"
    /\ record.gen + 1 \in Gen
    /\ LET d == doc[t] IN
       /\ gen' = [gen EXCEPT ![t] = record.gen + 1]
       /\ copy' = [copy EXCEPT ![t] =
            [status |-> "running", gen |-> record.gen + 1, doc |-> d, root |-> copy[t].root,
             port |-> copy[t].port, token |-> Or(PinnedToken(d), record.token),
             suspended |-> FALSE]]
    /\ site' = [site EXCEPT ![t] = copy[t].port]
    /\ Goto(t, "recordWrites")
    /\ UNCHANGED <<overlap, record, siteVars, idleApp, proxy, armVars, resuming, op, doc, history>>

RecordWrites(t) ==
    /\ pc[t] = "recordWrites"
    /\ record' = copy[t]
    /\ genOf' = [genOf EXCEPT ![copy[t].root] = gen[t]]
    /\ withdrawn' = FALSE
    /\ KeepCopy(t, IF doc[t] \in Leased THEN "armTtl" ELSE "publish", NoRecord)
    /\ UNCHANGED <<overlap, siteVars, idleApp, proxy, armVars, resuming>>

\* The old deadline is cancelled only for a document with a TTL; otherwise it
\* stays armed with the old generation.
ApplyArmsTtl(t) ==
    /\ pc[t] = "armTtl"
    /\ ttlArmed' = gen[t]
    /\ GoOn(t, "publish")
    /\ UNCHANGED <<overlap, record, siteVars, idleApp, proxy, idleArmed, resuming, history>>

\* publishSite: the proxy gets the new target.  A document without exposure
\* keeps the token of the record, and the proxy whatever it has for it.
Publish(t) ==
    /\ pc[t] = "publish"
    /\ proxyUp' = (proxyUp \/ doc[t] \in Exposed)
    /\ IF doc[t] \in Exposed
       THEN targets' = [targets EXCEPT
                ![Or(PinnedToken(doc[t]), Or(record.token, Generated))] =
                    [gen |-> gen[t], site |-> site[t]]]
       ELSE UNCHANGED targets
    /\ copy' = [copy EXCEPT ![t].token =
            Or(PinnedToken(doc[t]), IF doc[t] \in Exposed THEN Or(record.token, Generated)
                                    ELSE record.token)]
    /\ Goto(t, IF doc[t] \in Idle THEN "armIdle" ELSE "remember")
    /\ UNCHANGED <<overlap, record, siteVars, idleApp, armVars, resuming, op, gen, site, doc, history>>

\* The proxy cannot be started: the site runs, is recorded, and that is all.
PublishFails(t) ==
    /\ pc[t] = "publish"
    /\ doc[t] \in Exposed
    /\ ~proxyUp
    /\ Leave(t)
    /\ UNCHANGED <<overlap, record, siteVars, idleApp, proxy, armVars, resuming, history>>

ApplyArmsIdle(t) ==
    /\ pc[t] = "armIdle"
    /\ idleArmed' = gen[t]
    /\ GoOn(t, "remember")
    /\ UNCHANGED <<overlap, record, siteVars, idleApp, proxy, ttlArmed, resuming, history>>

Remember(t) ==
    /\ pc[t] = "remember"
    /\ idleApp' = [gen |-> gen[t], doc |-> doc[t], suspended |-> FALSE]
    /\ IF copy[t].token = None THEN Leave(t) ELSE GoOn(t, "tokenReads")
    /\ UNCHANGED <<overlap, record, siteVars, proxy, armVars, resuming, history>>

TokenReads(t) ==
    /\ pc[t] = "tokenReads"
    /\ IF record = NoRecord THEN Leave(t)
       ELSE KeepCopy(t, "tokenWrites", [record EXCEPT !.token = copy[t].token])
    /\ UNCHANGED <<overlap, record, siteVars, idleApp, proxy, armVars, resuming, history>>

TokenWrites(t) ==
    /\ pc[t] = "tokenWrites"
    /\ record' = copy[t]
    /\ Leave(t)
    /\ UNCHANGED <<overlap, siteVars, idleApp, proxy, armVars, resuming, history>>

----------------------------------------------------------------------------
(* Stop, RemoveApp and the TTL callback *)

Stop(t) ==
    /\ t \in Admin /\ "stop" \in Op /\ MayBegin(t)
    /\ record # NoRecord
    /\ op' = [op EXCEPT ![t] = "stop"]
    /\ Goto(t, "withdraw")
    /\ UNCHANGED <<overlap, record, siteVars, idleApp, proxy, armVars, resuming, local, history>>

Remove(t) ==
    /\ t \in Admin /\ "remove" \in Op /\ MayBegin(t)
    /\ record # NoRecord
    /\ op' = [op EXCEPT ![t] = "remove"]
    /\ Goto(t, "withdraw")
    /\ UNCHANGED <<overlap, record, siteVars, idleApp, proxy, armVars, resuming, local, history>>

\* The scheduler calls expireApp with the generation the deadline was set for.
TtlFires ==
    /\ MayBegin(Expirer)
    /\ ttlArmed # 0
    /\ ttlArmed' = 0
    /\ gen' = [gen EXCEPT ![Expirer] = ttlArmed]
    /\ Goto(Expirer, "check")
    /\ UNCHANGED <<overlap, record, siteVars, idleApp, proxy, idleArmed, resuming, op, site, copy, doc, history>>

\* Fault: the generation is not compared.
ExpireChecksStatus ==
    /\ pc[Expirer] = "check"
    /\ IF record.status = "running" THEN GoOn(Expirer, "withdraw") ELSE Leave(Expirer)
    /\ UNCHANGED <<overlap, record, siteVars, idleApp, proxy, armVars, resuming, history>>

ExpireChecks ==
    /\ pc[Expirer] = "check"
    /\ IF record.gen = gen[Expirer] /\ record.status = "running"
       THEN GoOn(Expirer, "withdraw")
       ELSE Leave(Expirer)
    /\ UNCHANGED <<overlap, record, siteVars, idleApp, proxy, armVars, resuming, history>>

\* closeStaticSite: both deadlines are cancelled and the app leaves idleApps,
\* whether or not there is a site.
Withdraw(t) ==
    /\ pc[t] = "withdraw"
    /\ ttlArmed' = 0 /\ idleArmed' = 0
    /\ idleApp' = None
    /\ withdrawn' = (withdrawn \/ t \in Admin)
    /\ GoOn(t, "unregister")
    /\ UNCHANGED <<overlap, record, siteVars, proxy, resuming, genOf>>

\* Only the token the record has now leaves the proxy.
Unregister(t) ==
    /\ pc[t] = "unregister"
    /\ targets' = [k \in Token |-> IF k = record.token THEN None ELSE targets[k]]
    /\ GoOn(t, "take")
    /\ UNCHANGED <<overlap, record, siteVars, idleApp, proxyUp, armVars, resuming, history>>

\* Fault: the site is closed before it leaves the map.
TakeClosed(t) ==
    /\ pc[t] = "take"
    /\ sites # None
    /\ open' = open \ {sites}
    /\ site' = [site EXCEPT ![t] = sites]
    /\ Goto(t, "close")
    /\ UNCHANGED <<overlap, record, sites, rootOf, files, idleApp, proxy, armVars, resuming, op, gen, copy, doc, history>>

TakeSite(t) ==
    /\ pc[t] = "take"
    /\ sites # None
    /\ sites' = None
    /\ site' = [site EXCEPT ![t] = sites]
    /\ Goto(t, "close")
    /\ UNCHANGED <<overlap, record, open, rootOf, files, idleApp, proxy, armVars, resuming, op, gen, copy, doc, history>>

\* Without a site Stop goes on to the process runtime and fails there; an
\* expiry and a removal go on.
NoSite(t) ==
    /\ pc[t] = "take"
    /\ sites = None
    /\ CASE op[t] = "stop"   -> Leave(t)
         [] op[t] = "remove" -> GoOn(t, "deregister")
         [] OTHER            -> GoOn(t, "markReads")
    /\ UNCHANGED <<overlap, record, siteVars, idleApp, proxy, armVars, resuming, history>>

CloseSite(t) ==
    /\ pc[t] = "close"
    /\ open' = open \ {site[t]}
    /\ files' = files \ {rootOf[site[t]]}
    /\ GoOn(t, IF op[t] = "remove" THEN "deregister" ELSE "markReads")
    /\ UNCHANGED <<overlap, record, sites, rootOf, idleApp, proxy, armVars, resuming, history>>

\* markStaticStopped, and the end of expireStaticSite, which compares the
\* generation once more.
MarkReads(t) ==
    /\ pc[t] = "markReads"
    /\ IF record = NoRecord \/ (t = Expirer /\ record.gen # gen[t]) THEN Leave(t)
       ELSE KeepCopy(t, "markWrites", [record EXCEPT
                !.status = IF t = Expirer THEN "expired" ELSE "stopped", !.port = None])
    /\ UNCHANGED <<overlap, record, siteVars, idleApp, proxy, armVars, resuming, history>>

\* Fault: the site is closed and the record left alone.
MarkForgets(t) ==
    /\ pc[t] = "markWrites"
    /\ Leave(t)
    /\ UNCHANGED <<overlap, record, siteVars, idleApp, proxy, armVars, resuming, history>>

MarkWrites(t) ==
    /\ pc[t] = "markWrites"
    /\ record' = copy[t]
    /\ Leave(t)
    /\ UNCHANGED <<overlap, siteVars, idleApp, proxy, armVars, resuming, history>>

Deregister(t) ==
    /\ pc[t] = "deregister"
    /\ record' = NoRecord
    /\ Leave(t)
    /\ UNCHANGED <<overlap, siteVars, idleApp, proxy, armVars, resuming, history>>

----------------------------------------------------------------------------
(* The tracker's callback: suspendIdleApp *)

IdleFires ==
    /\ MayBegin(Idler)
    /\ idleArmed # 0
    /\ idleArmed' = 0
    /\ gen' = [gen EXCEPT ![Idler] = idleArmed]
    /\ Goto(Idler, "lookup")
    /\ UNCHANGED <<overlap, record, siteVars, idleApp, proxy, ttlArmed, resuming, op, site, copy, doc, history>>

\* "A stale callback must never touch a restarted app."
SuspendLooksUp ==
    /\ pc[Idler] = "lookup"
    /\ IF idleApp # None /\ idleApp.gen = gen[Idler] THEN GoOn(Idler, "check") ELSE Leave(Idler)
    /\ UNCHANGED <<overlap, record, siteVars, idleApp, proxy, armVars, resuming, history>>

SuspendChecks ==
    /\ pc[Idler] = "check"
    /\ IF record.gen = gen[Idler] /\ record.status = "running"
       THEN GoOn(Idler, "take")
       ELSE Leave(Idler)
    /\ UNCHANGED <<overlap, record, siteVars, idleApp, proxy, armVars, resuming, history>>

SuspendTakes ==
    /\ pc[Idler] = "take"
    /\ sites' = None
    /\ site' = [site EXCEPT ![Idler] = sites]
    /\ Goto(Idler, "close")
    /\ UNCHANGED <<overlap, record, open, rootOf, files, idleApp, proxy, armVars, resuming, op, gen, copy, doc, history>>

\* Fault: the directory goes with the site, as in every other case.
SuspendRemoves ==
    /\ pc[Idler] = "close"
    /\ open' = open \ {site[Idler]}
    /\ files' = IF site[Idler] = None THEN files ELSE files \ {rootOf[site[Idler]]}
    /\ GoOn(Idler, "reads")
    /\ UNCHANGED <<overlap, record, sites, rootOf, idleApp, proxy, armVars, resuming, history>>

\* The directory stays: a suspension is not a removal.
SuspendCloses ==
    /\ pc[Idler] = "close"
    /\ open' = open \ {site[Idler]}
    /\ GoOn(Idler, "reads")
    /\ UNCHANGED <<overlap, record, sites, rootOf, files, idleApp, proxy, armVars, resuming, history>>

SuspendReads ==
    /\ pc[Idler] = "reads"
    /\ IF record = NoRecord THEN GoOn(Idler, "flag")
       ELSE KeepCopy(Idler, "writes",
                [record EXCEPT !.status = "stopped", !.suspended = TRUE, !.port = None])
    /\ UNCHANGED <<overlap, record, siteVars, idleApp, proxy, armVars, resuming, history>>

SuspendWrites ==
    /\ pc[Idler] = "writes"
    /\ record' = copy[Idler]
    /\ KeepCopy(Idler, "flag", NoRecord)
    /\ UNCHANGED <<overlap, siteVars, idleApp, proxy, armVars, resuming, history>>

SuspendFlags ==
    /\ pc[Idler] = "flag"
    /\ idleApp' = IF idleApp # None /\ idleApp.gen = gen[Idler]
                  THEN [idleApp EXCEPT !.suspended = TRUE] ELSE idleApp
    /\ Leave(Idler)
    /\ UNCHANGED <<overlap, record, siteVars, proxy, armVars, resuming, history>>

----------------------------------------------------------------------------
(* A request to the proxy: resumeSuspendedApp, then touchIdleApp *)

\* The target it looks up is its own from here on.
Visit(t) ==
    /\ t \in Visitor /\ MayBegin(t)
    /\ \E k \in Token :
        /\ targets[k] # None
        /\ gen' = [gen EXCEPT ![t] = targets[k].gen]
        /\ site' = [site EXCEPT ![t] = targets[k].site]
    /\ Goto(t, "guard")
    /\ UNCHANGED <<overlap, record, siteVars, idleApp, proxy, armVars, resuming, op, copy, doc, history>>

\* Fault: nobody asks whether the app is being resumed.
GuardNobody(t) ==
    /\ pc[t] = "guard"
    /\ resuming' = TRUE
    /\ GoOn(t, "lookup")
    /\ UNCHANGED <<overlap, record, siteVars, idleApp, proxy, armVars, history>>

\* While another request resumes the app this one goes on at once.
ResumeGuard(t) ==
    /\ pc[t] = "guard"
    /\ resuming' = TRUE
    /\ GoOn(t, IF resuming THEN "touch" ELSE "lookup")
    /\ UNCHANGED <<overlap, record, siteVars, idleApp, proxy, armVars, history>>

ResumeLooksUp(t) ==
    /\ t \in Visitor /\ pc[t] = "lookup"
    /\ IF idleApp # None /\ idleApp.suspended /\ idleApp.gen = gen[t]
       THEN GoOn(t, "check") /\ UNCHANGED resuming
       ELSE GoOn(t, "touch") /\ resuming' = FALSE
    /\ UNCHANGED <<overlap, record, siteVars, idleApp, proxy, armVars, history>>

ResumeChecks(t) ==
    /\ t \in Visitor /\ pc[t] = "check"
    /\ IF record.suspended /\ record.gen = gen[t]
       THEN IF record.root \in files
            THEN KeepCopy(t, "open", record) /\ UNCHANGED resuming
            ELSE Leave(t) /\ resuming' = FALSE
       ELSE GoOn(t, "touch") /\ resuming' = FALSE
    /\ UNCHANGED <<overlap, record, siteVars, idleApp, proxy, armVars, history>>

\* No port is free: the request is answered with an error.
ResumeFails(t) ==
    /\ pc[t] = "open"
    /\ Leave(t)
    /\ resuming' = FALSE
    /\ UNCHANGED <<overlap, record, siteVars, idleApp, proxy, armVars, history>>

ResumeOpens(t) ==
    /\ pc[t] = "open"
    /\ Listen(t, copy[t].root, "install")
    /\ UNCHANGED <<overlap, record, sites, files, idleApp, proxy, armVars, resuming, op, gen, copy, doc, history>>

\* Whatever site the map had is not closed.
ResumeInstalls(t) ==
    /\ pc[t] = "install"
    /\ sites' = site[t]
    /\ GoOn(t, IF copy[t].token = None THEN "reads" ELSE "register")
    /\ UNCHANGED <<overlap, record, open, rootOf, files, idleApp, proxy, armVars, resuming, history>>

ResumeRegisters(t) ==
    /\ pc[t] = "register"
    /\ targets' = [targets EXCEPT ![copy[t].token] = [gen |-> gen[t], site |-> site[t]]]
    /\ GoOn(t, "reads")
    /\ UNCHANGED <<overlap, record, siteVars, idleApp, proxyUp, armVars, resuming, history>>

ResumeReads(t) ==
    /\ t \in Visitor /\ pc[t] = "reads"
    /\ IF record = NoRecord THEN KeepCopy(t, "flag", NoRecord)
       ELSE KeepCopy(t, "writes",
                [record EXCEPT !.status = "running", !.suspended = FALSE, !.port = site[t]])
    /\ UNCHANGED <<overlap, record, siteVars, idleApp, proxy, armVars, resuming, history>>

ResumeWrites(t) ==
    /\ t \in Visitor /\ pc[t] = "writes"
    /\ record' = copy[t]
    /\ KeepCopy(t, "flag", NoRecord)
    /\ UNCHANGED <<overlap, siteVars, idleApp, proxy, armVars, resuming, history>>

ResumeFlags(t) ==
    /\ t \in Visitor /\ pc[t] = "flag"
    /\ idleApp' = IF idleApp # None /\ idleApp.gen = gen[t]
                  THEN [idleApp EXCEPT !.suspended = FALSE] ELSE idleApp
    /\ GoOn(t, "arm")
    /\ UNCHANGED <<overlap, record, siteVars, proxy, armVars, resuming, history>>

\* Only an app with an idle timeout was suspended.  The TTL is not armed again.
ResumeArms(t) ==
    /\ pc[t] = "arm"
    /\ idleArmed' = gen[t]
    /\ resuming' = FALSE
    /\ GoOn(t, "touch")
    /\ UNCHANGED <<overlap, record, siteVars, idleApp, proxy, ttlArmed, history>>

\* touchIdleApp arms the generation of the target, current or not; then the
\* target serves the request.
Touch(t) ==
    /\ pc[t] = "touch"
    /\ idleArmed' = IF record.doc \in Idle THEN gen[t] ELSE idleArmed
    /\ Leave(t)
    /\ UNCHANGED <<overlap, record, siteVars, idleApp, proxy, ttlArmed, resuming, history>>

----------------------------------------------------------------------------
(* The server ends, gracefully or not, and boots: restoreStaticSites *)

\* Nothing but the record and the directories is left.
Reboot ==
    /\ CrashAnywhere \/ Busy = {}
    /\ record # NoRecord
    /\ pc' = [t \in Thread |-> "idle"]
    /\ op' = [t \in Thread |-> "none"]
    /\ gen' = [t \in Thread |-> 0]
    /\ site' = [t \in Thread |-> None]
    /\ copy' = [t \in Thread |-> NoRecord]
    /\ doc' = [t \in Thread |-> None]
    /\ resuming' = FALSE
    /\ UNCHANGED <<overlap, rootOf, genOf>>

NothingServed ==
    /\ sites' = None /\ open' = {} /\ idleApp' = None
    /\ proxyUp' = FALSE /\ targets' = [k \in Token |-> None]
    /\ idleArmed' = 0 /\ ttlArmed' = 0

\* The port of the record is free again and the site listens on it.  That its
\* directory exists is not tested.
BootServes ==
    /\ Reboot
    /\ record.status = "running"
    /\ sites' = record.port
    /\ open' = {record.port}
    /\ idleApp' = [gen |-> record.gen, doc |-> record.doc, suspended |-> FALSE]
    /\ proxyUp' = (record.token # None)
    /\ targets' = [k \in Token |->
            IF k = record.token THEN [gen |-> record.gen, site |-> record.port] ELSE None]
    /\ idleArmed' = IF record.doc \in Idle THEN record.gen ELSE 0
    /\ ttlArmed' = IF record.doc \in Leased THEN record.gen ELSE 0
    /\ UNCHANGED <<record, files, withdrawn>>

BootFails ==
    /\ Reboot
    /\ record.status = "running"
    /\ NothingServed
    /\ record' = [record EXCEPT !.status = "failed", !.port = None]
    /\ UNCHANGED <<files, withdrawn>>

BootExpires ==
    /\ Reboot
    /\ record.status = "running"
    /\ record.doc \in Leased
    /\ NothingServed
    /\ files' = files \ {record.root}
    /\ record' = [record EXCEPT !.status = "expired", !.port = None]
    /\ UNCHANGED withdrawn

\* A suspended site is not served again, and nothing knows its token.
BootSkips ==
    /\ Reboot
    /\ record.status # "running"
    /\ NothingServed
    /\ withdrawn' = TRUE
    /\ UNCHANGED <<record, files>>

----------------------------------------------------------------------------

ApplyStep(t) ==
    \/ Apply(t) \/ ApplySwaps(t) \/ ApplyCloses(t) \/ RecordReads(t) \/ RecordWrites(t)
    \/ ApplyArmsTtl(t) \/ Publish(t) \/ PublishFails(t) \/ ApplyArmsIdle(t) \/ Remember(t)
    \/ TokenReads(t) \/ TokenWrites(t)

CloseStep(t) ==
    \/ Withdraw(t) \/ Unregister(t) \/ TakeSite(t) \/ NoSite(t) \/ CloseSite(t)
    \/ MarkReads(t) \/ MarkWrites(t) \/ Deregister(t)

SuspendStep ==
    \/ IdleFires \/ SuspendLooksUp \/ SuspendChecks \/ SuspendTakes \/ SuspendCloses
    \/ SuspendReads \/ SuspendWrites \/ SuspendFlags

VisitStep(t) ==
    \/ Visit(t) \/ ResumeGuard(t) \/ ResumeLooksUp(t) \/ ResumeChecks(t) \/ ResumeFails(t)
    \/ ResumeOpens(t) \/ ResumeInstalls(t) \/ ResumeRegisters(t) \/ ResumeReads(t)
    \/ ResumeWrites(t) \/ ResumeFlags(t) \/ ResumeArms(t) \/ Touch(t)

Next ==
    \/ \E t \in Admin : ApplyStep(t) \/ Stop(t) \/ Remove(t)
    \/ \E t \in Admin \cup {Expirer} : CloseStep(t)
    \/ TtlFires \/ ExpireChecks
    \/ SuspendStep
    \/ \E t \in Visitor : VisitStep(t)
    \/ BootServes \/ BootFails \/ BootExpires \/ BootSkips

Spec == Init /\ [][Next]_vars

----------------------------------------------------------------------------
(* Properties *)

AtRest == Busy = {}
InHand == {site[t] : t \in {u \in Thread : pc[u] \in {"swap", "closeOld", "close", "install"}}}

\* Between which threads a behaviour lets calls overlap: requests and a
\* suspension, or a suspension and an expiry.
ExpiryApart == overlap \subseteq Visitor \cup {Idler} \/ overlap \subseteq {Idler, Expirer}

\* A site in the map listens and has its directory, although Stop, expiry and
\* Apply close sites and remove directories, suspension closes and keeps the
\* directory and requests open sites on it: a site leaves the map before it is
\* closed and enters it once.
ServedSiteIsWhole ==
    sites # None =>
        /\ sites \in open
        /\ ExpiryApart => rootOf[sites] \in files

\* The types; and the record says running exactly while a site of its port and
\* directory is served, once no call, callback or request is under way: whatever requests did
\* at the same time.
RecordIsTruthful ==
    /\ TypeOK
    /\ overlap \subseteq Visitor /\ AtRest =>
        /\ record.status = "running" <=> sites # None
        /\ sites # None => sites = record.port /\ rootOf[sites] = record.root

EveryListenerIsKnown == open \subseteq {sites} \cup InHand

\* No listener is lost: what listens is in the map or about to be closed or put
\* there.  Of the requests that find the site suspended, or being suspended, one
\* opens a listener.
NoListenerLeaks == overlap \subseteq Visitor \cup {Idler} => EveryListenerIsKnown

\* A suspension can be taken back by the next request ("挂起可逆"): the
\* directory is there, and the proxy, idleApps and the record agree on the
\* generation, unless the app was told to stop or the server has restarted
\* since, or the site was not exposed.
SuspendedIsResumable ==
    overlap \subseteq Visitor /\ AtRest /\ record.suspended /\ ~withdrawn
        /\ record.doc \in Exposed /\ record.token # None =>
        /\ record.root \in files
        /\ idleApp # None
        /\ idleApp.suspended /\ idleApp.gen = record.gen
        /\ targets[record.token] # None
        /\ targets[record.token].gen = record.gen

\* A callback takes away only a site of the generation its deadline was set
\* for ("A stale callback must never touch a restarted app").
CallbackEndsItsOwn ==
    [][overlap \subseteq Visitor \cup {Idler} => \A t \in {Idler, Expirer} :
        pc[t] = "take" /\ pc'[t] = "close" /\ sites # None =>
            genOf[rootOf[sites]] = gen[t]]_vars
=============================================================================
