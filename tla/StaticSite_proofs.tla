------------------------- MODULE StaticSite_proofs -------------------------
(***************************************************************************)
(* Proofs about StaticSite.  The invariant has five levels: what holds in  *)
(* every behaviour, and what holds besides where only certain threads get  *)
(* in each other's way.  Each is inductive with those before it.           *)
(***************************************************************************)
EXTENDS StaticSite, TLAPS

----------------------------------------------------------------------------
(* In every behaviour *)

\* Program points of an apply, of a close, of what a request does once it holds
\* resuming, and those at which a thread has a site in hand.
ApplyPC == {"swap", "closeOld", "recordReads", "recordWrites", "armTtl", "publish", "armIdle",
            "remember", "tokenReads", "tokenWrites"}
ClosePC == {"withdraw", "unregister", "take", "close", "markReads", "markWrites"}
HeldPC  == {"lookup", "check", "open", "install", "register", "reads", "writes", "flag", "arm"}
HandPC  == {"swap", "closeOld", "close", "install"}

\* Which program points each kind of thread has.
PlaceInv ==
    /\ \A t \in Admin : pc[t] \in ApplyPC \cup ClosePC \cup {"idle", "deregister"}
    /\ \A t \in Visitor : pc[t] \in HeldPC \cup {"idle", "guard", "touch"}
    /\ pc[Idler] \in {"idle", "lookup", "check", "take", "close", "reads", "writes", "flag"}
    /\ pc[Expirer] \in ClosePC \cup {"idle", "check"}
    /\ op[Expirer] = "none"

\* Two threads are under way together only if both are in overlap.
OverlapInv ==
    \A t, u \in Thread : t # u /\ pc[t] # "idle" /\ pc[u] # "idle" => t \in overlap /\ u \in overlap

\* A record, and a copy that is to become the record, is complete.
Whole(r) ==
    \/ r = NoRecord
    \/ /\ r.status # "none"
       /\ r.doc \in Document /\ r.root \in Root
       /\ r.status = "running" => r.port \in Site /\ ~r.suspended
WholeInv ==
    /\ Whole(record)
    /\ \A t \in Thread : pc[t] \in {"recordWrites", "tokenWrites", "markWrites", "writes"} =>
          copy[t] # NoRecord /\ Whole(copy[t])

\* What the local variables of an apply are.
ApplyInv ==
    \A t \in Thread :
        /\ pc[t] \in ApplyPC => doc[t] \in Document
        /\ pc[t] \in {"swap", "closeOld", "recordWrites", "armTtl", "publish"} => site[t] \in Site
        /\ pc[t] = "swap" => rootOf[site[t]] \in Root
        /\ pc[t] \in {"closeOld", "recordReads", "recordWrites"} =>
              copy[t].port \in Site /\ copy[t].root \in Root /\ rootOf[copy[t].port] = copy[t].root
        /\ pc[t] = "recordWrites" => /\ copy[t].status = "running" /\ ~copy[t].suspended
                                     /\ copy[t].gen = gen[t] /\ copy[t].doc = doc[t]
                                     /\ copy[t].token = Or(PinnedToken(doc[t]), copy[t].token)

\* What those of the other threads are.
LocalInv ==
    \A t \in Thread :
        /\ t \in Visitor /\ pc[t] # "idle" => site[t] \in Site
        /\ pc[t] \in {"open", "install", "register"} => copy[t].root \in Root
        /\ pc[t] = "install" => rootOf[site[t]] = copy[t].root
        /\ pc[t] = "markWrites" => copy[t].status \in {"stopped", "expired"}
        /\ t = Idler /\ pc[t] = "writes" => copy[t].status = "stopped" /\ copy[t].suspended
        /\ t \in Visitor /\ pc[t] = "writes" => /\ copy[t].status = "running" /\ ~copy[t].suspended
                                                /\ copy[t].port = site[t]

\* A site in hand is not in the map, is in no other hand, and listens unless
\* it is to be closed.
ListenInv ==
    /\ sites # None => sites \in open
    /\ \A t \in Thread : pc[t] \in {"swap", "install"} => site[t] \in open
    /\ \A t \in Thread : pc[t] \in HandPC /\ site[t] # None => site[t] # sites
    /\ \A t, u \in Thread :
          t # u /\ pc[t] \in HandPC /\ pc[u] \in HandPC /\ site[t] # None => site[t] # site[u]

\* One request at a time looks whether the site has to be resumed.
HeldInv ==
    /\ \A t \in Visitor : pc[t] \in HeldPC => resuming
    /\ \A t, u \in Visitor : pc[t] \in HeldPC /\ pc[u] \in HeldPC => t = u

Base == TypeOK /\ PlaceInv /\ OverlapInv /\ WholeInv /\ ApplyInv /\ LocalInv /\ ListenInv /\ HeldInv

----------------------------------------------------------------------------
(* With ExpiryApart *)

\* What a copy and the record have in common.
Same(r, s) == r.root = s.root /\ r.gen = s.gen /\ r.doc = s.doc /\ r.token = s.token

\* All of two records but their tokens.
SameButToken(r, s) ==
    /\ r.status = s.status /\ r.port = s.port /\ r.suspended = s.suspended
    /\ r.root = s.root /\ r.gen = s.gen /\ r.doc = s.doc

SameInv ==
    \A t \in Thread :
        /\ pc[t] \in {"markWrites", "writes", "open", "install", "register"} => Same(copy[t], record)
        /\ pc[t] = "tokenWrites" => SameButToken(copy[t], record)

\* A thread that acts on a generation acts on the one the record has.
GenInv ==
    /\ \A t \in Admin :
          /\ pc[t] = "recordWrites" => gen[t] = record.gen + 1
          /\ pc[t] \in {"armTtl", "publish", "armIdle", "remember", "tokenReads", "tokenWrites"} =>
                gen[t] = record.gen /\ doc[t] = record.doc
    /\ \A t \in Visitor : pc[t] \in {"open", "install", "register", "reads", "writes"} =>
          record.suspended /\ gen[t] = record.gen
    /\ pc[Idler] \in {"take", "close", "reads", "writes"} =>
          record # NoRecord /\ gen[Idler] = record.gen
    /\ pc[Expirer] \in ClosePC => record # NoRecord /\ gen[Expirer] = record.gen

\* The directory of the record is that of the site at its port, and of its
\* generation.
RootInv ==
    /\ record.status = "running" => rootOf[record.port] = record.root
    /\ record # NoRecord => genOf[record.root] = record.gen
    /\ \A t \in Visitor : pc[t] \in {"register", "reads", "writes"} => rootOf[site[t]] = record.root

\* What an apply has put into the map and a close has taken from it.
SitesInv ==
    /\ \A t \in Admin \cup {Expirer} :
          pc[t] \in {"close", "markReads", "markWrites", "deregister"} => sites = None
    /\ \A t \in Admin : pc[t] \in {"closeOld", "recordReads", "recordWrites"} => sites = copy[t].port

ApartInv == SameInv /\ GenInv /\ RootInv /\ SitesInv

Apart == ExpiryApart => ApartInv

----------------------------------------------------------------------------
(* With ExpiryApart and no crash in the middle of a handler *)

\* An apply or a close is about to write the record.
Recording == \E t \in Admin \cup {Expirer} :
    pc[t] \in {"recordReads", "recordWrites", "markReads", "markWrites", "deregister"}

\* The directory of what is served exists, so does that of a running record, of
\* the one being resumed, and of the one being applied.
ServedKept == sites # None => rootOf[sites] \in files
RecordKept == record.status = "running" => record.root \in files \/ Recording
ResumedKept ==
    \A t \in Visitor : pc[t] \in {"open", "install", "register", "reads", "writes"} =>
        record.root \in files
AppliedKept ==
    \A t \in Admin :
        /\ pc[t] \in {"swap", "closeOld"} /\ sites # None => rootOf[site[t]] # rootOf[sites]
        /\ pc[t] = "swap" => rootOf[site[t]] \in files
        /\ pc[t] \in {"closeOld", "recordReads", "recordWrites"} => copy[t].root \in files
FilesInv == ServedKept /\ RecordKept /\ ResumedKept /\ AppliedKept

Kept == ExpiryApart /\ ~CrashAnywhere => FilesInv

----------------------------------------------------------------------------
(* With requests and suspensions overlapping *)

\* Requests and a suspension are under way together, and nothing else.
Requests == overlap \subseteq Visitor \cup {Idler}

\* While the record says suspended the map is empty, but for a request that
\* resumes the site or an apply that replaces it.
SuspendInv ==
    /\ record.suspended /\ sites # None =>
          \/ \E t \in Visitor : pc[t] \in {"register", "reads", "writes"}
          \/ \E t \in Admin : pc[t] \in {"closeOld", "recordReads", "recordWrites"}
    /\ \A t \in Admin : pc[t] = "closeOld" => ~record.suspended
    /\ \A t \in Visitor : pc[t] \in {"open", "install"} => sites = None
    /\ pc[Idler] \in {"take", "close", "reads", "writes"} => ~record.suspended
    /\ pc[Idler] \in {"close", "reads", "writes"} => sites = None

\* What is served has the directory of the record.
ServedInv ==
    sites # None =>
        \/ rootOf[sites] = record.root
        \/ \E t \in Admin : pc[t] \in {"closeOld", "recordReads", "recordWrites"}

AloneInv == EveryListenerIsKnown /\ SuspendInv /\ ServedInv

Alone == Requests => AloneInv

----------------------------------------------------------------------------
(* With requests overlapping only *)

\* Where the record and the map are being changed.
Changing == {"closeOld", "recordReads", "recordWrites", "close", "markReads", "markWrites",
             "deregister", "register", "reads", "writes"}
\* Nobody changing them, the record and the map agree.
AgreeInv ==
    /\ (\A t \in Thread : pc[t] \notin Changing) =>
          /\ record.status = "running" <=> sites # None
          /\ sites # None => sites = record.port
    /\ \A t \in Visitor : pc[t] \in {"register", "reads", "writes"} => sites = site[t]

\* Who else changes the record, or acts on idleApp.
TurnInv ==
    /\ \A t \in Admin :
          /\ pc[t] \in {"armTtl", "publish", "armIdle", "remember", "tokenReads", "tokenWrites"} =>
                ~record.suspended
          /\ pc[t] \in {"unregister", "take", "close", "markReads", "markWrites", "deregister"} =>
                withdrawn
    /\ \A t \in Admin \cup {Expirer} :
          pc[t] \in {"unregister", "take", "close", "markReads", "markWrites", "deregister"} =>
                idleApp = None
    /\ pc[Expirer] \in ClosePC => record.status = "running"
    /\ \A t \in Thread : pc[t] = "markWrites" => copy[t].suspended = record.suspended
    /\ pc[Idler] \in {"check", "take", "close", "reads", "writes", "flag"} =>
          idleApp # None /\ idleApp.gen = gen[Idler]
    /\ \A t \in Visitor : pc[t] = "flag" => ~record.suspended

\* idleApps is never ahead of the record; the target of the token is of the
\* record's generation, or an apply is about to publish it.
OlderInv == idleApp # None => idleApp.gen <= record.gen
TargetInv ==
    idleApp # None /\ idleApp.gen = record.gen /\ record.doc \in Exposed /\ record.token # None =>
        targets[record.token] # None /\ targets[record.token].gen = record.gen
PublishInv ==
    \A t \in Admin :
        /\ pc[t] \in {"armTtl", "publish"} => record.token = Or(PinnedToken(doc[t]), record.token)
        /\ pc[t] \in {"armIdle", "remember", "tokenReads", "tokenWrites"} /\ doc[t] \in Exposed =>
              /\ copy[t].token # None
              /\ record.token \in {None, copy[t].token}
              /\ targets[copy[t].token] # None /\ targets[copy[t].token].gen = gen[t]
TokenInv == OlderInv /\ TargetInv /\ PublishInv

\* A suspension can be taken back.
ResumableInv ==
    record.suspended /\ ~withdrawn =>
        /\ ~CrashAnywhere => record.root \in files
        /\ idleApp # None /\ idleApp.gen = record.gen
        /\ idleApp.suspended \/ pc[Idler] = "flag"

\* And so can one under way.
SuspendsInv ==
    /\ pc[Idler] = "flag" /\ ~withdrawn => gen[Idler] = record.gen
    /\ ~CrashAnywhere /\ pc[Idler] \in {"take", "close", "reads", "writes"} => record.root \in files

VisitsInv == AgreeInv /\ TurnInv /\ TokenInv /\ ResumableInv /\ SuspendsInv

Visits == overlap \subseteq Visitor => VisitsInv

IInv == Base /\ Apart /\ Kept /\ Alone /\ Visits

----------------------------------------------------------------------------
(* What the handlers do, for the proofs *)

USE ConstantsAssumption DEF Thread, siteVars, proxy, armVars, local, history

\* What an EXCEPT of the kinds the handlers use makes of a record.
LEMMA TokenCopied ==
    ASSUME NEW r \in Record, NEW k \in Token \cup {None}, NEW c, c = [r EXCEPT !.token = k]
    PROVE  c \in Record /\ c.token = k /\ SameButToken(c, r)
BY DEF Record, SameButToken

\* The EXCEPT of what ends a site,
LEMMA EndCopied ==
    ASSUME NEW r \in Record, NEW s \in {"stopped", "expired", "failed"},
           NEW c, c = [r EXCEPT !.status = s, !.port = None]
    PROVE  c \in Record /\ c.status = s /\ c.suspended = r.suspended /\ Same(c, r)
BY DEF Record, Same

\* and of what suspends it.
LEMMA SuspendedCopied ==
    ASSUME NEW r \in Record,
           NEW c, c = [r EXCEPT !.status = "stopped", !.suspended = TRUE, !.port = None]
    PROVE  c \in Record /\ c.status = "stopped" /\ c.suspended /\ Same(c, r)
BY DEF Record, Same

\* The fields of a record.
LEMMA Fields ==
    ASSUME NEW r \in Record
    PROVE  /\ r.root \in Root \cup {None} /\ r.port \in Site \cup {None}
           /\ r.token \in Token \cup {None}
           /\ r.gen \in Gen /\ r.gen \in Nat
           /\ r.doc \in Document \cup {None} /\ r.suspended \in BOOLEAN
BY DEF Record, Gen

\* No record.
LEMMA NoFields ==
    /\ NoRecord \in Record /\ NoRecord.status = "none" /\ NoRecord.gen = 0 /\ NoRecord.root = None
    /\ NoRecord.doc = None /\ NoRecord.token = None /\ NoRecord.port = None /\ ~NoRecord.suspended
BY DEF NoRecord, Record, Gen

\* What a step that only reads leaves alone.
Frame == UNCHANGED <<overlap, record, siteVars, idleApp, proxy, armVars, resuming, history>>

\* The copies read to be written back, whole and of the types, whatever the
\* handler changes in them: for a stop or an expiry,
LEMMA MarkReadsIs ==
    ASSUME Base, NEW t \in Admin \cup {Expirer}, MarkReads(t)
    PROVE  /\ Frame /\ pc[t] = "markReads"
           /\ \/ Leave(t) /\ (record = NoRecord \/ (t = Expirer /\ record.gen # gen[t]))
              \/ /\ KeepCopy(t, "markWrites", copy'[t]) /\ record # NoRecord
                 /\ copy'[t] \in Record \ {NoRecord} /\ Whole(copy'[t]) /\ Same(copy'[t], record)
                 /\ copy'[t].status \in {"stopped", "expired"} /\ copy'[t].suspended = record.suspended
<1>1. Frame /\ pc[t] = "markReads"
  BY DEF MarkReads, Frame
<1>2. ASSUME NEW c, KeepCopy(t, "markWrites", c) PROVE copy'[t] = c
  BY <1>2 DEF KeepCopy, Base, TypeOK, LocalsOK
<1>3. ASSUME NEW s \in {"stopped", "expired"}, record # NoRecord,
             KeepCopy(t, "markWrites", [record EXCEPT !.status = s, !.port = None])
      PROVE  /\ KeepCopy(t, "markWrites", copy'[t])
             /\ copy'[t] \in Record \ {NoRecord} /\ Whole(copy'[t]) /\ Same(copy'[t], record)
             /\ copy'[t].status \in {"stopped", "expired"} /\ copy'[t].suspended = record.suspended
  <2>1. PICK c : c = [record EXCEPT !.status = s, !.port = None]
    OBVIOUS
  <2>2. copy'[t] = c
    BY <1>2, <1>3, <2>1
  <2>3. record \in Record /\ Whole(record)
    BY DEF Base, TypeOK, WholeInv
  <2>4. c \in Record /\ c.status = s /\ c.suspended = record.suspended /\ Same(c, record)
    BY <2>1, <2>3 DEF Record, Same
  <2>5. c # NoRecord /\ Whole(c)
    BY <1>3, <2>3, <2>4, NoFields DEF Whole, Same
  <2>. QED
    BY <1>3, <2>1, <2>4, <2>5, <2>2
<1>4. CASE record = NoRecord \/ (t = Expirer /\ record.gen # gen[t])
  BY <1>1, <1>4 DEF MarkReads
<1>5. CASE record # NoRecord /\ t = Expirer /\ record.gen = gen[t]
  BY <1>1, <1>3, <1>5 DEF MarkReads
<1>6. CASE record # NoRecord /\ t # Expirer
  BY <1>1, <1>3, <1>6 DEF MarkReads
<1>. QED
  BY <1>4, <1>5, <1>6

\* for a suspension,
LEMMA SuspendReadsIs ==
    ASSUME Base, SuspendReads
    PROVE  /\ Frame /\ pc[Idler] = "reads"
           /\ \/ GoOn(Idler, "flag") /\ record = NoRecord
              \/ /\ KeepCopy(Idler, "writes", copy'[Idler]) /\ record # NoRecord
                 /\ copy'[Idler] \in Record \ {NoRecord} /\ Whole(copy'[Idler])
                 /\ Same(copy'[Idler], record)
                 /\ copy'[Idler].status = "stopped" /\ copy'[Idler].suspended
<1>1. Frame /\ pc[Idler] = "reads"
  BY DEF SuspendReads, Frame
<1>2. CASE record = NoRecord
  BY <1>1, <1>2 DEF SuspendReads
<1>3. CASE record # NoRecord
  <2> DEFINE c == [record EXCEPT !.status = "stopped", !.suspended = TRUE, !.port = None]
  <2>1. KeepCopy(Idler, "writes", c)
    BY <1>3 DEF SuspendReads
  <2>2. record \in Record /\ Whole(record)
    BY DEF Base, TypeOK, WholeInv
  <2>3. c \in Record /\ c.status = "stopped" /\ c.suspended /\ Same(c, record)
    BY <2>2, SuspendedCopied
  <2> HIDE DEF c
  <2>4. c # NoRecord /\ Whole(c)
    BY <1>3, <2>2, <2>3, NoFields DEF Whole, Same
  <2>5. copy'[Idler] = c
    BY <2>1 DEF KeepCopy, Base, TypeOK, LocalsOK
  <2>. QED
    BY <1>1, <1>3, <2>1, <2>3, <2>4, <2>5
<1>. QED
  BY <1>2, <1>3

\* for a request that has resumed the site,
LEMMA ResumeReadsIs ==
    ASSUME Base, NEW t \in Visitor, ResumeReads(t)
    PROVE  /\ Frame /\ pc[t] = "reads"
           /\ \/ KeepCopy(t, "flag", NoRecord) /\ record = NoRecord
              \/ /\ KeepCopy(t, "writes", copy'[t]) /\ record # NoRecord
                 /\ copy'[t] \in Record \ {NoRecord} /\ Whole(copy'[t]) /\ Same(copy'[t], record)
                 /\ copy'[t].status = "running" /\ ~copy'[t].suspended /\ copy'[t].port = site[t]
<1>1. Frame /\ pc[t] = "reads" /\ site[t] \in Site
  BY DEF ResumeReads, Frame, Base, LocalInv
<1>2. CASE record = NoRecord
  BY <1>1, <1>2 DEF ResumeReads
<1>3. CASE record # NoRecord
  <2>1. PICK c : c = [record EXCEPT !.status = "running", !.suspended = FALSE, !.port = site[t]]
    OBVIOUS
  <2>2. KeepCopy(t, "writes", c)
    BY <1>3, <2>1 DEF ResumeReads
  <2>3. record \in Record /\ Whole(record)
    BY DEF Base, TypeOK, WholeInv
  <2>4. c \in Record /\ c.status = "running" /\ ~c.suspended /\ c.port = site[t] /\ Same(c, record)
    BY <1>1, <2>3, <2>1 DEF Record, Same
  <2>5. c # NoRecord /\ Whole(c)
    BY <1>1, <1>3, <2>3, <2>4, NoFields DEF Whole, Same
  <2>6. copy'[t] = c
    BY <2>2 DEF KeepCopy, Base, TypeOK, LocalsOK
  <2>. QED
    BY <1>1, <1>3, <2>2, <2>4, <2>5, <2>6
<1>. QED
  BY <1>2, <1>3

\* for the token,
LEMMA TokenReadsIs ==
    ASSUME Base, NEW t \in Admin, TokenReads(t)
    PROVE  /\ Frame /\ pc[t] = "tokenReads"
           /\ \/ Leave(t) /\ record = NoRecord
              \/ /\ KeepCopy(t, "tokenWrites", copy'[t]) /\ record # NoRecord
                 /\ copy'[t] \in Record \ {NoRecord} /\ Whole(copy'[t])
                 /\ SameButToken(copy'[t], record) /\ copy'[t].token = copy[t].token
<1>1. Frame /\ pc[t] = "tokenReads"
  BY DEF TokenReads, Frame
<1>2. CASE record = NoRecord
  BY <1>1, <1>2 DEF TokenReads
<1>3. CASE record # NoRecord
  <2> DEFINE c == [record EXCEPT !.token = copy[t].token]
  <2>1. KeepCopy(t, "tokenWrites", c)
    BY <1>3 DEF TokenReads
  <2>2. record \in Record /\ copy[t] \in Record /\ Whole(record)
    BY DEF Base, TypeOK, LocalsOK, WholeInv
  <2>3. copy[t].token \in Token \cup {None}
    BY <2>2, Fields
  <2>4. c \in Record /\ SameButToken(c, record) /\ c.token = copy[t].token
    BY <2>2, <2>3, TokenCopied
  <2> HIDE DEF c
  <2>5. c # NoRecord /\ Whole(c)
    BY <1>3, <2>2, <2>4, NoFields DEF Whole, SameButToken
  <2>6. copy'[t] = c
    BY <2>1 DEF KeepCopy, Base, TypeOK, LocalsOK
  <2>. QED
    BY <1>1, <1>3, <2>1, <2>4, <2>5, <2>6
<1>. QED
  BY <1>2, <1>3

\* and for an apply, which makes a record of its own.
LEMMA RecordReadsIs ==
    ASSUME Base, NEW t \in Admin, RecordReads(t)
    PROVE  /\ Frame /\ pc[t] = "recordReads"
           /\ pc' = [pc EXCEPT ![t] = "recordWrites"]
           /\ gen' = [gen EXCEPT ![t] = record.gen + 1] /\ record.gen + 1 \in Gen
           /\ site' = [site EXCEPT ![t] = copy[t].port]
           /\ copy' = [copy EXCEPT ![t] = copy'[t]] /\ UNCHANGED <<op, doc>>
           /\ copy'[t] \in Record \ {NoRecord} /\ Whole(copy'[t])
           /\ copy'[t].status = "running" /\ ~copy'[t].suspended /\ copy'[t].gen = record.gen + 1
           /\ copy'[t].doc = doc[t] /\ copy'[t].root = copy[t].root /\ copy'[t].port = copy[t].port
           /\ copy'[t].token = Or(PinnedToken(doc[t]), record.token)
<1> DEFINE c == [status |-> "running", gen |-> record.gen + 1, doc |-> doc[t], root |-> copy[t].root,
                 port |-> copy[t].port, token |-> Or(PinnedToken(doc[t]), record.token),
                 suspended |-> FALSE]
<1>1. /\ doc[t] \in Document /\ copy[t].root \in Root /\ copy[t].port \in Site
      /\ record \in Record /\ record.token \in Token \cup {None}
  BY Fields DEF Base, TypeOK, RecordReads, ApplyInv, ApplyPC
<1>2. record.gen + 1 \in Gen
  BY DEF RecordReads
<1>3. Or(PinnedToken(doc[t]), record.token) \in Token \cup {None}
  BY <1>1 DEF Or, PinnedToken, Token
<1>4. c \in Record
  BY <1>1, <1>2, <1>3 DEF Record
<1>5. c # NoRecord /\ Whole(c)
  BY <1>1 DEF Whole, NoRecord
<1>6. copy' = [copy EXCEPT ![t] = c]
  BY DEF RecordReads
<1>7. copy'[t] = c
  BY <1>6 DEF Base, TypeOK, LocalsOK
<1>8. copy' = [copy EXCEPT ![t] = copy'[t]]
  BY <1>6, <1>7
<1>. QED
  BY <1>2, <1>4, <1>5, <1>7, <1>8 DEF RecordReads, Frame, Goto

\* A new site is one nobody knows.
New(s) ==
    /\ s \in Site /\ s \notin open /\ s # sites /\ record.port # s
    /\ \A k \in Token : targets[k] = None \/ targets[k].site # s
    /\ \A t \in Thread : site[t] # s /\ copy[t].port # s

\* The site a listener gets is such a one.
LEMMA NewSiteIs == ASSUME Unused # {} PROVE New(NewSite)
<1>1. NewSite \in Unused
  BY DEF NewSite
<1>. QED
  BY <1>1 DEF Unused, New

\* An apply unpacks into a new directory r and listens on a new site s.
NewPlace(t, r, s) ==
    /\ New(s) /\ r \notin files /\ r # record.root /\ \A u \in Thread : copy[u].root # r
    /\ files' = files \cup {r} /\ open' = open \cup {s}
    /\ rootOf' = [rootOf EXCEPT ![s] = r] /\ site' = [site EXCEPT ![t] = s]

\* What else it does.
ApplyBegins(t) ==
    /\ MayBegin(t) /\ pc' = [pc EXCEPT ![t] = "swap"] /\ op' = [op EXCEPT ![t] = "apply"]
    /\ "apply" \in Op
    /\ UNCHANGED <<overlap, record, sites, idleApp, proxy, armVars, resuming, gen, copy>>
    /\ UNCHANGED history

\* Apply is such a step.
LEMMA ApplyIs ==
    ASSUME Base, NEW t \in Admin, Apply(t)
    PROVE  /\ ApplyBegins(t)
           /\ \E d \in Document : doc' = [doc EXCEPT ![t] = d]
           /\ \E r \in Root, s \in Site : NewPlace(t, r, s)
<1> DEFINE r == CHOOSE x \in UnusedRoot : TRUE
<1>1. r \in UnusedRoot
  BY DEF Apply
<1>2. r \in Root /\ r \notin files /\ r # record.root /\ \A u \in Thread : copy[u].root # r
  BY <1>1 DEF UnusedRoot
<1>3. files' = files \cup {r} /\ Listen(t, r, "swap")
  BY DEF Apply
<1> HIDE DEF r
<1>4. New(NewSite) /\ NewSite \in Site
  BY <1>3, NewSiteIs DEF Listen, New
<1>5. /\ open' = open \cup {NewSite} /\ rootOf' = [rootOf EXCEPT ![NewSite] = r]
      /\ site' = [site EXCEPT ![t] = NewSite] /\ pc' = [pc EXCEPT ![t] = "swap"]
  BY <1>3 DEF Listen, Goto
<1>6. \E d \in Document : doc' = [doc EXCEPT ![t] = d]
  BY DEF Apply
<1>7. /\ MayBegin(t) /\ op' = [op EXCEPT ![t] = "apply"] /\ "apply" \in Op
      /\ UNCHANGED <<overlap, record, sites, idleApp, proxy, armVars, resuming, gen, copy>>
      /\ UNCHANGED history
  BY DEF Apply
<1>. QED
  BY <1>2, <1>3, <1>4, <1>5, <1>6, <1>7 DEF NewPlace, ApplyBegins

\* A request that resumes the site listens on a new one, s, and does no more.
OpensOn(t, s) ==
    /\ New(s) /\ open' = open \cup {s}
    /\ rootOf' = [rootOf EXCEPT ![s] = copy[t].root] /\ site' = [site EXCEPT ![t] = s]
OpensOnly(t) ==
    /\ pc[t] = "open" /\ pc' = [pc EXCEPT ![t] = "install"]
    /\ UNCHANGED <<overlap, record, sites, files, idleApp, proxy, armVars, resuming>>
    /\ UNCHANGED <<op, gen, copy, doc, history>>

\* ResumeOpens is such a step.
LEMMA ResumeOpensIs ==
    ASSUME Base, NEW t \in Visitor, ResumeOpens(t)
    PROVE  OpensOnly(t) /\ \E s \in Site : OpensOn(t, s)
<1>1. New(NewSite) /\ NewSite \in Site
  BY NewSiteIs DEF ResumeOpens, Listen, New
<1>. QED
  BY <1>1 DEF ResumeOpens, Listen, Goto, OpensOn, OpensOnly

\* A boot that ends what the record says is running.
BootEnds ==
    /\ Reboot /\ NothingServed /\ record.status = "running" /\ UNCHANGED withdrawn
    /\ files' = files \/ files' = files \ {record.root}
    /\ record' \in Record \ {NoRecord} /\ Whole(record') /\ Same(record', record)
    /\ record'.status \in {"expired", "failed"} /\ ~record'.suspended

\* A boot that fails and one after the deadline are such steps.
LEMMA BootEndsIs ==
    ASSUME Base, BootFails \/ BootExpires
    PROVE  BootEnds
<1>1. record \in Record /\ record # NoRecord /\ Whole(record) /\ record.status = "running"
  BY DEF Base, TypeOK, WholeInv, BootFails, BootExpires, Reboot
<1>2. ~record.suspended
  BY <1>1 DEF Whole
<1>3. PICK s \in {"expired", "failed"} : record' = [record EXCEPT !.status = s, !.port = None]
  BY DEF BootFails, BootExpires
<1>4. record' \in Record /\ record'.status = s /\ ~record'.suspended /\ Same(record', record)
  <2>1. PICK c : c = [record EXCEPT !.status = s, !.port = None]
    OBVIOUS
  <2>2. c \in Record /\ c.status = s /\ c.suspended = record.suspended /\ Same(c, record)
    BY <1>1, <2>1, EndCopied
  <2>. QED
    BY <1>2, <1>3, <2>1, <2>2
<1>5. record' # NoRecord /\ Whole(record')
  BY <1>1, <1>3, <1>4, NoFields DEF Whole, Same
<1>. QED
  BY <1>1, <1>3, <1>4, <1>5 DEF BootFails, BootExpires, BootEnds

\* A new target for the token of an exposed document.
LEMMA PublishIs ==
    ASSUME Base, NEW t \in Admin, Publish(t), doc[t] \in Exposed,
           NEW x, x = Or(PinnedToken(doc[t]), Or(record.token, Generated))
    PROVE  /\ x \in Token
           /\ copy'[t].token = x
           /\ targets' = [targets EXCEPT ![x] = [gen |-> gen[t], site |-> site[t]]]
<1>1. /\ doc[t] \in Document /\ copy[t] \in Record /\ record.token \in Token \cup {None}
  BY Fields DEF Base, TypeOK, LocalsOK, Publish, ApplyInv, ApplyPC
<1>2. x \in Token
  BY <1>1 DEF Or, PinnedToken, Token
<1>3. /\ copy' = [copy EXCEPT ![t].token = x]
      /\ targets' = [targets EXCEPT ![x] = [gen |-> gen[t], site |-> site[t]]]
  BY DEF Publish
<1>4. PICK c : c = [copy[t] EXCEPT !.token = x]
  OBVIOUS
<1>5. copy' = [copy EXCEPT ![t] = c]
  BY <1>3, <1>4
<1>6. c.token = x
  BY <1>1, <1>4 DEF Record
<1>7. copy'[t] = c
  BY <1>5 DEF Base, TypeOK, LocalsOK
<1>. QED
  BY <1>2, <1>3, <1>6, <1>7

\* Constants are of the types.
LEMMA Types ==
    /\ NoRecord \in Record /\ 0 \in Gen /\ Gen \subseteq Nat
    /\ \A l \in ApplyPC \cup ClosePC \cup HeldPC : l \in PC
    /\ \A l \in {"idle", "deregister", "guard", "touch"} : l \in PC
BY DEF NoRecord, Record, Gen, ApplyPC, ClosePC, HeldPC, PC

\* The steps most handlers end with keep the local variables of their types.
LEMMA LeaveTyped == ASSUME LocalsOK, NEW t \in Thread, Leave(t) PROVE LocalsOK'
BY Types DEF LocalsOK, Leave, Goto

\* Going on keeps them, except to where a copy is needed,
LEMMA GoOnTyped ==
    ASSUME LocalsOK, NEW t \in Thread,
           NEW l \in PC \ {"markWrites", "tokenWrites", "writes"}, GoOn(t, l)
    PROVE  LocalsOK'
BY DEF LocalsOK, GoOn, Goto

\* for which it is read first.
LEMMA KeepCopyTyped ==
    ASSUME LocalsOK, NEW t \in Thread, NEW l \in PC, NEW c \in Record, KeepCopy(t, l, c),
           l \in {"markWrites", "tokenWrites", "writes"} => c # NoRecord
    PROVE  LocalsOK'
BY DEF LocalsOK, KeepCopy, Goto

\* With whom a thread is under way.
LEMMA Company ==
    ASSUME Base, ExpiryApart
    PROVE  /\ \A t \in Admin, u \in Thread : t # u /\ pc[t] # "idle" => pc[u] = "idle"
           /\ \A t \in Visitor : pc[Expirer] # "idle" => pc[t] = "idle"
BY DEF Base, OverlapInv, ExpiryApart

\* Where requests and a suspension overlap, no expiry gets in their way.
LEMMA RequestsApart == ASSUME Requests PROVE ExpiryApart
BY DEF Requests, ExpiryApart

\* There, an administrator's call and an expiry run alone.
LEMMA RequestsCompany ==
    ASSUME Base, Requests
    PROVE  \A t \in Admin \cup {Expirer}, u \in Thread : t # u /\ pc[t] # "idle" => pc[u] = "idle"
BY DEF Base, OverlapInv, Requests

\* Where only requests overlap, everything but a request runs alone.
LEMMA VisitsCompany ==
    ASSUME Base, overlap \subseteq Visitor
    PROVE  \A t \in Thread \ Visitor, u \in Thread : t # u /\ pc[t] # "idle" => pc[u] = "idle"
BY DEF Base, OverlapInv

----------------------------------------------------------------------------
(* Every step keeps the invariant *)

\* Base is inductive on its own.
LEMMA BaseStep ==
    ASSUME Base, [Next]_vars
    PROVE  Base'
<1>1. ASSUME NEW t \in Admin, Apply(t) PROVE Base'
  <2>1. PICK d \in Document : doc' = [doc EXCEPT ![t] = d]
    BY <1>1, ApplyIs
  <2>2. PICK r \in Root, s \in Site : NewPlace(t, r, s)
    BY <1>1, ApplyIs
  <2>3. ApplyBegins(t)
    BY <1>1, ApplyIs
  <2>4. HeldInv'
    BY <1>1, <2>1, <2>2, <2>3
       DEF MayBegin, Busy, New, Base, TypeOK, HeldInv, LocalsOK, NewPlace, ApplyBegins
  <2>5. OverlapInv' /\ PlaceInv' /\ TypeOK'
    BY <1>1, <2>2, <2>3, <2>1
       DEF MayBegin, Busy, New, OverlapInv, Base, PlaceInv, ApplyPC, TypeOK, LocalsOK, PC,
           NewPlace, ApplyBegins
  <2>6. WholeInv' /\ ApplyInv' /\ LocalInv' /\ ListenInv'
    BY <1>1, <2>1, <2>2, <2>3
       DEF MayBegin, Busy, New, Base, TypeOK, WholeInv, LocalsOK, ApplyInv, LocalInv, ListenInv,
           NewPlace, ApplyBegins
  <2>. QED
    BY <2>4, <2>5, <2>6 DEF Base
<1>2. ASSUME NEW t \in Admin, ApplySwaps(t) PROVE Base'
  <2>1. OverlapInv' /\ WholeInv' /\ LocalInv'
    BY <1>2 DEF ApplySwaps, Goto, Base, TypeOK, OverlapInv, LocalsOK, WholeInv, LocalInv
  <2>2. HeldInv' /\ ApplyInv' /\ ListenInv' /\ PlaceInv'
    BY <1>2
       DEF ApplySwaps, Goto, Base, TypeOK, HeldInv, LocalsOK, ApplyInv, ApplyPC, ListenInv,
           HandPC, PlaceInv, ClosePC, HeldPC
  <2>3. TypeOK'
    <3>1. rootOf[site[t]] \in Root /\ site[t] \in Site /\ copy[t] \in Record
      BY <1>2 DEF Base, ApplySwaps, ApplyInv, TypeOK, LocalsOK
    <3>2. PICK c : c = [copy[t] EXCEPT !.root = rootOf[site[t]], !.port = site[t]]
      OBVIOUS
    <3>3. c \in Record
      BY <1>2, <3>1, <3>2 DEF Record
    <3>4. copy' = [copy EXCEPT ![t] = c]
      BY <1>2, <3>2 DEF ApplySwaps, Base, TypeOK, LocalsOK
    <3>5. /\ copy' \in [Thread -> Record]
          /\ \A u \in Thread : copy[u] # NoRecord /\ pc'[u] # "swap" /\ u # t => copy'[u] # NoRecord
      BY <1>2, <3>3, <3>4 DEF Base, TypeOK, LocalsOK
    <3>6. /\ pc' = [pc EXCEPT ![t] = IF sites = None THEN "recordReads" ELSE "closeOld"]
          /\ site' = [site EXCEPT ![t] = sites] /\ UNCHANGED <<op, gen, doc>>
      BY <1>2 DEF ApplySwaps, Goto
    <3>7. LocalsOK'
      BY <1>2, <3>3, <3>4, <3>6 DEF Base, TypeOK, LocalsOK, PC
    <3>. QED
      BY <1>2, <3>1, <3>7 DEF Base, ApplySwaps, TypeOK
  <2>. QED
    BY <2>1, <2>2, <2>3 DEF Base
<1>3. ASSUME NEW t \in Admin, ApplyCloses(t) PROVE Base'
  BY <1>3
     DEF ApplyCloses, Goto, Base, TypeOK, LocalsOK, PC, OverlapInv, WholeInv, LocalInv, HeldInv,
         ApplyInv, ApplyPC, ListenInv, HandPC, PlaceInv, ClosePC, HeldPC
<1>4. ASSUME NEW t \in Admin, RecordReads(t) PROVE Base'
  <2>1. TypeOK'
    BY <1>4, RecordReadsIs, Types, Fields
       DEF Goto, Frame, Base, TypeOK, PlaceInv, WholeInv, LocalsOK, ApplyPC
  <2>2. OverlapInv' /\ WholeInv' /\ LocalInv'
    BY <1>4, RecordReadsIs
       DEF Goto, Frame, Base, TypeOK, OverlapInv, LocalsOK, WholeInv, LocalInv
  <2>3. HeldInv' /\ PlaceInv'
    BY <1>4, RecordReadsIs DEF Goto, Frame, Base, TypeOK, HeldInv, LocalsOK, PlaceInv, ApplyPC
  <2>4. ListenInv' /\ ApplyInv'
    BY <1>4, RecordReadsIs
       DEF Goto, Frame, Base, TypeOK, ListenInv, HandPC, LocalsOK, Or, ApplyInv, ApplyPC
  <2>. QED
    BY <2>1, <2>2, <2>3, <2>4 DEF Base
<1>5. ASSUME NEW t \in Admin, RecordWrites(t) PROVE Base'
  <2>1. OverlapInv' /\ WholeInv' /\ LocalInv' /\ HeldInv' /\ ApplyInv' /\ ListenInv' /\ PlaceInv'
    BY <1>5
       DEF RecordWrites, KeepCopy, Goto, Base, TypeOK, OverlapInv, LocalsOK, WholeInv, LocalInv,
           HeldInv, ApplyInv, ApplyPC, ListenInv, HandPC, PlaceInv, ClosePC, HeldPC
  <2>2. TypeOK'
    <3>1. LocalsOK'
      BY <1>5, KeepCopyTyped, Types DEF Base, TypeOK, RecordWrites, PC
    <3>2. copy[t] \in Record /\ copy[t].root \in Root /\ gen[t] \in Gen
      BY <1>5 DEF Base, TypeOK, LocalsOK, RecordWrites, ApplyInv
    <3>3. genOf' \in [Root -> Gen]
      BY <1>5, <3>2 DEF Base, TypeOK, RecordWrites
    <3>. QED
      BY <1>5, <3>1, <3>2, <3>3 DEF Base, RecordWrites, TypeOK
  <2>. QED
    BY <2>1, <2>2 DEF Base
<1>6. ASSUME NEW t \in Admin, ApplyArmsTtl(t) PROVE Base'
  <2>1. PlaceInv'
    BY <1>6
       DEF ApplyArmsTtl, GoOn, Goto, Base, TypeOK, PlaceInv, ApplyPC, ClosePC, HeldPC, LocalsOK
  <2>2. TypeOK' /\ OverlapInv' /\ WholeInv' /\ LocalInv' /\ HeldInv' /\ ApplyInv' /\ ListenInv'
    BY <1>6
       DEF ApplyArmsTtl, GoOn, Goto, Base, TypeOK, LocalsOK, PC, OverlapInv, WholeInv, LocalInv,
           HeldInv, ApplyInv, ApplyPC, ListenInv, HandPC
  <2>. QED
    BY <2>1, <2>2 DEF Base
<1>7. ASSUME NEW t \in Admin, Publish(t) PROVE Base'
  <2>1. PlaceInv' /\ OverlapInv' /\ WholeInv' /\ LocalInv' /\ HeldInv' /\ ApplyInv' /\ ListenInv'
    BY <1>7
       DEF Publish, Goto, Base, PlaceInv, ApplyPC, TypeOK, OverlapInv, LocalsOK, WholeInv,
           LocalInv, HeldInv, Or, PinnedToken, Token, ApplyInv, ListenInv, HandPC
  <2>2. TypeOK'
    <3>1. /\ doc[t] \in Document /\ gen[t] \in Gen /\ site[t] \in Site /\ copy[t] \in Record
          /\ record.token \in Token \cup {None}
      BY <1>7, Fields DEF Base, TypeOK, LocalsOK, Publish, ApplyInv, ApplyPC
    <3> DEFINE x == Or(PinnedToken(doc[t]), Or(record.token, Generated))
               y == Or(PinnedToken(doc[t]), IF doc[t] \in Exposed THEN Or(record.token, Generated)
                                            ELSE record.token)
    <3>2. x \in Token /\ y \in Token \cup {None}
      BY <1>7, <3>1 DEF Or, PinnedToken, Token
    <3> HIDE DEF x, y
    <3>3. targets' = targets \/ targets' = [targets EXCEPT ![x] = [gen |-> gen[t], site |-> site[t]]]
      BY <1>7 DEF Publish, x
    <3>4. targets' \in [Token -> Target \cup {None}]
      BY <1>7, <3>1, <3>2, <3>3 DEF Base, TypeOK, Target
    <3>5. PICK c : c = [copy[t] EXCEPT !.token = y]
      OBVIOUS
    <3>6. c \in Record
      BY <1>7, <3>1, <3>2, <3>5 DEF Record
    <3>7. copy' = [copy EXCEPT ![t] = c]
      BY <1>7, <3>5 DEF Publish, y
    <3>8. /\ pc' = [pc EXCEPT ![t] = IF doc[t] \in Idle THEN "armIdle" ELSE "remember"]
          /\ UNCHANGED <<op, gen, site, doc>>
      BY <1>7 DEF Publish, Goto
    <3>9. LocalsOK'
      BY <1>7, <3>6, <3>7, <3>8 DEF Base, TypeOK, LocalsOK, PC
    <3>. QED
      BY <1>7, <3>4, <3>9 DEF Base, Publish, TypeOK
  <2>. QED
    BY <2>1, <2>2 DEF Base
<1>8. ASSUME NEW t \in Admin, PublishFails(t) PROVE Base'
  BY <1>8, Types
     DEF PublishFails, Leave, Goto, Base, TypeOK, LocalsOK, PlaceInv, OverlapInv, WholeInv,
         LocalInv, ListenInv, HeldInv, ApplyInv, ApplyPC
<1>9. ASSUME NEW t \in Admin, ApplyArmsIdle(t) PROVE Base'
  <2>1. PlaceInv'
    BY <1>9
       DEF ApplyArmsIdle, GoOn, Goto, Base, TypeOK, PlaceInv, ApplyPC, ClosePC, HeldPC, LocalsOK
  <2>2. TypeOK' /\ OverlapInv' /\ WholeInv' /\ LocalInv' /\ HeldInv' /\ ApplyInv' /\ ListenInv'
    BY <1>9
       DEF ApplyArmsIdle, GoOn, Goto, Base, TypeOK, LocalsOK, PC, OverlapInv, WholeInv, LocalInv,
           HeldInv, ApplyInv, ApplyPC, ListenInv, HandPC
  <2>. QED
    BY <2>1, <2>2 DEF Base
<1>10. ASSUME NEW t \in Admin, Remember(t) PROVE Base'
  <2>1. PlaceInv'
    BY <1>10
       DEF Remember, GoOn, Goto, Leave, Base, TypeOK, PlaceInv, ApplyPC, ClosePC, HeldPC,
           LocalsOK
  <2>2. OverlapInv' /\ WholeInv' /\ LocalInv'
    BY <1>10
       DEF Remember, GoOn, Goto, Leave, Base, TypeOK, OverlapInv, LocalsOK, WholeInv, LocalInv
  <2>3. HeldInv' /\ ApplyInv' /\ ListenInv'
    BY <1>10
       DEF Remember, GoOn, Goto, Leave, Base, TypeOK, HeldInv, LocalsOK, ApplyInv, ApplyPC,
           ListenInv, HandPC
  <2>4. TypeOK'
    <3>1. LocalsOK'
      BY <1>10, LeaveTyped, GoOnTyped DEF Base, TypeOK, Remember, PC
    <3>2. idleApp' \in IdleApp
      BY <1>10 DEF Base, TypeOK, LocalsOK, Remember, IdleApp, ApplyInv, ApplyPC
    <3>. QED
      BY <1>10, <3>1, <3>2 DEF Base, Remember, TypeOK
  <2>. QED
    BY <2>1, <2>2, <2>3, <2>4 DEF Base
<1>11. ASSUME NEW t \in Admin, TokenReads(t) PROVE Base'
  <2>1. OverlapInv' /\ HeldInv'
    BY <1>11, TokenReadsIs
       DEF KeepCopy, Goto, Leave, Frame, Base, TypeOK, OverlapInv, LocalsOK, HeldInv
  <2>2. ApplyInv'
    BY <1>11, TokenReadsIs
       DEF KeepCopy, Goto, Leave, Frame, Base, TypeOK, ApplyInv, ApplyPC, LocalsOK
  <2>3. ListenInv' /\ PlaceInv'
    BY <1>11, TokenReadsIs
       DEF KeepCopy, Goto, Leave, Frame, Base, TypeOK, ListenInv, HandPC, LocalsOK, PlaceInv,
           ApplyPC, ClosePC, HeldPC
  <2>4. TypeOK'
    <3>1. LocalsOK'
      BY <1>11, LeaveTyped, GoOnTyped, KeepCopyTyped, Types, TokenReadsIs
         DEF Base, TypeOK, Frame, PC
    <3>. QED
      BY <1>11, <3>1, TokenReadsIs DEF Base, Frame, TypeOK
  <2>5. WholeInv'
    <3>1. \/ Leave(t)
          \/ KeepCopy(t, "tokenWrites", copy'[t]) /\ copy'[t] # NoRecord /\ Whole(copy'[t])
      BY <1>11, TokenReadsIs
    <3>2. UNCHANGED record
      BY <1>11, TokenReadsIs DEF Frame
    <3>. QED
      BY <1>11, <3>1, <3>2 DEF Leave, KeepCopy, Goto, Base, TypeOK, LocalsOK, WholeInv
  <2>6. LocalInv'
    <3>1. Leave(t) \/ KeepCopy(t, "tokenWrites", copy'[t])
      BY <1>11, TokenReadsIs
    <3>2. UNCHANGED rootOf
      BY <1>11, TokenReadsIs DEF Frame
    <3>. QED
      BY <1>11, <3>1, <3>2 DEF Leave, KeepCopy, Goto, Base, TypeOK, LocalsOK, LocalInv
  <2>. QED
    BY <2>1, <2>2, <2>3, <2>4, <2>5, <2>6 DEF Base
<1>12. ASSUME NEW t \in Admin, TokenWrites(t) PROVE Base'
  BY <1>12, Types
     DEF TokenWrites, Leave, Goto, Base, TypeOK, LocalsOK, PlaceInv, OverlapInv, WholeInv,
         LocalInv, ListenInv, HeldInv, ApplyInv, ApplyPC
<1>13. ASSUME NEW t \in Admin, Stop(t) PROVE Base'
  <2>1. PlaceInv'
    BY <1>13
       DEF Stop, MayBegin, Busy, Goto, Base, TypeOK, PlaceInv, ApplyPC, ClosePC, HeldPC, LocalsOK
  <2>2. OverlapInv' /\ TypeOK' /\ WholeInv' /\ LocalInv' /\ HeldInv' /\ ApplyInv' /\ ListenInv'
    BY <1>13
       DEF Stop, MayBegin, Busy, Goto, OverlapInv, Base, TypeOK, LocalsOK, PC, WholeInv,
           LocalInv, HeldInv, ApplyInv, ApplyPC, ListenInv, HandPC
  <2>. QED
    BY <2>1, <2>2 DEF Base
<1>14. ASSUME NEW t \in Admin, Remove(t) PROVE Base'
  <2>1. PlaceInv'
    BY <1>14
       DEF Remove, MayBegin, Busy, Goto, Base, TypeOK, PlaceInv, ApplyPC, ClosePC, HeldPC,
           LocalsOK
  <2>2. OverlapInv' /\ TypeOK' /\ WholeInv' /\ LocalInv' /\ HeldInv' /\ ApplyInv' /\ ListenInv'
    BY <1>14
       DEF Remove, MayBegin, Busy, Goto, OverlapInv, Base, TypeOK, LocalsOK, PC, WholeInv,
           LocalInv, HeldInv, ApplyInv, ApplyPC, ListenInv, HandPC
  <2>. QED
    BY <2>1, <2>2 DEF Base
<1>15. ASSUME NEW t \in Admin \cup {Expirer}, Withdraw(t) PROVE Base'
  <2>1. PlaceInv'
    BY <1>15 DEF Withdraw, GoOn, Goto, Base, TypeOK, PlaceInv, ApplyPC, ClosePC, HeldPC, LocalsOK
  <2>2. OverlapInv' /\ WholeInv' /\ LocalInv' /\ HeldInv' /\ TypeOK' /\ ApplyInv' /\ ListenInv'
    BY <1>15, Types
       DEF Withdraw, GoOn, Goto, Base, TypeOK, OverlapInv, LocalsOK, WholeInv, LocalInv, HeldInv,
           PC, ApplyInv, ApplyPC, ListenInv, HandPC
  <2>. QED
    BY <2>1, <2>2 DEF Base
<1>16. ASSUME NEW t \in Admin \cup {Expirer}, Unregister(t) PROVE Base'
  <2>1. PlaceInv'
    BY <1>16
       DEF Unregister, GoOn, Goto, Base, TypeOK, PlaceInv, ApplyPC, ClosePC, HeldPC, LocalsOK
  <2>2. TypeOK' /\ OverlapInv' /\ WholeInv' /\ LocalInv' /\ HeldInv' /\ ApplyInv' /\ ListenInv'
    BY <1>16
       DEF Unregister, GoOn, Goto, Base, TypeOK, LocalsOK, PC, OverlapInv, WholeInv, LocalInv,
           HeldInv, ApplyInv, ApplyPC, ListenInv, HandPC
  <2>. QED
    BY <2>1, <2>2 DEF Base
<1>17. ASSUME NEW t \in Admin \cup {Expirer}, TakeSite(t) PROVE Base'
  BY <1>17
     DEF TakeSite, Goto, Base, TypeOK, LocalsOK, PC, OverlapInv, WholeInv, LocalInv, ListenInv,
         HeldInv, ApplyInv, ApplyPC, PlaceInv, ClosePC, HeldPC
<1>18. ASSUME NEW t \in Admin \cup {Expirer}, NoSite(t) PROVE Base'
  <2>1. PlaceInv'
    BY <1>18
       DEF NoSite, Leave, GoOn, Goto, Base, TypeOK, PlaceInv, ApplyPC, ClosePC, HeldPC, LocalsOK
  <2>2. OverlapInv' /\ WholeInv' /\ LocalInv' /\ HeldInv' /\ ApplyInv' /\ ListenInv'
    BY <1>18
       DEF NoSite, Leave, GoOn, Goto, Base, TypeOK, OverlapInv, LocalsOK, WholeInv, LocalInv,
           HeldInv, ApplyInv, ApplyPC, ListenInv, HandPC
  <2>3. TypeOK'
    <3>1. LocalsOK'
      BY <1>18, LeaveTyped, GoOnTyped, KeepCopyTyped, Types DEF Base, TypeOK, NoSite, PC
    <3>. QED
      BY <1>18, <3>1 DEF Base, NoSite, TypeOK
  <2>. QED
    BY <2>1, <2>2, <2>3 DEF Base
<1>19. ASSUME NEW t \in Admin \cup {Expirer}, CloseSite(t) PROVE Base'
  <2>1. PlaceInv'
    BY <1>19
       DEF CloseSite, GoOn, Goto, Base, TypeOK, PlaceInv, ApplyPC, ClosePC, HeldPC, LocalsOK
  <2>2. TypeOK' /\ OverlapInv' /\ WholeInv' /\ LocalInv' /\ HeldInv' /\ ApplyInv' /\ ListenInv'
    BY <1>19
       DEF CloseSite, GoOn, Goto, Base, TypeOK, LocalsOK, PC, OverlapInv, WholeInv, LocalInv,
           HeldInv, ApplyInv, ApplyPC, ListenInv, HandPC
  <2>. QED
    BY <2>1, <2>2 DEF Base
<1>20. ASSUME NEW t \in Admin \cup {Expirer}, MarkReads(t) PROVE Base'
  <2>1. OverlapInv' /\ HeldInv'
    BY <1>20, MarkReadsIs
       DEF Leave, KeepCopy, Goto, Frame, Base, TypeOK, OverlapInv, LocalsOK, HeldInv
  <2>2. ApplyInv'
    BY <1>20, MarkReadsIs
       DEF Leave, KeepCopy, Goto, Frame, Base, TypeOK, ApplyInv, ApplyPC, LocalsOK
  <2>3. ListenInv'
    BY <1>20, MarkReadsIs
       DEF Leave, KeepCopy, Goto, Frame, Base, TypeOK, ListenInv, HandPC, LocalsOK
  <2>4. PlaceInv'
    BY <1>20, MarkReadsIs
       DEF Leave, KeepCopy, Goto, Frame, Base, TypeOK, PlaceInv, ApplyPC, ClosePC, HeldPC,
           LocalsOK
  <2>5. TypeOK'
    <3>1. LocalsOK'
      BY <1>20, LeaveTyped, GoOnTyped, KeepCopyTyped, Types, MarkReadsIs
         DEF Base, TypeOK, Frame, PC
    <3>. QED
      BY <1>20, <3>1, MarkReadsIs DEF Base, Frame, TypeOK
  <2>6. WholeInv'
    <3>1. \/ Leave(t)
          \/ KeepCopy(t, "markWrites", copy'[t]) /\ copy'[t] # NoRecord /\ Whole(copy'[t])
      BY <1>20, MarkReadsIs
    <3>2. UNCHANGED record
      BY <1>20, MarkReadsIs DEF Frame
    <3>. QED
      BY <1>20, <3>1, <3>2 DEF Leave, KeepCopy, Goto, Base, TypeOK, LocalsOK, WholeInv
  <2>7. LocalInv'
    <3>1. \/ Leave(t)
          \/ KeepCopy(t, "markWrites", copy'[t]) /\ copy'[t].status \in {"stopped", "expired"}
      BY <1>20, MarkReadsIs
    <3>2. UNCHANGED rootOf
      BY <1>20, MarkReadsIs DEF Frame
    <3>. QED
      BY <1>20, <3>1, <3>2 DEF Leave, KeepCopy, Goto, Base, TypeOK, LocalsOK, LocalInv
  <2>. QED
    BY <2>1, <2>2, <2>3, <2>4, <2>5, <2>6, <2>7 DEF Base
<1>21. ASSUME NEW t \in Admin \cup {Expirer}, MarkWrites(t) PROVE Base'
  BY <1>21, Types
     DEF MarkWrites, Leave, Goto, Base, TypeOK, LocalsOK, PlaceInv, OverlapInv, WholeInv,
         LocalInv, ListenInv, HeldInv, ApplyInv, ApplyPC
<1>22. ASSUME NEW t \in Admin \cup {Expirer}, Deregister(t) PROVE Base'
  <2>1. TypeOK' /\ PlaceInv' /\ OverlapInv' /\ LocalInv'
    BY <1>22, Types
       DEF Deregister, Leave, Goto, Base, TypeOK, LocalsOK, PlaceInv, OverlapInv, LocalInv
  <2>2. ListenInv' /\ HeldInv' /\ WholeInv' /\ ApplyInv'
    BY <1>22
       DEF Deregister, Leave, Goto, Base, TypeOK, ListenInv, LocalsOK, HeldInv, WholeInv, Whole,
           ApplyInv, ApplyPC
  <2>. QED
    BY <2>1, <2>2 DEF Base
<1>23. CASE TtlFires
  <2>1. ListenInv'
    BY <1>23 DEF TtlFires, MayBegin, Busy, Goto, Base, TypeOK, ListenInv, HandPC, LocalsOK
  <2>2. OverlapInv' /\ PlaceInv' /\ WholeInv' /\ LocalInv' /\ HeldInv' /\ TypeOK' /\ ApplyInv'
    BY <1>23, Types
       DEF TtlFires, MayBegin, Busy, Goto, OverlapInv, Base, TypeOK, PlaceInv, LocalsOK,
           WholeInv, LocalInv, HeldInv, PC, ApplyInv, ApplyPC
  <2>. QED
    BY <2>1, <2>2 DEF Base
<1>24. CASE ExpireChecks
  <2>1. PlaceInv'
    BY <1>24
       DEF ExpireChecks, GoOn, Leave, Goto, Base, TypeOK, PlaceInv, ApplyPC, ClosePC, HeldPC,
           LocalsOK
  <2>2. OverlapInv' /\ WholeInv' /\ LocalInv' /\ HeldInv' /\ ApplyInv' /\ ListenInv'
    BY <1>24
       DEF ExpireChecks, GoOn, Leave, Goto, Base, TypeOK, OverlapInv, LocalsOK, WholeInv,
           LocalInv, HeldInv, ApplyInv, ApplyPC, ListenInv, HandPC
  <2>3. TypeOK'
    <3>1. LocalsOK'
      BY <1>24, LeaveTyped, GoOnTyped, KeepCopyTyped, Types DEF Base, TypeOK, ExpireChecks, PC
    <3>. QED
      BY <1>24, <3>1 DEF Base, ExpireChecks, TypeOK
  <2>. QED
    BY <2>1, <2>2, <2>3 DEF Base
<1>25. CASE IdleFires
  <2>1. ListenInv'
    BY <1>25 DEF IdleFires, MayBegin, Busy, Goto, Base, TypeOK, ListenInv, HandPC, LocalsOK
  <2>2. OverlapInv' /\ PlaceInv' /\ WholeInv' /\ LocalInv' /\ HeldInv' /\ TypeOK' /\ ApplyInv'
    BY <1>25, Types
       DEF IdleFires, MayBegin, Busy, Goto, OverlapInv, Base, TypeOK, PlaceInv, LocalsOK,
           WholeInv, LocalInv, HeldInv, PC, ApplyInv, ApplyPC
  <2>. QED
    BY <2>1, <2>2 DEF Base
<1>26. CASE SuspendLooksUp
  <2>1. PlaceInv' /\ OverlapInv' /\ WholeInv' /\ LocalInv' /\ HeldInv' /\ ApplyInv' /\ ListenInv'
    BY <1>26
       DEF SuspendLooksUp, GoOn, Leave, Goto, Base, TypeOK, PlaceInv, LocalsOK, OverlapInv,
           WholeInv, LocalInv, HeldInv, ApplyInv, ApplyPC, ListenInv, HandPC
  <2>2. TypeOK'
    <3>1. LocalsOK'
      BY <1>26, LeaveTyped, GoOnTyped, KeepCopyTyped, Types DEF Base, TypeOK, SuspendLooksUp, PC
    <3>. QED
      BY <1>26, <3>1 DEF Base, SuspendLooksUp, TypeOK
  <2>. QED
    BY <2>1, <2>2 DEF Base
<1>27. CASE SuspendChecks
  <2>1. PlaceInv' /\ OverlapInv' /\ WholeInv' /\ LocalInv' /\ HeldInv' /\ ApplyInv' /\ ListenInv'
    BY <1>27
       DEF SuspendChecks, GoOn, Leave, Goto, Base, TypeOK, PlaceInv, LocalsOK, OverlapInv,
           WholeInv, LocalInv, HeldInv, ApplyInv, ApplyPC, ListenInv, HandPC
  <2>2. TypeOK'
    <3>1. LocalsOK'
      BY <1>27, LeaveTyped, GoOnTyped, KeepCopyTyped, Types DEF Base, TypeOK, SuspendChecks, PC
    <3>. QED
      BY <1>27, <3>1 DEF Base, SuspendChecks, TypeOK
  <2>. QED
    BY <2>1, <2>2 DEF Base
<1>28. CASE SuspendTakes
  BY <1>28
     DEF SuspendTakes, Goto, Base, TypeOK, LocalsOK, PC, PlaceInv, OverlapInv, WholeInv,
         LocalInv, ListenInv, HeldInv, ApplyInv, ApplyPC
<1>29. CASE SuspendCloses
  BY <1>29
     DEF SuspendCloses, GoOn, Goto, Base, TypeOK, LocalsOK, PC, PlaceInv, OverlapInv, WholeInv,
         LocalInv, HeldInv, ApplyInv, ApplyPC, ListenInv, HandPC
<1>30. CASE SuspendReads
  <2>1. PlaceInv' /\ OverlapInv' /\ WholeInv' /\ LocalInv' /\ HeldInv' /\ ApplyInv' /\ ListenInv'
    BY <1>30, SuspendReadsIs
       DEF GoOn, KeepCopy, Goto, Frame, Base, TypeOK, PlaceInv, LocalsOK, OverlapInv, WholeInv,
           LocalInv, HeldInv, ApplyInv, ApplyPC, ListenInv, HandPC
  <2>2. TypeOK'
    <3>1. LocalsOK'
      BY <1>30, LeaveTyped, GoOnTyped, KeepCopyTyped, Types, SuspendReadsIs
         DEF Base, TypeOK, Frame, PC
    <3>. QED
      BY <1>30, <3>1, SuspendReadsIs DEF Base, Frame, TypeOK
  <2>. QED
    BY <2>1, <2>2 DEF Base
<1>31. CASE SuspendWrites
  BY <1>31, Types
     DEF SuspendWrites, KeepCopy, Goto, Base, TypeOK, PlaceInv, LocalsOK, OverlapInv, WholeInv,
         LocalInv, HeldInv, PC, ApplyInv, ApplyPC, ListenInv, HandPC
<1>32. CASE SuspendFlags
  <2>1. PlaceInv' /\ OverlapInv' /\ WholeInv' /\ LocalInv' /\ ListenInv' /\ HeldInv' /\ ApplyInv'
    BY <1>32
       DEF SuspendFlags, Leave, Goto, Base, TypeOK, PlaceInv, LocalsOK, OverlapInv, WholeInv,
           LocalInv, ListenInv, HeldInv, ApplyInv, ApplyPC
  <2>2. TypeOK'
    <3>1. LocalsOK'
      BY <1>32, LeaveTyped DEF Base, TypeOK, SuspendFlags
    <3>2. idleApp' \in IdleApp \cup {None}
      BY <1>32 DEF Base, TypeOK, SuspendFlags, IdleApp
    <3>. QED
      BY <1>32, <3>1, <3>2 DEF Base, SuspendFlags, TypeOK
  <2>. QED
    BY <2>1, <2>2 DEF Base
<1>33. ASSUME NEW t \in Visitor, Visit(t) PROVE Base'
  <2>1. TypeOK'
    BY <1>33 DEF Visit, MayBegin, Busy, Goto, Base, TypeOK, LocalsOK, Target, IdleApp, PC
  <2>2. OverlapInv' /\ PlaceInv' /\ ApplyInv' /\ ListenInv' /\ HeldInv'
    BY <1>33
       DEF Visit, MayBegin, Busy, Goto, OverlapInv, Base, TypeOK, PlaceInv, LocalsOK, ApplyInv,
           ApplyPC, ListenInv, HandPC, HeldInv, HeldPC
  <2>3. WholeInv'
    <3>1. UNCHANGED <<record, copy>> /\ pc' = [pc EXCEPT ![t] = "guard"]
      BY <1>33 DEF Visit, Goto
    <3>. QED
      BY <1>33, <3>1 DEF Base, TypeOK, LocalsOK, WholeInv
  <2>4. LocalInv'
    <3>1. PICK s \in Site : site' = [site EXCEPT ![t] = s]
      BY <1>33 DEF Visit, Base, TypeOK, Target
    <3>2. UNCHANGED <<rootOf, copy>> /\ pc' = [pc EXCEPT ![t] = "guard"]
      BY <1>33 DEF Visit, Goto
    <3>. QED
      BY <1>33, <3>1, <3>2 DEF Base, TypeOK, LocalsOK, LocalInv
  <2>. QED
    BY <2>1, <2>2, <2>3, <2>4 DEF Base
<1>34. ASSUME NEW t \in Visitor, ResumeGuard(t) PROVE Base'
  <2>1. PlaceInv'
    BY <1>34
       DEF ResumeGuard, GoOn, Goto, Base, TypeOK, PlaceInv, ApplyPC, ClosePC, HeldPC, LocalsOK
  <2>2. TypeOK' /\ OverlapInv' /\ WholeInv' /\ LocalInv' /\ ApplyInv' /\ ListenInv' /\ HeldInv'
    BY <1>34
       DEF ResumeGuard, GoOn, Goto, Base, TypeOK, LocalsOK, PC, OverlapInv, WholeInv, LocalInv,
           ApplyInv, ApplyPC, ListenInv, HandPC, HeldInv, HeldPC
  <2>. QED
    BY <2>1, <2>2 DEF Base
<1>35. ASSUME NEW t \in Visitor, ResumeLooksUp(t) PROVE Base'
  <2>1. OverlapInv' /\ WholeInv' /\ LocalInv' /\ ApplyInv' /\ ListenInv' /\ HeldInv' /\ PlaceInv'
    BY <1>35
       DEF ResumeLooksUp, GoOn, Goto, Base, TypeOK, OverlapInv, LocalsOK, WholeInv, LocalInv,
           ApplyInv, ApplyPC, ListenInv, HandPC, HeldInv, HeldPC, PlaceInv, ClosePC
  <2>2. TypeOK'
    <3>1. LocalsOK'
      BY <1>35, GoOnTyped, KeepCopyTyped, Types DEF Base, TypeOK, ResumeLooksUp, PC
    <3>. QED
      BY <1>35, <3>1 DEF Base, ResumeLooksUp, TypeOK
  <2>. QED
    BY <2>1, <2>2 DEF Base
<1>36. ASSUME NEW t \in Visitor, ResumeChecks(t) PROVE Base'
  <2>1. PlaceInv'
    BY <1>36
       DEF ResumeChecks, KeepCopy, GoOn, Leave, Goto, Base, TypeOK, PlaceInv, ApplyPC, ClosePC,
           HeldPC, LocalsOK
  <2>2. OverlapInv' /\ WholeInv' /\ LocalInv' /\ ApplyInv' /\ ListenInv' /\ HeldInv'
    BY <1>36
       DEF ResumeChecks, KeepCopy, GoOn, Leave, Goto, Base, TypeOK, OverlapInv, LocalsOK,
           WholeInv, LocalInv, ApplyInv, ApplyPC, ListenInv, HandPC, HeldInv, HeldPC
  <2>3. TypeOK'
    <3>1. LocalsOK'
      BY <1>36, LeaveTyped, GoOnTyped, KeepCopyTyped, Types DEF Base, TypeOK, ResumeChecks, PC
    <3>. QED
      BY <1>36, <3>1 DEF Base, ResumeChecks, TypeOK
  <2>. QED
    BY <2>1, <2>2, <2>3 DEF Base
<1>37. ASSUME NEW t \in Visitor, ResumeFails(t) PROVE Base'
  <2>1. PlaceInv' /\ OverlapInv' /\ WholeInv' /\ LocalInv' /\ ListenInv' /\ ApplyInv' /\ HeldInv'
    BY <1>37
       DEF ResumeFails, Leave, Goto, Base, TypeOK, PlaceInv, LocalsOK, OverlapInv, WholeInv,
           LocalInv, ListenInv, ApplyInv, ApplyPC, HeldInv, HeldPC
  <2>2. TypeOK'
    <3>1. LocalsOK'
      BY <1>37, LeaveTyped, GoOnTyped, KeepCopyTyped, Types DEF Base, TypeOK, ResumeFails, PC
    <3>. QED
      BY <1>37, <3>1 DEF Base, ResumeFails, TypeOK
  <2>. QED
    BY <2>1, <2>2 DEF Base
<1>38. ASSUME NEW t \in Visitor, ResumeOpens(t) PROVE Base'
  <2>1. PICK s \in Site : OpensOn(t, s)
    BY <1>38, ResumeOpensIs
  <2>2. OpensOnly(t)
    BY <1>38, ResumeOpensIs
  <2>3. /\ PlaceInv' /\ OverlapInv' /\ WholeInv' /\ LocalInv'
        /\ ListenInv' /\ HeldInv' /\ TypeOK' /\ ApplyInv'
    BY <1>38, <2>2, <2>1, Fields
       DEF New, Base, PlaceInv, HeldPC, TypeOK, OverlapInv, LocalsOK, WholeInv, LocalInv,
           ListenInv, HeldInv, PC, ApplyInv, ApplyPC, OpensOn, OpensOnly
  <2>. QED
    BY <2>3 DEF Base
<1>39. ASSUME NEW t \in Visitor, ResumeInstalls(t) PROVE Base'
  <2>1. PlaceInv'
    BY <1>39
       DEF ResumeInstalls, GoOn, Goto, Base, TypeOK, PlaceInv, ApplyPC, ClosePC, HeldPC, LocalsOK
  <2>2. TypeOK' /\ OverlapInv' /\ WholeInv' /\ LocalInv' /\ ApplyInv' /\ ListenInv' /\ HeldInv'
    BY <1>39
       DEF ResumeInstalls, GoOn, Goto, Base, TypeOK, LocalsOK, PC, OverlapInv, WholeInv,
           LocalInv, ApplyInv, ApplyPC, ListenInv, HandPC, HeldInv, HeldPC
  <2>. QED
    BY <2>1, <2>2 DEF Base
<1>40. ASSUME NEW t \in Visitor, ResumeRegisters(t) PROVE Base'
  <2>1. OverlapInv' /\ WholeInv' /\ LocalInv' /\ ApplyInv' /\ ListenInv' /\ HeldInv' /\ PlaceInv'
    BY <1>40
       DEF ResumeRegisters, GoOn, Goto, Base, TypeOK, OverlapInv, LocalsOK, WholeInv, LocalInv,
           ApplyInv, ApplyPC, ListenInv, HandPC, HeldInv, HeldPC, PlaceInv, ClosePC
  <2>2. TypeOK'
    <3>1. LocalsOK'
      BY <1>40, GoOnTyped DEF Base, TypeOK, ResumeRegisters, PC
    <3>2. gen[t] \in Gen /\ site[t] \in Site
      BY <1>40 DEF Base, TypeOK, LocalsOK, ResumeRegisters, LocalInv
    <3>3. targets' \in [Token -> Target \cup {None}]
      BY <1>40, <3>2 DEF Base, TypeOK, ResumeRegisters, Target
    <3>. QED
      BY <1>40, <3>1, <3>3 DEF Base, ResumeRegisters, TypeOK
  <2>. QED
    BY <2>1, <2>2 DEF Base
<1>41. ASSUME NEW t \in Visitor, ResumeReads(t) PROVE Base'
  <2>1. PlaceInv'
    BY <1>41, ResumeReadsIs
       DEF KeepCopy, Goto, Frame, Base, TypeOK, PlaceInv, ApplyPC, ClosePC, HeldPC, LocalsOK
  <2>2. OverlapInv' /\ WholeInv' /\ LocalInv'
    BY <1>41, ResumeReadsIs
       DEF KeepCopy, Goto, Frame, Base, TypeOK, OverlapInv, LocalsOK, WholeInv, LocalInv
  <2>3. ApplyInv' /\ ListenInv' /\ HeldInv'
    BY <1>41, ResumeReadsIs
       DEF KeepCopy, Goto, Frame, Base, TypeOK, ApplyInv, ApplyPC, LocalsOK, ListenInv, HandPC,
           HeldInv, HeldPC
  <2>4. TypeOK'
    <3>1. LocalsOK'
      BY <1>41, LeaveTyped, GoOnTyped, KeepCopyTyped, Types, ResumeReadsIs
         DEF Base, TypeOK, Frame, PC
    <3>. QED
      BY <1>41, <3>1, ResumeReadsIs DEF Base, Frame, TypeOK
  <2>. QED
    BY <2>1, <2>2, <2>3, <2>4 DEF Base
<1>42. ASSUME NEW t \in Visitor, ResumeWrites(t) PROVE Base'
  <2>1. PlaceInv'
    BY <1>42
       DEF ResumeWrites, KeepCopy, Goto, Base, TypeOK, PlaceInv, ApplyPC, ClosePC, HeldPC,
           LocalsOK
  <2>2. OverlapInv' /\ WholeInv' /\ LocalInv' /\ TypeOK' /\ ApplyInv' /\ ListenInv' /\ HeldInv'
    BY <1>42, Types
       DEF ResumeWrites, KeepCopy, Goto, Base, TypeOK, OverlapInv, LocalsOK, WholeInv, LocalInv,
           PC, ApplyInv, ApplyPC, ListenInv, HandPC, HeldInv, HeldPC
  <2>. QED
    BY <2>1, <2>2 DEF Base
<1>43. ASSUME NEW t \in Visitor, ResumeFlags(t) PROVE Base'
  <2>1. OverlapInv' /\ WholeInv' /\ LocalInv' /\ ApplyInv' /\ ListenInv' /\ HeldInv' /\ PlaceInv'
    BY <1>43
       DEF ResumeFlags, GoOn, Goto, Base, TypeOK, OverlapInv, LocalsOK, WholeInv, LocalInv,
           ApplyInv, ApplyPC, ListenInv, HandPC, HeldInv, HeldPC, PlaceInv, ClosePC
  <2>2. TypeOK'
    <3>1. LocalsOK'
      BY <1>43, GoOnTyped DEF Base, TypeOK, ResumeFlags, PC
    <3>2. idleApp' \in IdleApp \cup {None}
      BY <1>43 DEF Base, TypeOK, ResumeFlags, IdleApp
    <3>. QED
      BY <1>43, <3>1, <3>2 DEF Base, ResumeFlags, TypeOK
  <2>. QED
    BY <2>1, <2>2 DEF Base
<1>44. ASSUME NEW t \in Visitor, ResumeArms(t) PROVE Base'
  <2>1. PlaceInv' /\ OverlapInv' /\ WholeInv' /\ LocalInv' /\ ApplyInv' /\ ListenInv' /\ HeldInv'
    BY <1>44
       DEF ResumeArms, GoOn, Goto, Base, TypeOK, PlaceInv, LocalsOK, OverlapInv, WholeInv,
           LocalInv, ApplyInv, ApplyPC, ListenInv, HandPC, HeldInv, HeldPC
  <2>2. TypeOK'
    <3>1. LocalsOK'
      BY <1>44, GoOnTyped DEF Base, TypeOK, ResumeArms, PC
    <3>. QED
      BY <1>44, <3>1 DEF Base, ResumeArms, TypeOK, LocalsOK
  <2>. QED
    BY <2>1, <2>2 DEF Base
<1>45. ASSUME NEW t \in Visitor, Touch(t) PROVE Base'
  <2>1. TypeOK' /\ PlaceInv' /\ OverlapInv' /\ WholeInv'
    BY <1>45, Types
       DEF Touch, Leave, Goto, Base, TypeOK, LocalsOK, PlaceInv, OverlapInv, WholeInv
  <2>2. LocalInv' /\ ListenInv' /\ ApplyInv' /\ HeldInv'
    BY <1>45
       DEF Touch, Leave, Goto, Base, TypeOK, LocalInv, LocalsOK, ListenInv, ApplyInv, ApplyPC,
           HeldInv, HeldPC
  <2>. QED
    BY <2>1, <2>2 DEF Base
<1>46. CASE BootServes
  <2>1. PlaceInv' /\ OverlapInv' /\ LocalInv' /\ ListenInv' /\ WholeInv' /\ ApplyInv' /\ HeldInv'
    BY <1>46
       DEF BootServes, Reboot, PlaceInv, OverlapInv, LocalInv, ListenInv, Base, TypeOK, WholeInv,
           LocalsOK, ApplyInv, ApplyPC, HeldInv, HeldPC
  <2>2. TypeOK'
    <3>1. LocalsOK'
      BY <1>46, Types DEF Reboot, LocalsOK, PC, BootServes
    <3>2. record.gen \in Gen /\ record.doc \in Document /\ record.port \in Site
      BY <1>46, Fields, NoFields DEF Base, TypeOK, WholeInv, Whole, BootServes, Reboot
    <3>3. idleApp' \in IdleApp /\ targets' \in [Token -> Target \cup {None}]
      BY <1>46, <3>2 DEF BootServes, IdleApp, Target
    <3>. QED
      BY <1>46, <3>1, <3>2, <3>3, Types DEF Base, BootServes, Reboot, TypeOK
  <2>. QED
    BY <2>1, <2>2 DEF Base
<1>47. CASE BootFails
  <2>1. BootEnds
    BY <1>47, BootEndsIs
  <2>2. PlaceInv' /\ OverlapInv' /\ WholeInv' /\ LocalInv' /\ ListenInv' /\ ApplyInv' /\ HeldInv'
    BY <1>47, <2>1
       DEF Reboot, NothingServed, PlaceInv, OverlapInv, WholeInv, LocalInv, ListenInv, Base,
           TypeOK, ApplyInv, ApplyPC, LocalsOK, HeldInv, HeldPC, BootEnds
  <2>3. TypeOK'
    <3>1. LocalsOK'
      BY <1>47, Types, <2>1 DEF Reboot, LocalsOK, PC, BootEnds
    <3>. QED
      BY <1>47, <2>1, <3>1, Types DEF Base, Reboot, NothingServed, TypeOK, BootEnds
  <2>. QED
    BY <2>2, <2>3 DEF Base
<1>48. CASE BootExpires
  <2>1. BootEnds
    BY <1>48, BootEndsIs
  <2>2. PlaceInv' /\ OverlapInv' /\ WholeInv' /\ LocalInv' /\ ListenInv' /\ ApplyInv' /\ HeldInv'
    BY <1>48, <2>1
       DEF Reboot, NothingServed, PlaceInv, OverlapInv, WholeInv, LocalInv, ListenInv, Base,
           TypeOK, ApplyInv, ApplyPC, LocalsOK, HeldInv, HeldPC, BootEnds
  <2>3. TypeOK'
    <3>1. LocalsOK'
      BY <1>48, Types, <2>1 DEF Reboot, LocalsOK, PC, BootEnds
    <3>. QED
      BY <1>48, <2>1, <3>1, Types DEF Base, Reboot, NothingServed, TypeOK, BootEnds
  <2>. QED
    BY <2>2, <2>3 DEF Base
<1>49. CASE BootSkips
  <2>1. TypeOK'
    BY <1>49, Types DEF BootSkips, Reboot, NothingServed, Base, TypeOK, LocalsOK
  <2>2. PlaceInv' /\ OverlapInv' /\ LocalInv' /\ ListenInv' /\ WholeInv' /\ ApplyInv' /\ HeldInv'
    BY <1>49
       DEF BootSkips, Reboot, NothingServed, PlaceInv, OverlapInv, LocalInv, ListenInv, Base,
           TypeOK, WholeInv, LocalsOK, ApplyInv, ApplyPC, HeldInv, HeldPC
  <2>. QED
    BY <2>1, <2>2 DEF Base
<1>50. CASE UNCHANGED vars
  BY <1>50
     DEF vars, TypeOK, PlaceInv, OverlapInv, WholeInv, ApplyInv, LocalInv, ListenInv, HeldInv,
         LocalsOK, Record, Base
<1>. QED
  BY <1>1, <1>2, <1>3, <1>4, <1>5, <1>6, <1>7, <1>8, <1>9, <1>10, <1>11, <1>12, <1>13, <1>14,
     <1>15, <1>16, <1>17, <1>18, <1>19, <1>20, <1>21, <1>22, <1>23, <1>24, <1>25, <1>26, <1>27,
     <1>28, <1>29, <1>30, <1>31, <1>32, <1>33, <1>34, <1>35, <1>36, <1>37, <1>38, <1>39, <1>40,
     <1>41, <1>42, <1>43, <1>44, <1>45, <1>46, <1>47, <1>48, <1>49, <1>50
     DEF Next, ApplyStep, CloseStep, SuspendStep, VisitStep

\* ApartInv is kept with Base.
LEMMA ApartStep ==
    ASSUME Base, ExpiryApart, SameInv, GenInv, RootInv, SitesInv, [Next]_vars
    PROVE  ApartInv'
<1>1. ASSUME NEW t \in Admin, Apply(t) PROVE ApartInv'
  <2>1. PICK d \in Document : doc' = [doc EXCEPT ![t] = d]
    BY <1>1, ApplyIs
  <2>2. PICK r \in Root, s \in Site : NewPlace(t, r, s)
    BY <1>1, ApplyIs
  <2>3. ApplyBegins(t)
    BY <1>1, ApplyIs
  <2>4. SameInv' /\ RootInv' /\ SitesInv' /\ GenInv'
    BY <1>1, <2>2, <2>3, <2>1
       DEF MayBegin, Busy, New, SameInv, RootInv, SitesInv, GenInv, NewPlace, ApplyBegins
  <2>. QED
    BY <2>4 DEF ApartInv
<1>2. ASSUME NEW t \in Admin, ApplySwaps(t) PROVE ApartInv'
  BY <1>2, Company
     DEF ApplySwaps, Goto, GenInv, RootInv, Base, TypeOK, LocalsOK, SameInv, SitesInv, ApartInv
<1>3. ASSUME NEW t \in Admin, ApplyCloses(t) PROVE ApartInv'
  BY <1>3 DEF ApplyCloses, Goto, SameInv, GenInv, RootInv, SitesInv, ApartInv
<1>4. ASSUME NEW t \in Admin, RecordReads(t) PROVE ApartInv'
  BY <1>4, RecordReadsIs
     DEF Goto, Frame, Base, TypeOK, LocalsOK, SameInv, GenInv, RootInv, SitesInv, ApartInv
<1>5. ASSUME NEW t \in Admin, RecordWrites(t) PROVE ApartInv'
  BY <1>5, Company
     DEF RecordWrites, KeepCopy, Goto, Base, TypeOK, LocalsOK, SitesInv, SameInv, RootInv,
         ApplyInv, GenInv, ClosePC, ApartInv
<1>6. ASSUME NEW t \in Admin, ApplyArmsTtl(t) PROVE ApartInv'
  BY <1>6 DEF ApplyArmsTtl, GoOn, Goto, SameInv, GenInv, RootInv, SitesInv, ApartInv
<1>7. ASSUME NEW t \in Admin, Publish(t) PROVE ApartInv'
  BY <1>7 DEF Publish, Goto, SameInv, GenInv, RootInv, SitesInv, ApartInv
<1>8. ASSUME NEW t \in Admin, PublishFails(t) PROVE ApartInv'
  BY <1>8
     DEF PublishFails, Leave, Goto, SameInv, RootInv, SitesInv, Base, TypeOK, LocalsOK, GenInv,
         ApartInv
<1>9. ASSUME NEW t \in Admin, ApplyArmsIdle(t) PROVE ApartInv'
  BY <1>9 DEF ApplyArmsIdle, GoOn, Goto, SameInv, GenInv, RootInv, SitesInv, ApartInv
<1>10. ASSUME NEW t \in Admin, Remember(t) PROVE ApartInv'
  BY <1>10
     DEF Remember, GoOn, Goto, Leave, Base, TypeOK, LocalsOK, SameInv, GenInv, RootInv, SitesInv,
         ApartInv
<1>11. ASSUME NEW t \in Admin, TokenReads(t) PROVE ApartInv'
  BY <1>11, TokenReadsIs
     DEF KeepCopy, Goto, Leave, Frame, Base, TypeOK, LocalsOK, SameInv, GenInv, RootInv,
         SitesInv, ApartInv
<1>12. ASSUME NEW t \in Admin, TokenWrites(t) PROVE ApartInv'
  BY <1>12, Company, NoFields
     DEF TokenWrites, Leave, Goto, SitesInv, Base, TypeOK, LocalsOK, SameInv, GenInv, ClosePC,
         RootInv, WholeInv, Whole, SameButToken, ApartInv
<1>13. ASSUME NEW t \in Admin, Stop(t) PROVE ApartInv'
  BY <1>13 DEF Stop, MayBegin, Busy, Goto, SameInv, GenInv, RootInv, SitesInv, ApartInv
<1>14. ASSUME NEW t \in Admin, Remove(t) PROVE ApartInv'
  BY <1>14 DEF Remove, MayBegin, Busy, Goto, SameInv, GenInv, RootInv, SitesInv, ApartInv
<1>15. ASSUME NEW t \in Admin \cup {Expirer}, Withdraw(t) PROVE ApartInv'
  BY <1>15 DEF Withdraw, GoOn, Goto, SameInv, RootInv, SitesInv, GenInv, ClosePC, ApartInv
<1>16. ASSUME NEW t \in Admin \cup {Expirer}, Unregister(t) PROVE ApartInv'
  BY <1>16 DEF Unregister, GoOn, Goto, SameInv, RootInv, SitesInv, GenInv, ClosePC, ApartInv
<1>17. ASSUME NEW t \in Admin \cup {Expirer}, TakeSite(t) PROVE ApartInv'
  BY <1>17, Company
     DEF TakeSite, Goto, SameInv, RootInv, GenInv, ClosePC, Base, TypeOK, LocalsOK, SitesInv,
         ApartInv
<1>18. ASSUME NEW t \in Admin \cup {Expirer}, NoSite(t) PROVE ApartInv'
  BY <1>18
     DEF NoSite, Leave, GoOn, Goto, Base, TypeOK, LocalsOK, SameInv, RootInv, SitesInv, GenInv,
         PlaceInv, ApartInv
<1>19. ASSUME NEW t \in Admin \cup {Expirer}, CloseSite(t) PROVE ApartInv'
  BY <1>19 DEF CloseSite, GoOn, Goto, SameInv, RootInv, SitesInv, GenInv, ClosePC, ApartInv
<1>20. ASSUME NEW t \in Admin \cup {Expirer}, MarkReads(t) PROVE ApartInv'
  BY <1>20, MarkReadsIs
     DEF Leave, KeepCopy, Goto, Frame, Base, TypeOK, LocalsOK, SameInv, RootInv, SitesInv,
         GenInv, PlaceInv, ApartInv
<1>21. ASSUME NEW t \in Admin \cup {Expirer}, MarkWrites(t) PROVE ApartInv'
  <2>1. RootInv'
    BY <1>21, NoFields
       DEF MarkWrites, Leave, Goto, Base, RootInv, WholeInv, Whole, SameInv, Same, LocalInv
  <2>2. SitesInv' /\ SameInv' /\ GenInv'
    BY <1>21, Company
       DEF MarkWrites, Leave, Goto, SitesInv, Base, TypeOK, LocalsOK, SameInv, Same, PlaceInv,
           GenInv, ClosePC
  <2>. QED
    BY <2>1, <2>2 DEF ApartInv
<1>22. ASSUME NEW t \in Admin \cup {Expirer}, Deregister(t) PROVE ApartInv'
  BY <1>22, Company, NoFields
     DEF Deregister, Leave, Goto, SitesInv, RootInv, Base, SameInv, PlaceInv, ClosePC, GenInv,
         ApartInv
<1>23. CASE TtlFires
  BY <1>23
     DEF TtlFires, MayBegin, Busy, Goto, SameInv, RootInv, SitesInv, GenInv, ClosePC, ApartInv
<1>24. CASE ExpireChecks
  BY <1>24, NoFields
     DEF ExpireChecks, GoOn, Leave, Goto, Base, TypeOK, LocalsOK, SameInv, RootInv, SitesInv,
         GenInv, ClosePC, ApartInv
<1>25. CASE IdleFires
  BY <1>25 DEF IdleFires, MayBegin, Busy, Goto, SameInv, GenInv, RootInv, SitesInv, ApartInv
<1>26. CASE SuspendLooksUp
  BY <1>26
     DEF SuspendLooksUp, GoOn, Leave, Goto, Base, TypeOK, LocalsOK, SameInv, GenInv, RootInv,
         SitesInv, ApartInv
<1>27. CASE SuspendChecks
  BY <1>27, NoFields
     DEF SuspendChecks, GoOn, Leave, Goto, Base, TypeOK, LocalsOK, SameInv, RootInv, SitesInv,
         GenInv, ApartInv
<1>28. CASE SuspendTakes
  BY <1>28, Company
     DEF SuspendTakes, Goto, SameInv, GenInv, RootInv, Base, TypeOK, LocalsOK, SitesInv, ApartInv
<1>29. CASE SuspendCloses
  BY <1>29 DEF SuspendCloses, GoOn, Goto, SameInv, GenInv, RootInv, SitesInv, ApartInv
<1>30. CASE SuspendReads
  BY <1>30, SuspendReadsIs
     DEF GoOn, KeepCopy, Goto, Frame, Base, TypeOK, LocalsOK, SameInv, GenInv, RootInv, SitesInv,
         ApartInv
<1>31. CASE SuspendWrites
  BY <1>31, NoFields, Company
     DEF SuspendWrites, KeepCopy, Goto, SitesInv, Base, GenInv, SameInv, Same, LocalInv, RootInv,
         TypeOK, LocalsOK, PlaceInv, ClosePC, HeldPC, ApartInv
<1>32. CASE SuspendFlags
  BY <1>32 DEF SuspendFlags, Leave, Goto, SameInv, GenInv, RootInv, SitesInv, ApartInv
<1>33. ASSUME NEW t \in Visitor, Visit(t) PROVE ApartInv'
  BY <1>33 DEF Visit, MayBegin, Busy, Goto, SameInv, GenInv, RootInv, SitesInv, ApartInv
<1>34. ASSUME NEW t \in Visitor, ResumeGuard(t) PROVE ApartInv'
  BY <1>34 DEF ResumeGuard, GoOn, Goto, SameInv, GenInv, RootInv, SitesInv, ApartInv
<1>35. ASSUME NEW t \in Visitor, ResumeLooksUp(t) PROVE ApartInv'
  BY <1>35
     DEF ResumeLooksUp, GoOn, Goto, Base, TypeOK, LocalsOK, SameInv, GenInv, RootInv, SitesInv,
         ApartInv
<1>36. ASSUME NEW t \in Visitor, ResumeChecks(t) PROVE ApartInv'
  BY <1>36
     DEF ResumeChecks, KeepCopy, GoOn, Leave, Goto, Base, TypeOK, LocalsOK, GenInv, RootInv,
         SitesInv, SameInv, Same, SameButToken, ApartInv
<1>37. ASSUME NEW t \in Visitor, ResumeFails(t) PROVE ApartInv'
  BY <1>37
     DEF ResumeFails, Leave, Goto, RootInv, SitesInv, Base, TypeOK, LocalsOK, SameInv, GenInv,
         ApartInv
<1>38. ASSUME NEW t \in Visitor, ResumeOpens(t) PROVE ApartInv'
  <2>1. PICK s \in Site : OpensOn(t, s)
    BY <1>38, ResumeOpensIs
  <2>2. OpensOnly(t)
    BY <1>38, ResumeOpensIs
  <2>3. SameInv' /\ GenInv' /\ SitesInv' /\ RootInv'
    BY <1>38, <2>2, <2>1 DEF New, SameInv, GenInv, SitesInv, RootInv, OpensOn, OpensOnly
  <2>. QED
    BY <2>3 DEF ApartInv
<1>39. ASSUME NEW t \in Visitor, ResumeInstalls(t) PROVE ApartInv'
  BY <1>39, Company
     DEF ResumeInstalls, GoOn, Goto, SameInv, GenInv, Base, RootInv, Same, LocalInv, TypeOK,
         LocalsOK, SitesInv, ApartInv
<1>40. ASSUME NEW t \in Visitor, ResumeRegisters(t) PROVE ApartInv'
  BY <1>40 DEF ResumeRegisters, GoOn, Goto, SameInv, GenInv, RootInv, SitesInv, ApartInv
<1>41. ASSUME NEW t \in Visitor, ResumeReads(t) PROVE ApartInv'
  BY <1>41, ResumeReadsIs
     DEF KeepCopy, Goto, Frame, Base, TypeOK, LocalsOK, SameInv, GenInv, RootInv, SitesInv,
         ApartInv
<1>42. ASSUME NEW t \in Visitor, ResumeWrites(t) PROVE ApartInv'
  BY <1>42, NoFields, Company
     DEF ResumeWrites, KeepCopy, Goto, SitesInv, Base, RootInv, SameInv, Same, LocalInv, GenInv,
         TypeOK, LocalsOK, PlaceInv, HeldPC, HeldInv, ApartInv
<1>43. ASSUME NEW t \in Visitor, ResumeFlags(t) PROVE ApartInv'
  BY <1>43 DEF ResumeFlags, GoOn, Goto, SameInv, GenInv, RootInv, SitesInv, ApartInv
<1>44. ASSUME NEW t \in Visitor, ResumeArms(t) PROVE ApartInv'
  BY <1>44 DEF ResumeArms, GoOn, Goto, SameInv, GenInv, RootInv, SitesInv, ApartInv
<1>45. ASSUME NEW t \in Visitor, Touch(t) PROVE ApartInv'
  BY <1>45 DEF Touch, Leave, Goto, SameInv, GenInv, RootInv, SitesInv, ApartInv
<1>46. CASE BootServes
  BY <1>46 DEF BootServes, Reboot, SameInv, RootInv, SitesInv, GenInv, ClosePC, ApartInv
<1>47. CASE BootFails
  <2>1. BootEnds
    BY <1>47, BootEndsIs
  <2>2. SameInv' /\ SitesInv' /\ GenInv' /\ RootInv'
    BY <1>47, <2>1
       DEF Reboot, NothingServed, SameInv, SitesInv, GenInv, ClosePC, RootInv, Same, BootEnds
  <2>. QED
    BY <2>2 DEF ApartInv
<1>48. CASE BootExpires
  <2>1. BootEnds
    BY <1>48, BootEndsIs
  <2>2. SameInv' /\ SitesInv' /\ GenInv' /\ RootInv'
    BY <1>48, <2>1
       DEF Reboot, NothingServed, SameInv, SitesInv, GenInv, ClosePC, RootInv, Same, BootEnds
  <2>. QED
    BY <2>2 DEF ApartInv
<1>49. CASE BootSkips
  BY <1>49
     DEF BootSkips, Reboot, NothingServed, SameInv, RootInv, SitesInv, GenInv, ClosePC, ApartInv
<1>50. CASE UNCHANGED vars
  BY <1>50 DEF vars, SameInv, GenInv, RootInv, SitesInv, ApartInv
<1>. QED
  BY <1>1, <1>2, <1>3, <1>4, <1>5, <1>6, <1>7, <1>8, <1>9, <1>10, <1>11, <1>12, <1>13, <1>14,
     <1>15, <1>16, <1>17, <1>18, <1>19, <1>20, <1>21, <1>22, <1>23, <1>24, <1>25, <1>26, <1>27,
     <1>28, <1>29, <1>30, <1>31, <1>32, <1>33, <1>34, <1>35, <1>36, <1>37, <1>38, <1>39, <1>40,
     <1>41, <1>42, <1>43, <1>44, <1>45, <1>46, <1>47, <1>48, <1>49, <1>50
     DEF Next, ApplyStep, CloseStep, SuspendStep, VisitStep

\* FilesInv is kept with them, unless a handler is cut off.
LEMMA FilesStep ==
    ASSUME Base, ExpiryApart, ~CrashAnywhere, SameInv, GenInv, RootInv, SitesInv, FilesInv,
           [Next]_vars
    PROVE  FilesInv'
<1>1. ASSUME NEW t \in Admin, Apply(t) PROVE FilesInv'
  <2>1. PICK d \in Document : doc' = [doc EXCEPT ![t] = d]
    BY <1>1, ApplyIs
  <2>2. PICK r \in Root, s \in Site : NewPlace(t, r, s)
    BY <1>1, ApplyIs
  <2>3. ApplyBegins(t)
    BY <1>1, ApplyIs
  <2>4. ServedKept' /\ ResumedKept' /\ RecordKept' /\ AppliedKept'
    BY <1>1, <2>2, <2>3
       DEF MayBegin, Busy, New, ServedKept, FilesInv, ResumedKept, RecordKept, Recording, Base,
           TypeOK, LocalsOK, AppliedKept, NewPlace, ApplyBegins
  <2>. QED
    BY <2>4 DEF FilesInv
<1>2. ASSUME NEW t \in Admin, ApplySwaps(t) PROVE FilesInv'
  BY <1>2, Company
     DEF ApplySwaps, Goto, ServedKept, AppliedKept, Busy, FilesInv, Base, TypeOK, LocalsOK,
         RecordKept, Recording, ResumedKept
<1>3. ASSUME NEW t \in Admin, ApplyCloses(t) PROVE FilesInv'
  BY <1>3, Company
     DEF ApplyCloses, Goto, ServedKept, AppliedKept, Busy, FilesInv, Base, TypeOK, LocalsOK,
         RecordKept, Recording, ResumedKept, SitesInv, ApplyInv
<1>4. ASSUME NEW t \in Admin, RecordReads(t) PROVE FilesInv'
  BY <1>4, RecordReadsIs
     DEF Goto, Frame, ServedKept, FilesInv, Base, TypeOK, LocalsOK, RecordKept, Recording,
         ResumedKept, AppliedKept
<1>5. ASSUME NEW t \in Admin, RecordWrites(t) PROVE FilesInv'
  BY <1>5, Company
     DEF RecordWrites, KeepCopy, Goto, RecordKept, AppliedKept, Busy, FilesInv, Base, TypeOK,
         LocalsOK, ServedKept, Recording, ResumedKept
<1>6. ASSUME NEW t \in Admin, ApplyArmsTtl(t) PROVE FilesInv'
  BY <1>6
     DEF ApplyArmsTtl, GoOn, Goto, Base, TypeOK, LocalsOK, ServedKept, Recording, FilesInv,
         RecordKept, ResumedKept, AppliedKept
<1>7. ASSUME NEW t \in Admin, Publish(t) PROVE FilesInv'
  BY <1>7
     DEF Publish, Goto, ServedKept, FilesInv, ResumedKept, AppliedKept, RecordKept, Recording
<1>8. ASSUME NEW t \in Admin, PublishFails(t) PROVE FilesInv'
  BY <1>8
     DEF PublishFails, Leave, Goto, Base, TypeOK, LocalsOK, ServedKept, Recording, FilesInv,
         RecordKept, ResumedKept, AppliedKept
<1>9. ASSUME NEW t \in Admin, ApplyArmsIdle(t) PROVE FilesInv'
  BY <1>9
     DEF ApplyArmsIdle, GoOn, Goto, Base, TypeOK, LocalsOK, ServedKept, Recording, FilesInv,
         RecordKept, ResumedKept, AppliedKept
<1>10. ASSUME NEW t \in Admin, Remember(t) PROVE FilesInv'
  BY <1>10
     DEF Remember, GoOn, Goto, Leave, Base, TypeOK, LocalsOK, ServedKept, Recording, FilesInv,
         RecordKept, ResumedKept, AppliedKept
<1>11. ASSUME NEW t \in Admin, TokenReads(t) PROVE FilesInv'
  BY <1>11, TokenReadsIs
     DEF KeepCopy, Goto, Leave, Frame, Base, TypeOK, LocalsOK, ServedKept, Recording, FilesInv,
         RecordKept, ResumedKept, AppliedKept
<1>12. ASSUME NEW t \in Admin, TokenWrites(t) PROVE FilesInv'
  BY <1>12, Company
     DEF TokenWrites, Leave, Goto, RecordKept, Recording, FilesInv, SameInv, SameButToken, Base,
         TypeOK, LocalsOK, ServedKept, ResumedKept, AppliedKept
<1>13. ASSUME NEW t \in Admin, Stop(t) PROVE FilesInv'
  BY <1>13
     DEF Stop, MayBegin, Busy, Goto, Base, TypeOK, LocalsOK, ServedKept, Recording, FilesInv,
         RecordKept, ResumedKept, AppliedKept
<1>14. ASSUME NEW t \in Admin, Remove(t) PROVE FilesInv'
  BY <1>14
     DEF Remove, MayBegin, Busy, Goto, Base, TypeOK, LocalsOK, ServedKept, Recording, FilesInv,
         RecordKept, ResumedKept, AppliedKept
<1>15. ASSUME NEW t \in Admin \cup {Expirer}, Withdraw(t) PROVE FilesInv'
  BY <1>15
     DEF Withdraw, GoOn, Goto, Base, TypeOK, LocalsOK, ServedKept, Recording, FilesInv,
         RecordKept, ResumedKept, AppliedKept
<1>16. ASSUME NEW t \in Admin \cup {Expirer}, Unregister(t) PROVE FilesInv'
  BY <1>16
     DEF Unregister, GoOn, Goto, Base, TypeOK, LocalsOK, ServedKept, Recording, FilesInv,
         RecordKept, ResumedKept, AppliedKept
<1>17. ASSUME NEW t \in Admin \cup {Expirer}, TakeSite(t) PROVE FilesInv'
  BY <1>17
     DEF TakeSite, Goto, ServedKept, Recording, Base, TypeOK, LocalsOK, RecordKept, FilesInv,
         ResumedKept, AppliedKept
<1>18. ASSUME NEW t \in Admin \cup {Expirer}, NoSite(t) PROVE FilesInv'
  BY <1>18
     DEF NoSite, Leave, GoOn, Goto, ServedKept, Recording, Base, TypeOK, LocalsOK, RecordKept,
         FilesInv, ResumedKept, AppliedKept
<1>19. ASSUME NEW t \in Admin \cup {Expirer}, CloseSite(t) PROVE FilesInv'
  BY <1>19, Company
     DEF CloseSite, GoOn, Goto, SitesInv, ServedKept, Busy, Base, TypeOK, LocalsOK, RecordKept,
         Recording, ResumedKept, AppliedKept, FilesInv
<1>20. ASSUME NEW t \in Admin \cup {Expirer}, MarkReads(t) PROVE FilesInv'
  BY <1>20, MarkReadsIs, NoFields
     DEF Leave, KeepCopy, Goto, Frame, Base, TypeOK, LocalsOK, ServedKept, Recording, FilesInv,
         ResumedKept, AppliedKept, RecordKept, ClosePC, GenInv
<1>21. ASSUME NEW t \in Admin \cup {Expirer}, MarkWrites(t) PROVE FilesInv'
  BY <1>21, Company
     DEF MarkWrites, Leave, Goto, Base, RecordKept, LocalInv, TypeOK, LocalsOK, ServedKept,
         Recording, FilesInv, ResumedKept, AppliedKept
<1>22. ASSUME NEW t \in Admin \cup {Expirer}, Deregister(t) PROVE FilesInv'
  BY <1>22, NoFields, Company
     DEF Deregister, Leave, Goto, RecordKept, Base, TypeOK, LocalsOK, ServedKept, Recording,
         FilesInv, ResumedKept, AppliedKept
<1>23. CASE TtlFires
  BY <1>23
     DEF TtlFires, MayBegin, Busy, Goto, Base, TypeOK, LocalsOK, ServedKept, Recording, FilesInv,
         RecordKept, ResumedKept, AppliedKept
<1>24. CASE ExpireChecks
  BY <1>24
     DEF ExpireChecks, GoOn, Leave, Goto, Base, TypeOK, LocalsOK, ServedKept, Recording,
         FilesInv, RecordKept, ResumedKept, AppliedKept
<1>25. CASE IdleFires
  BY <1>25
     DEF IdleFires, MayBegin, Busy, Goto, Base, TypeOK, LocalsOK, ServedKept, Recording,
         FilesInv, RecordKept, ResumedKept, AppliedKept
<1>26. CASE SuspendLooksUp
  BY <1>26
     DEF SuspendLooksUp, GoOn, Leave, Goto, Base, TypeOK, LocalsOK, ServedKept, Recording,
         FilesInv, RecordKept, ResumedKept, AppliedKept
<1>27. CASE SuspendChecks
  BY <1>27
     DEF SuspendChecks, GoOn, Leave, Goto, Base, TypeOK, LocalsOK, ServedKept, Recording,
         FilesInv, RecordKept, ResumedKept, AppliedKept
<1>28. CASE SuspendTakes
  BY <1>28
     DEF SuspendTakes, Goto, ServedKept, Recording, Base, TypeOK, LocalsOK, RecordKept, FilesInv,
         ResumedKept, AppliedKept
<1>29. CASE SuspendCloses
  BY <1>29
     DEF SuspendCloses, GoOn, Goto, Base, TypeOK, LocalsOK, ServedKept, Recording, FilesInv,
         RecordKept, ResumedKept, AppliedKept
<1>30. CASE SuspendReads
  BY <1>30, SuspendReadsIs
     DEF GoOn, KeepCopy, Goto, Frame, Base, TypeOK, LocalsOK, ServedKept, Recording, FilesInv,
         RecordKept, ResumedKept, AppliedKept
<1>31. CASE SuspendWrites
  BY <1>31
     DEF SuspendWrites, KeepCopy, Goto, Base, RecordKept, LocalInv, ResumedKept, FilesInv,
         SameInv, Same, TypeOK, LocalsOK, ServedKept, Recording, AppliedKept
<1>32. CASE SuspendFlags
  BY <1>32
     DEF SuspendFlags, Leave, Goto, Base, TypeOK, LocalsOK, ServedKept, Recording, FilesInv,
         RecordKept, ResumedKept, AppliedKept
<1>33. ASSUME NEW t \in Visitor, Visit(t) PROVE FilesInv'
  BY <1>33
     DEF Visit, MayBegin, Busy, Goto, Base, TypeOK, LocalsOK, ServedKept, Recording, FilesInv,
         RecordKept, ResumedKept, AppliedKept
<1>34. ASSUME NEW t \in Visitor, ResumeGuard(t) PROVE FilesInv'
  BY <1>34
     DEF ResumeGuard, GoOn, Goto, Base, TypeOK, LocalsOK, ServedKept, Recording, FilesInv,
         RecordKept, ResumedKept, AppliedKept
<1>35. ASSUME NEW t \in Visitor, ResumeLooksUp(t) PROVE FilesInv'
  BY <1>35
     DEF ResumeLooksUp, GoOn, Goto, Base, TypeOK, LocalsOK, ServedKept, Recording, FilesInv,
         RecordKept, ResumedKept, AppliedKept
<1>36. ASSUME NEW t \in Visitor, ResumeChecks(t) PROVE FilesInv'
  BY <1>36
     DEF ResumeChecks, KeepCopy, GoOn, Leave, Goto, Base, TypeOK, LocalsOK, ServedKept,
         Recording, FilesInv, RecordKept, ResumedKept, AppliedKept
<1>37. ASSUME NEW t \in Visitor, ResumeFails(t) PROVE FilesInv'
  BY <1>37
     DEF ResumeFails, Leave, Goto, Base, TypeOK, LocalsOK, ServedKept, Recording, FilesInv,
         RecordKept, ResumedKept, AppliedKept
<1>38. ASSUME NEW t \in Visitor, ResumeOpens(t) PROVE FilesInv'
  <2>1. PICK s \in Site : OpensOn(t, s)
    BY <1>38, ResumeOpensIs
  <2>2. OpensOnly(t)
    BY <1>38, ResumeOpensIs
  <2>3. ServedKept' /\ RecordKept' /\ ResumedKept' /\ AppliedKept'
    BY <1>38, <2>1, <2>2
       DEF New, Base, TypeOK, LocalsOK, ServedKept, Recording, FilesInv, RecordKept, ResumedKept,
           AppliedKept, OpensOn, OpensOnly
  <2>. QED
    BY <2>3 DEF FilesInv
<1>39. ASSUME NEW t \in Visitor, ResumeInstalls(t) PROVE FilesInv'
  BY <1>39, Company
     DEF ResumeInstalls, GoOn, Goto, Base, TypeOK, LocalsOK, RecordKept, Recording, FilesInv,
         ResumedKept, AppliedKept, SameInv, Same, ServedKept, LocalInv, Busy
<1>40. ASSUME NEW t \in Visitor, ResumeRegisters(t) PROVE FilesInv'
  BY <1>40
     DEF ResumeRegisters, GoOn, Goto, Base, TypeOK, LocalsOK, ServedKept, Recording, FilesInv,
         RecordKept, ResumedKept, AppliedKept
<1>41. ASSUME NEW t \in Visitor, ResumeReads(t) PROVE FilesInv'
  BY <1>41, ResumeReadsIs
     DEF KeepCopy, Goto, Frame, Base, TypeOK, LocalsOK, ServedKept, Recording, FilesInv,
         RecordKept, ResumedKept, AppliedKept
<1>42. ASSUME NEW t \in Visitor, ResumeWrites(t) PROVE FilesInv'
  BY <1>42
     DEF ResumeWrites, KeepCopy, Goto, ResumedKept, FilesInv, SameInv, Same, Base, TypeOK,
         LocalsOK, ServedKept, Recording, RecordKept, Busy, AppliedKept
<1>43. ASSUME NEW t \in Visitor, ResumeFlags(t) PROVE FilesInv'
  BY <1>43
     DEF ResumeFlags, GoOn, Goto, Base, TypeOK, LocalsOK, ServedKept, Recording, FilesInv,
         RecordKept, ResumedKept, AppliedKept
<1>44. ASSUME NEW t \in Visitor, ResumeArms(t) PROVE FilesInv'
  BY <1>44
     DEF ResumeArms, GoOn, Goto, Base, TypeOK, LocalsOK, ServedKept, Recording, FilesInv,
         RecordKept, ResumedKept, AppliedKept
<1>45. ASSUME NEW t \in Visitor, Touch(t) PROVE FilesInv'
  BY <1>45
     DEF Touch, Leave, Goto, Base, TypeOK, LocalsOK, ServedKept, Recording, FilesInv, RecordKept,
         ResumedKept, AppliedKept
<1>46. CASE BootServes
  BY <1>46
     DEF BootServes, Reboot, ResumedKept, Recording, AppliedKept, RecordKept, Busy, FilesInv,
         RootInv, ServedKept
<1>47. CASE BootFails
  <2>1. BootEnds
    BY <1>47, BootEndsIs
  <2>2. ServedKept' /\ RecordKept' /\ ResumedKept' /\ AppliedKept'
    BY <1>47, <2>1
       DEF Reboot, NothingServed, ServedKept, Recording, RecordKept, ResumedKept, AppliedKept,
           BootEnds
  <2>. QED
    BY <2>2 DEF FilesInv
<1>48. CASE BootExpires
  <2>1. BootEnds
    BY <1>48, BootEndsIs
  <2>2. ServedKept' /\ RecordKept' /\ ResumedKept' /\ AppliedKept'
    BY <1>48, <2>1
       DEF Reboot, NothingServed, ServedKept, Recording, RecordKept, ResumedKept, AppliedKept,
           BootEnds
  <2>. QED
    BY <2>2 DEF FilesInv
<1>49. CASE BootSkips
  BY <1>49
     DEF BootSkips, Reboot, NothingServed, ServedKept, Recording, RecordKept, ResumedKept,
         AppliedKept, FilesInv
<1>50. CASE UNCHANGED vars
  BY <1>50 DEF vars, ServedKept, RecordKept, ResumedKept, AppliedKept, Recording, FilesInv
<1>. QED
  BY <1>1, <1>2, <1>3, <1>4, <1>5, <1>6, <1>7, <1>8, <1>9, <1>10, <1>11, <1>12, <1>13, <1>14,
     <1>15, <1>16, <1>17, <1>18, <1>19, <1>20, <1>21, <1>22, <1>23, <1>24, <1>25, <1>26, <1>27,
     <1>28, <1>29, <1>30, <1>31, <1>32, <1>33, <1>34, <1>35, <1>36, <1>37, <1>38, <1>39, <1>40,
     <1>41, <1>42, <1>43, <1>44, <1>45, <1>46, <1>47, <1>48, <1>49, <1>50
     DEF Next, ApplyStep, CloseStep, SuspendStep, VisitStep

\* AloneInv is kept with Base and ApartInv.
LEMMA AloneStep ==
    ASSUME Base, Requests, SameInv, GenInv, RootInv, SitesInv, EveryListenerIsKnown, SuspendInv,
           ServedInv, [Next]_vars
    PROVE  AloneInv'
<1>1. ASSUME NEW t \in Admin, Apply(t) PROVE AloneInv'
  <2>1. PICK d \in Document : doc' = [doc EXCEPT ![t] = d]
    BY <1>1, ApplyIs
  <2>2. PICK r \in Root, s \in Site : NewPlace(t, r, s)
    BY <1>1, ApplyIs
  <2>3. ApplyBegins(t)
    BY <1>1, ApplyIs
  <2>4. SuspendInv' /\ ServedInv' /\ EveryListenerIsKnown'
    BY <1>1, <2>2, <2>3, <2>1
       DEF MayBegin, Busy, New, SuspendInv, ServedInv, Base, TypeOK, LocalsOK,
           EveryListenerIsKnown, InHand, NewPlace, ApplyBegins
  <2>. QED
    BY <2>4 DEF AloneInv
<1>2. ASSUME NEW t \in Admin, ApplySwaps(t) PROVE AloneInv'
  BY <1>2, RequestsCompany
     DEF ApplySwaps, Goto, Base, TypeOK, LocalsOK, ServedInv, EveryListenerIsKnown, InHand,
         SuspendInv, AloneInv
<1>3. ASSUME NEW t \in Admin, ApplyCloses(t) PROVE AloneInv'
  BY <1>3 DEF ApplyCloses, Goto, SuspendInv, ServedInv, EveryListenerIsKnown, InHand, AloneInv
<1>4. ASSUME NEW t \in Admin, RecordReads(t) PROVE AloneInv'
  BY <1>4, RecordReadsIs
     DEF Goto, Frame, Base, TypeOK, LocalsOK, SuspendInv, ServedInv, EveryListenerIsKnown,
         InHand, AloneInv
<1>5. ASSUME NEW t \in Admin, RecordWrites(t) PROVE AloneInv'
  BY <1>5
     DEF RecordWrites, KeepCopy, Goto, EveryListenerIsKnown, InHand, Base, SuspendInv, ApplyInv,
         SitesInv, ServedInv, AloneInv
<1>6. ASSUME NEW t \in Admin, ApplyArmsTtl(t) PROVE AloneInv'
  BY <1>6
     DEF ApplyArmsTtl, GoOn, Goto, SuspendInv, ServedInv, EveryListenerIsKnown, InHand, AloneInv
<1>7. ASSUME NEW t \in Admin, Publish(t) PROVE AloneInv'
  BY <1>7 DEF Publish, Goto, SuspendInv, ServedInv, EveryListenerIsKnown, InHand, AloneInv
<1>8. ASSUME NEW t \in Admin, PublishFails(t) PROVE AloneInv'
  BY <1>8
     DEF PublishFails, Leave, Goto, SuspendInv, ServedInv, EveryListenerIsKnown, InHand, AloneInv
<1>9. ASSUME NEW t \in Admin, ApplyArmsIdle(t) PROVE AloneInv'
  BY <1>9
     DEF ApplyArmsIdle, GoOn, Goto, SuspendInv, ServedInv, EveryListenerIsKnown, InHand, AloneInv
<1>10. ASSUME NEW t \in Admin, Remember(t) PROVE AloneInv'
  BY <1>10
     DEF Remember, GoOn, Goto, Leave, Base, TypeOK, LocalsOK, SuspendInv, ServedInv,
         EveryListenerIsKnown, InHand, AloneInv
<1>11. ASSUME NEW t \in Admin, TokenReads(t) PROVE AloneInv'
  BY <1>11, TokenReadsIs
     DEF KeepCopy, Goto, Leave, Frame, Base, TypeOK, LocalsOK, SuspendInv, ServedInv,
         EveryListenerIsKnown, InHand, AloneInv
<1>12. ASSUME NEW t \in Admin, TokenWrites(t) PROVE AloneInv'
  BY <1>12
     DEF TokenWrites, Leave, Goto, EveryListenerIsKnown, InHand, SuspendInv, SameInv,
         SameButToken, ServedInv, AloneInv
<1>13. ASSUME NEW t \in Admin, Stop(t) PROVE AloneInv'
  BY <1>13
     DEF Stop, MayBegin, Busy, Goto, SuspendInv, ServedInv, EveryListenerIsKnown, InHand,
         AloneInv
<1>14. ASSUME NEW t \in Admin, Remove(t) PROVE AloneInv'
  BY <1>14
     DEF Remove, MayBegin, Busy, Goto, SuspendInv, ServedInv, EveryListenerIsKnown, InHand,
         AloneInv
<1>15. ASSUME NEW t \in Admin \cup {Expirer}, Withdraw(t) PROVE AloneInv'
  BY <1>15
     DEF Withdraw, GoOn, Goto, SuspendInv, ServedInv, EveryListenerIsKnown, InHand, AloneInv
<1>16. ASSUME NEW t \in Admin \cup {Expirer}, Unregister(t) PROVE AloneInv'
  BY <1>16
     DEF Unregister, GoOn, Goto, SuspendInv, ServedInv, EveryListenerIsKnown, InHand, AloneInv
<1>17. ASSUME NEW t \in Admin \cup {Expirer}, TakeSite(t) PROVE AloneInv'
  BY <1>17
     DEF TakeSite, Goto, SuspendInv, ServedInv, Base, TypeOK, LocalsOK, EveryListenerIsKnown,
         InHand, AloneInv
<1>18. ASSUME NEW t \in Admin \cup {Expirer}, NoSite(t) PROVE AloneInv'
  BY <1>18
     DEF NoSite, Leave, GoOn, Goto, ServedInv, Base, TypeOK, LocalsOK, SuspendInv,
         EveryListenerIsKnown, InHand, AloneInv
<1>19. ASSUME NEW t \in Admin \cup {Expirer}, CloseSite(t) PROVE AloneInv'
  BY <1>19
     DEF CloseSite, GoOn, Goto, SuspendInv, ServedInv, EveryListenerIsKnown, InHand, AloneInv
<1>20. ASSUME NEW t \in Admin \cup {Expirer}, MarkReads(t) PROVE AloneInv'
  <2>1. SuspendInv'
    BY <1>20, MarkReadsIs DEF Leave, KeepCopy, Goto, Frame, Base, TypeOK, LocalsOK, SuspendInv
  <2>2. ServedInv' /\ EveryListenerIsKnown'
    BY <1>20, MarkReadsIs
       DEF Leave, KeepCopy, Goto, Frame, Base, TypeOK, LocalsOK, ServedInv, EveryListenerIsKnown,
           InHand
  <2>. QED
    BY <2>1, <2>2 DEF AloneInv
<1>21. ASSUME NEW t \in Admin \cup {Expirer}, MarkWrites(t) PROVE AloneInv'
  BY <1>21, RequestsCompany
     DEF MarkWrites, Leave, Goto, EveryListenerIsKnown, InHand, SitesInv, SuspendInv, ServedInv,
         SameInv, Same, AloneInv
<1>22. ASSUME NEW t \in Admin \cup {Expirer}, Deregister(t) PROVE AloneInv'
  BY <1>22, NoFields
     DEF Deregister, Leave, Goto, EveryListenerIsKnown, InHand, SuspendInv, SitesInv, ServedInv,
         AloneInv
<1>23. CASE TtlFires
  BY <1>23
     DEF TtlFires, MayBegin, Busy, Goto, SuspendInv, ServedInv, EveryListenerIsKnown, InHand,
         AloneInv
<1>24. CASE ExpireChecks
  BY <1>24
     DEF ExpireChecks, GoOn, Leave, Goto, Base, TypeOK, LocalsOK, SuspendInv, ServedInv,
         EveryListenerIsKnown, InHand, AloneInv
<1>25. CASE IdleFires
  <2>1. ServedInv' /\ EveryListenerIsKnown'
    BY <1>25 DEF IdleFires, MayBegin, Busy, Goto, ServedInv, EveryListenerIsKnown, InHand
  <2>2. SuspendInv'
    <3>1. UNCHANGED <<record, sites>> /\ pc' = [pc EXCEPT ![Idler] = "lookup"] /\ pc[Idler] = "idle"
      BY <1>25 DEF IdleFires, MayBegin, Goto
    <3>. QED
      BY <1>25, <3>1 DEF Base, TypeOK, LocalsOK, SuspendInv
  <2>. QED
    BY <2>1, <2>2 DEF AloneInv
<1>26. CASE SuspendLooksUp
  BY <1>26
     DEF SuspendLooksUp, GoOn, Leave, Goto, Base, TypeOK, LocalsOK, SuspendInv, ServedInv,
         EveryListenerIsKnown, InHand, AloneInv
<1>27. CASE SuspendChecks
  BY <1>27, NoFields
     DEF SuspendChecks, GoOn, Leave, Goto, Base, TypeOK, LocalsOK, ServedInv,
         EveryListenerIsKnown, InHand, SuspendInv, WholeInv, Whole, AloneInv
<1>28. CASE SuspendTakes
  BY <1>28
     DEF SuspendTakes, Goto, SuspendInv, ServedInv, Base, TypeOK, LocalsOK, EveryListenerIsKnown,
         InHand, AloneInv
<1>29. CASE SuspendCloses
  BY <1>29
     DEF SuspendCloses, GoOn, Goto, SuspendInv, ServedInv, EveryListenerIsKnown, InHand, AloneInv
<1>30. CASE SuspendReads
  BY <1>30, SuspendReadsIs
     DEF GoOn, KeepCopy, Goto, Frame, SuspendInv, Base, TypeOK, LocalsOK, ServedInv,
         EveryListenerIsKnown, InHand, AloneInv
<1>31. CASE SuspendWrites
  BY <1>31, RequestsCompany
     DEF SuspendWrites, KeepCopy, Goto, EveryListenerIsKnown, InHand, ServedInv, SameInv, Same,
         Base, TypeOK, LocalsOK, SuspendInv, AloneInv
<1>32. CASE SuspendFlags
  BY <1>32
     DEF SuspendFlags, Leave, Goto, SuspendInv, ServedInv, EveryListenerIsKnown, InHand, AloneInv
<1>33. ASSUME NEW t \in Visitor, Visit(t) PROVE AloneInv'
  BY <1>33
     DEF Visit, MayBegin, Busy, Goto, SuspendInv, ServedInv, EveryListenerIsKnown, InHand,
         AloneInv
<1>34. ASSUME NEW t \in Visitor, ResumeGuard(t) PROVE AloneInv'
  BY <1>34
     DEF ResumeGuard, GoOn, Goto, SuspendInv, ServedInv, EveryListenerIsKnown, InHand, AloneInv
<1>35. ASSUME NEW t \in Visitor, ResumeLooksUp(t) PROVE AloneInv'
  BY <1>35
     DEF ResumeLooksUp, GoOn, Goto, Base, TypeOK, LocalsOK, SuspendInv, ServedInv,
         EveryListenerIsKnown, InHand, AloneInv
<1>36. ASSUME NEW t \in Visitor, ResumeChecks(t) PROVE AloneInv'
  BY <1>36, RequestsCompany
     DEF ResumeChecks, KeepCopy, GoOn, Leave, Goto, Base, TypeOK, LocalsOK, ServedInv,
         EveryListenerIsKnown, InHand, PlaceInv, SuspendInv, HeldInv, AloneInv
<1>37. ASSUME NEW t \in Visitor, ResumeFails(t) PROVE AloneInv'
  BY <1>37
     DEF ResumeFails, Leave, Goto, SuspendInv, ServedInv, EveryListenerIsKnown, InHand, AloneInv
<1>38. ASSUME NEW t \in Visitor, ResumeOpens(t) PROVE AloneInv'
  <2>1. PICK s \in Site : OpensOn(t, s)
    BY <1>38, ResumeOpensIs
  <2>2. OpensOnly(t)
    BY <1>38, ResumeOpensIs
  <2>3. SuspendInv' /\ ServedInv' /\ EveryListenerIsKnown'
    BY <1>38, <2>2, <2>1
       DEF New, SuspendInv, ServedInv, Base, TypeOK, LocalsOK, EveryListenerIsKnown, InHand,
           OpensOn, OpensOnly
  <2>. QED
    BY <2>3 DEF AloneInv
<1>39. ASSUME NEW t \in Visitor, ResumeInstalls(t) PROVE AloneInv'
  BY <1>39
     DEF ResumeInstalls, GoOn, Goto, Base, TypeOK, EveryListenerIsKnown, InHand, SuspendInv,
         ServedInv, SameInv, Same, LocalInv, LocalsOK, PlaceInv, GenInv, HeldInv, AloneInv
<1>40. ASSUME NEW t \in Visitor, ResumeRegisters(t) PROVE AloneInv'
  BY <1>40
     DEF ResumeRegisters, GoOn, Goto, SuspendInv, ServedInv, EveryListenerIsKnown, InHand,
         AloneInv
<1>41. ASSUME NEW t \in Visitor, ResumeReads(t) PROVE AloneInv'
  BY <1>41, ResumeReadsIs, NoFields
     DEF KeepCopy, Goto, Frame, Base, TypeOK, LocalsOK, ServedInv, EveryListenerIsKnown, InHand,
         SuspendInv, AloneInv
<1>42. ASSUME NEW t \in Visitor, ResumeWrites(t) PROVE AloneInv'
  BY <1>42
     DEF ResumeWrites, KeepCopy, Goto, EveryListenerIsKnown, InHand, Base, SuspendInv, LocalInv,
         ServedInv, SameInv, Same, AloneInv
<1>43. ASSUME NEW t \in Visitor, ResumeFlags(t) PROVE AloneInv'
  BY <1>43
     DEF ResumeFlags, GoOn, Goto, SuspendInv, ServedInv, EveryListenerIsKnown, InHand, AloneInv
<1>44. ASSUME NEW t \in Visitor, ResumeArms(t) PROVE AloneInv'
  BY <1>44
     DEF ResumeArms, GoOn, Goto, SuspendInv, ServedInv, EveryListenerIsKnown, InHand, AloneInv
<1>45. ASSUME NEW t \in Visitor, Touch(t) PROVE AloneInv'
  BY <1>45 DEF Touch, Leave, Goto, SuspendInv, ServedInv, EveryListenerIsKnown, InHand, AloneInv
<1>46. CASE BootServes
  BY <1>46
     DEF BootServes, Reboot, EveryListenerIsKnown, InHand, RootInv, ServedInv, Base, SuspendInv,
         WholeInv, Whole, AloneInv
<1>47. CASE BootFails
  <2>1. BootEnds
    BY <1>47, BootEndsIs
  <2>2. SuspendInv' /\ ServedInv' /\ EveryListenerIsKnown'
    BY <1>47, <2>1
       DEF Reboot, NothingServed, SuspendInv, ServedInv, EveryListenerIsKnown, InHand, BootEnds
  <2>. QED
    BY <2>2 DEF AloneInv
<1>48. CASE BootExpires
  <2>1. BootEnds
    BY <1>48, BootEndsIs
  <2>2. SuspendInv' /\ ServedInv' /\ EveryListenerIsKnown'
    BY <1>48, <2>1
       DEF Reboot, NothingServed, SuspendInv, ServedInv, EveryListenerIsKnown, InHand, BootEnds
  <2>. QED
    BY <2>2 DEF AloneInv
<1>49. CASE BootSkips
  BY <1>49
     DEF BootSkips, Reboot, NothingServed, SuspendInv, ServedInv, EveryListenerIsKnown, InHand,
         AloneInv
<1>50. CASE UNCHANGED vars
  BY <1>50 DEF vars, EveryListenerIsKnown, SuspendInv, ServedInv, InHand, AloneInv
<1>. QED
  BY <1>1, <1>2, <1>3, <1>4, <1>5, <1>6, <1>7, <1>8, <1>9, <1>10, <1>11, <1>12, <1>13, <1>14,
     <1>15, <1>16, <1>17, <1>18, <1>19, <1>20, <1>21, <1>22, <1>23, <1>24, <1>25, <1>26, <1>27,
     <1>28, <1>29, <1>30, <1>31, <1>32, <1>33, <1>34, <1>35, <1>36, <1>37, <1>38, <1>39, <1>40,
     <1>41, <1>42, <1>43, <1>44, <1>45, <1>46, <1>47, <1>48, <1>49, <1>50
     DEF Next, ApplyStep, CloseStep, SuspendStep, VisitStep

\* VisitsInv is kept with the others.
LEMMA VisitsStep ==
    ASSUME Base, overlap \subseteq Visitor, SameInv, GenInv, RootInv, SitesInv,
           EveryListenerIsKnown, SuspendInv, ServedInv, ~CrashAnywhere => FilesInv, AgreeInv,
           TurnInv, OlderInv, TargetInv, PublishInv, ResumableInv, SuspendsInv, [Next]_vars
    PROVE  VisitsInv'
<1>1. ASSUME NEW t \in Admin, Apply(t) PROVE VisitsInv'
  <2>1. PICK d \in Document : doc' = [doc EXCEPT ![t] = d]
    BY <1>1, ApplyIs
  <2>2. PICK r \in Root, s \in Site : NewPlace(t, r, s)
    BY <1>1, ApplyIs
  <2>3. ApplyBegins(t)
    BY <1>1, ApplyIs
  <2>4. /\ TurnInv' /\ OlderInv' /\ TargetInv' /\ PublishInv'
        /\ ResumableInv' /\ SuspendsInv' /\ AgreeInv'
    BY <1>1, <2>2, <2>3
       DEF MayBegin, Busy, New, TurnInv, OlderInv, TargetInv, PublishInv, ResumableInv,
           SuspendsInv, AgreeInv, Changing, NewPlace, ApplyBegins
  <2>. QED
    BY <2>4 DEF VisitsInv, TokenInv
<1>2. ASSUME NEW t \in Admin, ApplySwaps(t) PROVE VisitsInv'
  BY <1>2, VisitsCompany
     DEF ApplySwaps, Goto, OlderInv, TargetInv, ResumableInv, SuspendsInv, Base, TypeOK,
         LocalsOK, TurnInv, PublishInv, AgreeInv, Changing, VisitsInv, TokenInv
<1>3. ASSUME NEW t \in Admin, ApplyCloses(t) PROVE VisitsInv'
  BY <1>3, VisitsCompany
     DEF ApplyCloses, Goto, TurnInv, OlderInv, TargetInv, PublishInv, AgreeInv, Changing,
         ResumableInv, SuspendInv, Base, TypeOK, LocalsOK, SuspendsInv, VisitsInv, TokenInv
<1>4. ASSUME NEW t \in Admin, RecordReads(t) PROVE VisitsInv'
  BY <1>4, RecordReadsIs
     DEF Goto, Frame, OlderInv, TargetInv, Base, TypeOK, LocalsOK, TurnInv, PublishInv,
         ResumableInv, SuspendsInv, AgreeInv, Changing, VisitsInv, TokenInv
<1>5. ASSUME NEW t \in Admin, RecordWrites(t) PROVE VisitsInv'
  <2>1. TargetInv'
    BY <1>5, Fields
       DEF RecordWrites, KeepCopy, Goto, Base, TypeOK, GenInv, TargetInv, ApplyInv, OlderInv
  <2>2. ResumableInv' /\ AgreeInv' /\ TurnInv' /\ PublishInv' /\ SuspendsInv'
    BY <1>5, VisitsCompany
       DEF RecordWrites, KeepCopy, Goto, Base, ResumableInv, ApplyInv, SitesInv, AgreeInv,
           TurnInv, PublishInv, TypeOK, LocalsOK, SuspendsInv
  <2>3. OlderInv'
    <3>1. record'.gen = record.gen + 1 /\ record.gen \in Nat /\ UNCHANGED idleApp
      BY <1>5, Fields DEF RecordWrites, Base, TypeOK, ApplyInv, GenInv
    <3>2. idleApp # None => idleApp.gen \in Nat
      BY <1>5 DEF Base, TypeOK, IdleApp, Gen
    <3>. QED
      BY <1>5, <3>1, <3>2 DEF OlderInv
  <2>. QED
    BY <2>1, <2>2, <2>3 DEF VisitsInv, TokenInv
<1>6. ASSUME NEW t \in Admin, ApplyArmsTtl(t) PROVE VisitsInv'
  BY <1>6
     DEF ApplyArmsTtl, GoOn, Goto, TurnInv, OlderInv, TargetInv, PublishInv, ResumableInv,
         SuspendsInv, AgreeInv, Changing, VisitsInv, TokenInv
<1>7. ASSUME NEW t \in Admin, Publish(t) PROVE VisitsInv'
  <2>1. TurnInv' /\ OlderInv' /\ ResumableInv' /\ SuspendsInv' /\ AgreeInv'
    BY <1>7 DEF Publish, Goto, TurnInv, OlderInv, ResumableInv, SuspendsInv, AgreeInv, Changing
  <2>2. TargetInv'
    <3>1. /\ pc[t] = "publish" /\ UNCHANGED <<record, idleApp, gen, doc>>
      BY <1>7 DEF Publish, Goto
    <3>2. gen[t] = record.gen /\ record.token \in Token \cup {None} /\ doc[t] = record.doc
      BY <1>7, <3>1, Fields DEF GenInv, Base, TypeOK
    <3>3. CASE doc[t] \notin Exposed
      BY <1>7, <3>1, <3>2, <3>3 DEF TargetInv
    <3>4. CASE doc[t] \in Exposed
      <4>1. PICK x : x = Or(PinnedToken(doc[t]), Or(record.token, Generated))
        OBVIOUS
      <4>2. x \in Token /\ targets' = [targets EXCEPT ![x] = [gen |-> gen[t], site |-> site[t]]]
        BY <1>7, <3>4, <4>1, PublishIs
      <4>3. record.token # None =>
              targets'[record.token] = IF record.token = x THEN [gen |-> gen[t], site |-> site[t]]
                                       ELSE targets[record.token]
        BY <1>7, <4>2 DEF Base, TypeOK
      <4>4. [gen |-> gen[t], site |-> site[t]] # None
        BY <1>7, <3>1 DEF Base, TypeOK, LocalsOK, ApplyInv, Target
      <4>5. CASE record.token = x
        <5>1. record.token # None =>
                  targets'[record.token] # None /\ targets'[record.token].gen = gen[t]
          BY <1>7, <4>3, <4>4, <4>5
        <5>. QED
          BY <1>7, <3>1, <3>2, <5>1 DEF TargetInv
      <4>6. CASE record.token # x
        BY <1>7, <3>1, <3>2, <4>3, <4>6 DEF TargetInv
      <4>. QED
        BY <4>5, <4>6
    <3>. QED
      BY <3>3, <3>4
  <2>3. PublishInv'
    <3>1. /\ pc[t] = "publish"
          /\ pc' = [pc EXCEPT ![t] = IF doc[t] \in Idle THEN "armIdle" ELSE "remember"]
          /\ UNCHANGED <<record, idleApp, gen, doc>>
      BY <1>7 DEF Publish, Goto
    <3>2. \A u \in Admin : u # t => pc'[u] = "idle"
      BY <1>7, <3>1, VisitsCompany DEF Base, TypeOK, LocalsOK
    <3>3. CASE doc[t] \notin Exposed
      BY <1>7, <3>1, <3>2, <3>3 DEF PublishInv, Base, TypeOK, LocalsOK
    <3>4. CASE doc[t] \in Exposed
      <4>1. PICK x : x = Or(PinnedToken(doc[t]), Or(record.token, Generated))
        OBVIOUS
      <4>2. /\ x \in Token /\ copy'[t].token = x
            /\ targets' = [targets EXCEPT ![x] = [gen |-> gen[t], site |-> site[t]]]
        BY <1>7, <3>4, <4>1, PublishIs
      <4>3. record.token = Or(PinnedToken(doc[t]), record.token) /\ record.token \in Token \cup {None}
        BY <1>7, <3>1, Fields DEF PublishInv, Base, TypeOK
      <4>4. record.token \in {None, x} /\ x # None
        BY <1>7, <4>1, <4>2, <4>3 DEF Or, PinnedToken, Token
      <4>5. [gen |-> gen[t], site |-> site[t]] # None
        BY <1>7, <3>1 DEF Base, TypeOK, LocalsOK, ApplyInv, Target
      <4>6. targets'[x] # None /\ targets'[x].gen = gen[t]
        BY <1>7, <4>2, <4>5 DEF Base, TypeOK
      <4>. QED
        BY <1>7, <3>1, <3>2, <4>2, <4>4, <4>6 DEF PublishInv
    <3>. QED
      BY <3>3, <3>4
  <2>. QED
    BY <2>1, <2>2, <2>3 DEF VisitsInv, TokenInv
<1>8. ASSUME NEW t \in Admin, PublishFails(t) PROVE VisitsInv'
  BY <1>8
     DEF PublishFails, Leave, Goto, TurnInv, OlderInv, TargetInv, ResumableInv, SuspendsInv,
         AgreeInv, Changing, Base, TypeOK, LocalsOK, PublishInv, VisitsInv, TokenInv
<1>9. ASSUME NEW t \in Admin, ApplyArmsIdle(t) PROVE VisitsInv'
  BY <1>9
     DEF ApplyArmsIdle, GoOn, Goto, TurnInv, OlderInv, TargetInv, PublishInv, ResumableInv,
         SuspendsInv, AgreeInv, Changing, VisitsInv, TokenInv
<1>10. ASSUME NEW t \in Admin, Remember(t) PROVE VisitsInv'
  <2>1. OlderInv'
    BY <1>10, Fields DEF Remember, GoOn, Goto, Leave, Base, TypeOK, OlderInv, GenInv
  <2>2. ResumableInv' /\ TargetInv' /\ PublishInv' /\ SuspendsInv' /\ AgreeInv' /\ TurnInv'
    BY <1>10, VisitsCompany
       DEF Remember, GoOn, Goto, Leave, ResumableInv, TurnInv, GenInv, TargetInv, PublishInv,
           Base, TypeOK, LocalsOK, SuspendsInv, AgreeInv, Changing
  <2>. QED
    BY <2>1, <2>2 DEF VisitsInv, TokenInv
<1>11. ASSUME NEW t \in Admin, TokenReads(t) PROVE VisitsInv'
  BY <1>11, TokenReadsIs
     DEF KeepCopy, Goto, Leave, Frame, OlderInv, TargetInv, Base, TypeOK, LocalsOK, TurnInv,
         PublishInv, ResumableInv, SuspendsInv, AgreeInv, Changing, VisitsInv, TokenInv
<1>12. ASSUME NEW t \in Admin, TokenWrites(t) PROVE VisitsInv'
  <2>1. TargetInv'
    BY <1>12
       DEF TokenWrites, Leave, Goto, SameInv, SameButToken, GenInv, TargetInv, PublishInv, Token
  <2>2. OlderInv' /\ ResumableInv' /\ AgreeInv' /\ PublishInv' /\ SuspendsInv' /\ TurnInv'
    BY <1>12, VisitsCompany
       DEF TokenWrites, Leave, Goto, OlderInv, SameInv, SameButToken, ResumableInv, AgreeInv,
           Changing, Base, TypeOK, LocalsOK, PublishInv, SuspendsInv, TurnInv, ClosePC
  <2>. QED
    BY <2>1, <2>2 DEF VisitsInv, TokenInv
<1>13. ASSUME NEW t \in Admin, Stop(t) PROVE VisitsInv'
  BY <1>13
     DEF Stop, MayBegin, Busy, Goto, TurnInv, OlderInv, TargetInv, PublishInv, ResumableInv,
         SuspendsInv, AgreeInv, Changing, VisitsInv, TokenInv
<1>14. ASSUME NEW t \in Admin, Remove(t) PROVE VisitsInv'
  BY <1>14
     DEF Remove, MayBegin, Busy, Goto, TurnInv, OlderInv, TargetInv, PublishInv, ResumableInv,
         SuspendsInv, AgreeInv, Changing, VisitsInv, TokenInv
<1>15. ASSUME NEW t \in Admin \cup {Expirer}, Withdraw(t) PROVE VisitsInv'
  <2>1. ResumableInv'
    BY <1>15, NoFields, Fields
       DEF Withdraw, GoOn, Goto, Base, TypeOK, WholeInv, Whole, ClosePC, ResumableInv, TurnInv
  <2>2. OlderInv' /\ TargetInv' /\ PublishInv' /\ AgreeInv' /\ SuspendsInv'
    BY <1>15
       DEF Withdraw, GoOn, Goto, OlderInv, TargetInv, PublishInv, AgreeInv, Changing, Base,
           TypeOK, LocalsOK, SuspendsInv
  <2>3. TurnInv'
    <3>1. /\ pc' = [pc EXCEPT ![t] = "unregister"] /\ pc[t] = "withdraw" /\ idleApp' = None
          /\ UNCHANGED <<record, copy, gen>>
      BY <1>15 DEF Withdraw, GoOn, Goto
    <3>2. withdrawn' = (withdrawn \/ t \in Admin)
      BY <1>15 DEF Withdraw
    <3>3. \A u \in Thread : u # t => pc'[u] = "idle"
      BY <1>15, <3>1, VisitsCompany DEF Base, TypeOK, LocalsOK
    <3>4. t \in Admin => withdrawn'
      BY <1>15, <3>2, Zenon
    <3>. QED
      BY <1>15, <3>1, <3>3, <3>4 DEF TurnInv, Base, TypeOK, LocalsOK, ClosePC
  <2>. QED
    BY <2>1, <2>2, <2>3 DEF VisitsInv, TokenInv
<1>16. ASSUME NEW t \in Admin \cup {Expirer}, Unregister(t) PROVE VisitsInv'
  BY <1>16, VisitsCompany
     DEF Unregister, GoOn, Goto, OlderInv, ResumableInv, SuspendsInv, AgreeInv, Changing,
         TurnInv, ClosePC, TargetInv, Base, TypeOK, LocalsOK, PublishInv, VisitsInv, TokenInv
<1>17. ASSUME NEW t \in Admin \cup {Expirer}, TakeSite(t) PROVE VisitsInv'
  BY <1>17, VisitsCompany
     DEF TakeSite, Goto, OlderInv, TargetInv, PublishInv, ResumableInv, SuspendsInv, TurnInv,
         ClosePC, Base, TypeOK, LocalsOK, AgreeInv, Changing, VisitsInv, TokenInv
<1>18. ASSUME NEW t \in Admin \cup {Expirer}, NoSite(t) PROVE VisitsInv'
  BY <1>18
     DEF NoSite, Leave, GoOn, Goto, OlderInv, TargetInv, Base, TypeOK, LocalsOK, PublishInv,
         ResumableInv, SuspendsInv, AgreeInv, Changing, TurnInv, PlaceInv, VisitsInv, TokenInv
<1>19. ASSUME NEW t \in Admin \cup {Expirer}, CloseSite(t) PROVE VisitsInv'
  BY <1>19, VisitsCompany
     DEF CloseSite, GoOn, Goto, OlderInv, TargetInv, PublishInv, AgreeInv, Changing, TurnInv,
         ClosePC, ResumableInv, Base, TypeOK, LocalsOK, SuspendsInv, VisitsInv, TokenInv
<1>20. ASSUME NEW t \in Admin \cup {Expirer}, MarkReads(t) PROVE VisitsInv'
  <2>1. AgreeInv'
    BY <1>20, MarkReadsIs, NoFields
       DEF Leave, KeepCopy, Goto, Frame, Base, TypeOK, LocalsOK, ClosePC, GenInv, SitesInv,
           AgreeInv, Changing
  <2>2. OlderInv' /\ TargetInv' /\ PublishInv' /\ ResumableInv' /\ SuspendsInv' /\ TurnInv'
    BY <1>20, MarkReadsIs
       DEF Leave, KeepCopy, Goto, Frame, OlderInv, TargetInv, Base, TypeOK, LocalsOK, PublishInv,
           ResumableInv, SuspendsInv, TurnInv, PlaceInv
  <2>. QED
    BY <2>1, <2>2 DEF VisitsInv, TokenInv
<1>21. ASSUME NEW t \in Admin \cup {Expirer}, MarkWrites(t) PROVE VisitsInv'
  <2>1. ResumableInv' /\ OlderInv' /\ TargetInv' /\ AgreeInv' /\ PublishInv'
    BY <1>21, VisitsCompany
       DEF MarkWrites, Leave, Goto, ResumableInv, TurnInv, OlderInv, SameInv, Same, TargetInv,
           Base, SitesInv, AgreeInv, LocalInv, TypeOK, LocalsOK, PublishInv
  <2>2. SuspendsInv' /\ TurnInv'
    BY <1>21, VisitsCompany
       DEF MarkWrites, Leave, Goto, Base, TypeOK, LocalsOK, SuspendsInv, TurnInv, ClosePC
  <2>. QED
    BY <2>1, <2>2 DEF VisitsInv, TokenInv
<1>22. ASSUME NEW t \in Admin \cup {Expirer}, Deregister(t) PROVE VisitsInv'
  BY <1>22, NoFields, VisitsCompany
     DEF Deregister, Leave, Goto, OlderInv, TurnInv, TargetInv, ResumableInv, SitesInv, AgreeInv,
         ClosePC, Base, TypeOK, LocalsOK, PublishInv, SuspendsInv, VisitsInv, TokenInv
<1>23. CASE TtlFires
  BY <1>23
     DEF TtlFires, MayBegin, Busy, Goto, OlderInv, TargetInv, PublishInv, ResumableInv,
         SuspendsInv, AgreeInv, Changing, TurnInv, ClosePC, VisitsInv, TokenInv
<1>24. CASE ExpireChecks
  BY <1>24
     DEF ExpireChecks, GoOn, Leave, Goto, OlderInv, TargetInv, Base, TypeOK, LocalsOK,
         PublishInv, ResumableInv, SuspendsInv, AgreeInv, Changing, TurnInv, ClosePC, VisitsInv,
         TokenInv
<1>25. CASE IdleFires
  BY <1>25
     DEF IdleFires, MayBegin, Busy, Goto, TurnInv, OlderInv, TargetInv, PublishInv, ResumableInv,
         SuspendsInv, AgreeInv, Changing, VisitsInv, TokenInv
<1>26. CASE SuspendLooksUp
  BY <1>26
     DEF SuspendLooksUp, GoOn, Leave, Goto, OlderInv, TargetInv, ResumableInv, Base, TypeOK,
         LocalsOK, TurnInv, PublishInv, SuspendsInv, AgreeInv, Changing, VisitsInv, TokenInv
<1>27. CASE SuspendChecks
  <2>1. SuspendsInv'
    BY <1>27, VisitsCompany
       DEF SuspendChecks, GoOn, Leave, Goto, Base, TypeOK, LocalsOK, SuspendsInv, FilesInv,
           RecordKept, Recording
  <2>2. OlderInv' /\ TargetInv' /\ ResumableInv' /\ TurnInv' /\ PublishInv' /\ AgreeInv'
    BY <1>27
       DEF SuspendChecks, GoOn, Leave, Goto, OlderInv, TargetInv, ResumableInv, Base, TypeOK,
           LocalsOK, TurnInv, PublishInv, AgreeInv, Changing
  <2>. QED
    BY <2>1, <2>2 DEF VisitsInv, TokenInv
<1>28. CASE SuspendTakes
  BY <1>28, VisitsCompany
     DEF SuspendTakes, Goto, TurnInv, OlderInv, TargetInv, PublishInv, ResumableInv, SuspendsInv,
         Base, TypeOK, LocalsOK, AgreeInv, Changing, VisitsInv, TokenInv
<1>29. CASE SuspendCloses
  BY <1>29
     DEF SuspendCloses, GoOn, Goto, TurnInv, OlderInv, TargetInv, PublishInv, ResumableInv,
         SuspendsInv, AgreeInv, Changing, VisitsInv, TokenInv
<1>30. CASE SuspendReads
  BY <1>30, SuspendReadsIs
     DEF GoOn, KeepCopy, Goto, Frame, OlderInv, TargetInv, ResumableInv, SuspendsInv, GenInv,
         Base, TypeOK, LocalsOK, TurnInv, PublishInv, AgreeInv, Changing, VisitsInv, TokenInv
<1>31. CASE SuspendWrites
  <2>1. TurnInv' /\ OlderInv' /\ TargetInv' /\ AgreeInv' /\ SuspendsInv'
    BY <1>31, VisitsCompany
       DEF SuspendWrites, KeepCopy, Goto, TurnInv, ClosePC, OlderInv, SameInv, Same, TargetInv,
           Base, AgreeInv, LocalInv, SuspendInv, SuspendsInv, GenInv
  <2>2. PublishInv' /\ ResumableInv'
    BY <1>31, VisitsCompany
       DEF SuspendWrites, KeepCopy, Goto, Base, TypeOK, LocalsOK, PublishInv, SameInv, Same,
           GenInv, ResumableInv, TurnInv, SuspendsInv
  <2>. QED
    BY <2>1, <2>2 DEF VisitsInv, TokenInv
<1>32. CASE SuspendFlags
  <2>1. OlderInv' /\ TargetInv' /\ PublishInv' /\ AgreeInv' /\ TurnInv' /\ SuspendsInv'
    BY <1>32
       DEF SuspendFlags, Leave, Goto, OlderInv, TargetInv, PublishInv, AgreeInv, Changing, Base,
           TypeOK, LocalsOK, TurnInv, SuspendsInv
  <2>2. ResumableInv'
    <3>1. /\ UNCHANGED <<record, withdrawn, files>> /\ pc[Idler] = "flag"
          /\ idleApp # None /\ idleApp.gen = gen[Idler] =>
                idleApp' = [idleApp EXCEPT !.suspended = TRUE]
      BY <1>32 DEF SuspendFlags
    <3>2. record.suspended /\ ~withdrawn => /\ ~CrashAnywhere => record.root \in files
                                            /\ idleApp # None /\ idleApp.gen = record.gen
                                            /\ gen[Idler] = record.gen
      BY <1>32, <3>1 DEF ResumableInv, SuspendsInv
    <3>3. ASSUME NEW a \in IdleApp, NEW b, b = [a EXCEPT !.suspended = TRUE]
          PROVE  b # None /\ b.suspended /\ b.gen = a.gen
      <4>1. b \in IdleApp
        BY <1>32, <3>3, Zenon DEF IdleApp
      <4>2. b.suspended /\ b.gen = a.gen
        BY <1>32, <3>3 DEF IdleApp
      <4>. QED
        BY <4>1, <4>2
    <3>4. idleApp \in IdleApp \cup {None}
      BY <1>32 DEF Base, TypeOK
    <3>. QED
      BY <1>32, <3>1, <3>2, <3>3, <3>4 DEF ResumableInv
  <2>. QED
    BY <2>1, <2>2 DEF VisitsInv, TokenInv
<1>33. ASSUME NEW t \in Visitor, Visit(t) PROVE VisitsInv'
  BY <1>33
     DEF Visit, MayBegin, Busy, Goto, TurnInv, OlderInv, TargetInv, PublishInv, ResumableInv,
         SuspendsInv, AgreeInv, Changing, VisitsInv, TokenInv
<1>34. ASSUME NEW t \in Visitor, ResumeGuard(t) PROVE VisitsInv'
  BY <1>34
     DEF ResumeGuard, GoOn, Goto, TurnInv, OlderInv, TargetInv, PublishInv, ResumableInv,
         SuspendsInv, AgreeInv, Changing, VisitsInv, TokenInv
<1>35. ASSUME NEW t \in Visitor, ResumeLooksUp(t) PROVE VisitsInv'
  BY <1>35
     DEF ResumeLooksUp, GoOn, Goto, OlderInv, TargetInv, Base, TypeOK, LocalsOK, TurnInv,
         PublishInv, ResumableInv, SuspendsInv, AgreeInv, Changing, VisitsInv, TokenInv
<1>36. ASSUME NEW t \in Visitor, ResumeChecks(t) PROVE VisitsInv'
  BY <1>36
     DEF ResumeChecks, KeepCopy, GoOn, Leave, Goto, OlderInv, TargetInv, Base, TypeOK, LocalsOK,
         TurnInv, PublishInv, ResumableInv, SuspendsInv, AgreeInv, Changing, VisitsInv, TokenInv
<1>37. ASSUME NEW t \in Visitor, ResumeFails(t) PROVE VisitsInv'
  BY <1>37
     DEF ResumeFails, Leave, Goto, TurnInv, OlderInv, TargetInv, PublishInv, ResumableInv,
         SuspendsInv, AgreeInv, Changing, VisitsInv, TokenInv
<1>38. ASSUME NEW t \in Visitor, ResumeOpens(t) PROVE VisitsInv'
  <2>1. PICK s \in Site : OpensOn(t, s)
    BY <1>38, ResumeOpensIs
  <2>2. OpensOnly(t)
    BY <1>38, ResumeOpensIs
  <2>3. /\ TurnInv' /\ OlderInv' /\ TargetInv' /\ PublishInv'
        /\ ResumableInv' /\ SuspendsInv' /\ AgreeInv'
    BY <1>38, <2>2, <2>1
       DEF New, TurnInv, OlderInv, TargetInv, PublishInv, ResumableInv, SuspendsInv, AgreeInv,
           Changing, OpensOn, OpensOnly
  <2>. QED
    BY <2>3 DEF VisitsInv, TokenInv
<1>39. ASSUME NEW t \in Visitor, ResumeInstalls(t) PROVE VisitsInv'
  BY <1>39
     DEF ResumeInstalls, GoOn, Goto, TurnInv, OlderInv, TargetInv, PublishInv, ResumableInv,
         SuspendsInv, Base, TypeOK, LocalsOK, AgreeInv, LocalInv, Changing, SuspendInv,
         VisitsInv, TokenInv
<1>40. ASSUME NEW t \in Visitor, ResumeRegisters(t) PROVE VisitsInv'
  <2>1. TurnInv' /\ OlderInv' /\ ResumableInv' /\ SuspendsInv' /\ AgreeInv' /\ PublishInv'
    BY <1>40, VisitsCompany
       DEF ResumeRegisters, GoOn, Goto, TurnInv, OlderInv, ResumableInv, SuspendsInv, AgreeInv,
           Changing, Base, TypeOK, LocalsOK, PublishInv
  <2>2. TargetInv'
    <3>1. /\ targets' = [targets EXCEPT ![copy[t].token] = [gen |-> gen[t], site |-> site[t]]]
          /\ UNCHANGED <<record, idleApp>> /\ gen[t] = record.gen /\ site[t] \in Site /\ gen[t] \in Gen
          /\ record.token \in Token \cup {None}
      BY <1>40, Fields DEF ResumeRegisters, GenInv, Base, TypeOK, LocalsOK, LocalInv
    <3>2. record.token # None =>
            targets'[record.token] = IF record.token = copy[t].token
                                       THEN [gen |-> gen[t], site |-> site[t]]
                                     ELSE targets[record.token]
      BY <1>40, <3>1 DEF Base, TypeOK
    <3>3. [gen |-> gen[t], site |-> site[t]] # None
      BY <1>40, <3>1 DEF Target
    <3>4. CASE record.token = copy[t].token
      <4>1. record.token # None => targets'[record.token] # None /\ targets'[record.token].gen = gen[t]
        BY <1>40, <3>2, <3>3, <3>4
      <4>. QED
        BY <1>40, <3>1, <4>1 DEF TargetInv
    <3>5. CASE record.token # copy[t].token
      BY <1>40, <3>1, <3>2, <3>5 DEF TargetInv
    <3>. QED
      BY <3>4, <3>5
  <2>. QED
    BY <2>1, <2>2 DEF VisitsInv, TokenInv
<1>41. ASSUME NEW t \in Visitor, ResumeReads(t) PROVE VisitsInv'
  BY <1>41, ResumeReadsIs, NoFields
     DEF KeepCopy, Goto, Frame, OlderInv, TargetInv, Base, TypeOK, LocalsOK, PublishInv,
         ResumableInv, SuspendsInv, TurnInv, AgreeInv, Changing, GenInv, VisitsInv, TokenInv
<1>42. ASSUME NEW t \in Visitor, ResumeWrites(t) PROVE VisitsInv'
  <2>1. TurnInv'
    BY <1>42, VisitsCompany
       DEF ResumeWrites, KeepCopy, Goto, Base, TurnInv, PlaceInv, HeldPC, LocalInv
  <2>2. AgreeInv' /\ OlderInv' /\ TargetInv' /\ ResumableInv' /\ PublishInv' /\ SuspendsInv'
    BY <1>42, VisitsCompany
       DEF ResumeWrites, KeepCopy, Goto, Base, AgreeInv, LocalInv, OlderInv, SameInv, Same,
           TargetInv, ResumableInv, TypeOK, LocalsOK, PublishInv, SuspendsInv
  <2>. QED
    BY <2>1, <2>2 DEF VisitsInv, TokenInv
<1>43. ASSUME NEW t \in Visitor, ResumeFlags(t) PROVE VisitsInv'
  BY <1>43, VisitsCompany
     DEF ResumeFlags, GoOn, Goto, OlderInv, TargetInv, PublishInv, SuspendsInv, AgreeInv,
         Changing, ResumableInv, TurnInv, Base, TypeOK, LocalsOK, VisitsInv, TokenInv
<1>44. ASSUME NEW t \in Visitor, ResumeArms(t) PROVE VisitsInv'
  BY <1>44
     DEF ResumeArms, GoOn, Goto, TurnInv, OlderInv, TargetInv, PublishInv, ResumableInv,
         SuspendsInv, AgreeInv, Changing, VisitsInv, TokenInv
<1>45. ASSUME NEW t \in Visitor, Touch(t) PROVE VisitsInv'
  BY <1>45
     DEF Touch, Leave, Goto, TurnInv, OlderInv, TargetInv, PublishInv, ResumableInv, SuspendsInv,
         AgreeInv, Changing, VisitsInv, TokenInv
<1>46. CASE BootServes
  <2>1. TurnInv' /\ PublishInv' /\ SuspendsInv' /\ AgreeInv' /\ OlderInv' /\ ResumableInv'
    BY <1>46, Fields
       DEF BootServes, Reboot, TurnInv, PublishInv, SuspendsInv, Base, AgreeInv, WholeInv, Whole,
           TypeOK, OlderInv, ResumableInv
  <2>2. TargetInv'
    <3>1. UNCHANGED record /\ record.token \in Token \cup {None}
      BY <1>46, Fields DEF BootServes, Base, TypeOK
    <3>2. record.token # None => targets'[record.token] = [gen |-> record.gen, site |-> record.port]
      BY <1>46, <3>1 DEF BootServes
    <3>3. [gen |-> record.gen, site |-> record.port] # None
      BY <1>46, Fields DEF BootServes, Base, TypeOK, WholeInv, Whole, NoRecord, Target
    <3>. QED
      BY <1>46, <3>1, <3>2, <3>3 DEF TargetInv
  <2>. QED
    BY <2>1, <2>2 DEF VisitsInv, TokenInv
<1>47. CASE BootFails
  <2>1. BootEnds
    BY <1>47, BootEndsIs
  <2>2. /\ OlderInv' /\ TargetInv' /\ PublishInv' /\ ResumableInv'
        /\ SuspendsInv' /\ AgreeInv' /\ TurnInv'
    BY <1>47, <2>1
       DEF Reboot, NothingServed, OlderInv, TargetInv, PublishInv, ResumableInv, SuspendsInv,
           AgreeInv, Changing, TurnInv, ClosePC, BootEnds
  <2>. QED
    BY <2>2 DEF VisitsInv, TokenInv
<1>48. CASE BootExpires
  <2>1. BootEnds
    BY <1>48, BootEndsIs
  <2>2. /\ OlderInv' /\ TargetInv' /\ PublishInv' /\ ResumableInv'
        /\ SuspendsInv' /\ AgreeInv' /\ TurnInv'
    BY <1>48, <2>1
       DEF Reboot, NothingServed, OlderInv, TargetInv, PublishInv, ResumableInv, SuspendsInv,
           AgreeInv, Changing, TurnInv, ClosePC, BootEnds
  <2>. QED
    BY <2>2 DEF VisitsInv, TokenInv
<1>49. CASE BootSkips
  BY <1>49
     DEF BootSkips, Reboot, NothingServed, OlderInv, TargetInv, PublishInv, ResumableInv,
         SuspendsInv, AgreeInv, Changing, TurnInv, ClosePC, VisitsInv, TokenInv
<1>50. CASE UNCHANGED vars
  BY <1>50
     DEF vars, AgreeInv, TurnInv, OlderInv, TargetInv, PublishInv, ResumableInv, SuspendsInv,
         VisitsInv, TokenInv
<1>. QED
  BY <1>1, <1>2, <1>3, <1>4, <1>5, <1>6, <1>7, <1>8, <1>9, <1>10, <1>11, <1>12, <1>13, <1>14,
     <1>15, <1>16, <1>17, <1>18, <1>19, <1>20, <1>21, <1>22, <1>23, <1>24, <1>25, <1>26, <1>27,
     <1>28, <1>29, <1>30, <1>31, <1>32, <1>33, <1>34, <1>35, <1>36, <1>37, <1>38, <1>39, <1>40,
     <1>41, <1>42, <1>43, <1>44, <1>45, <1>46, <1>47, <1>48, <1>49, <1>50
     DEF Next, ApplyStep, CloseStep, SuspendStep, VisitStep

----------------------------------------------------------------------------
(* The invariant, and the properties *)

\* It holds before the first step.
LEMMA InitInv == ASSUME Init PROVE IInv
<1>1. TypeOK
  BY Types DEF Init, TypeOK, LocalsOK, PC
<1>2. \A t \in Thread : pc[t] = "idle" /\ op[t] = "none" /\ site[t] = None
  BY DEF Init
<1>3. PlaceInv /\ OverlapInv /\ WholeInv /\ ApplyInv /\ LocalInv /\ ListenInv /\ HeldInv
  BY <1>2
     DEF Init, PlaceInv, OverlapInv, WholeInv, Whole, ApplyInv, LocalInv, ListenInv, HeldInv,
         ApplyPC, HeldPC, HandPC
<1>4. record = NoRecord /\ sites = None /\ idleApp = None /\ open = {} /\ ~withdrawn
  BY DEF Init
<1>5. ApartInv
  BY <1>2, <1>4, NoFields DEF ApartInv, SameInv, GenInv, RootInv, SitesInv, ApplyPC, ClosePC
<1>6. FilesInv
  BY <1>2, <1>4, NoFields DEF FilesInv, ServedKept, RecordKept, ResumedKept, AppliedKept
<1>7. AloneInv
  BY <1>2, <1>4, NoFields DEF AloneInv, EveryListenerIsKnown, SuspendInv, ServedInv
<1>8. VisitsInv
  BY <1>2, <1>4, NoFields
     DEF VisitsInv, AgreeInv, TurnInv, TokenInv, OlderInv, TargetInv, PublishInv, ResumableInv,
         SuspendsInv, ClosePC
<1>. QED
  BY <1>1, <1>3, <1>5, <1>6, <1>7, <1>8 DEF IInv, Base, Apart, Kept, Alone, Visits

\* The choice of what may overlap is made once.
LEMMA OverlapStays == ASSUME [Next]_vars PROVE UNCHANGED overlap
<1>1. ASSUME NEW t \in Admin, ApplyStep(t) \/ Stop(t) \/ Remove(t) PROVE UNCHANGED overlap
  BY <1>1
     DEF ApplyStep, Apply, ApplySwaps, ApplyCloses, RecordReads, RecordWrites, ApplyArmsTtl,
         Publish, PublishFails, ApplyArmsIdle, Remember, TokenReads, TokenWrites, Stop, Remove
<1>2. ASSUME NEW t \in Admin \cup {Expirer}, CloseStep(t) PROVE UNCHANGED overlap
  BY <1>2
     DEF CloseStep, Withdraw, Unregister, TakeSite, NoSite, CloseSite, MarkReads, MarkWrites,
         Deregister
<1>3. CASE TtlFires \/ ExpireChecks \/ SuspendStep
  BY <1>3
     DEF TtlFires, ExpireChecks, SuspendStep, IdleFires, SuspendLooksUp, SuspendChecks,
         SuspendTakes, SuspendCloses, SuspendReads, SuspendWrites, SuspendFlags
<1>4. ASSUME NEW t \in Visitor, VisitStep(t) PROVE UNCHANGED overlap
  BY <1>4
     DEF VisitStep, Visit, ResumeGuard, ResumeLooksUp, ResumeChecks, ResumeFails, ResumeOpens,
         ResumeInstalls, ResumeRegisters, ResumeReads, ResumeWrites, ResumeFlags, ResumeArms,
         Touch
<1>5. CASE BootServes \/ BootFails \/ BootExpires \/ BootSkips
  BY <1>5 DEF BootServes, BootFails, BootExpires, BootSkips, Reboot
<1>6. CASE UNCHANGED vars
  BY <1>6 DEF vars
<1>. QED
  BY <1>1, <1>2, <1>3, <1>4, <1>5, <1>6 DEF Next

\* The five levels together are inductive.
LEMMA StepInv == ASSUME IInv, [Next]_vars PROVE IInv'
<1>1. Base /\ UNCHANGED overlap
  BY OverlapStays DEF IInv
<1>2. Base'
  BY <1>1, BaseStep
<1>3. ASSUME ExpiryApart PROVE ApartInv /\ ApartInv'
  <2>1. SameInv /\ GenInv /\ RootInv /\ SitesInv
    BY <1>3 DEF IInv, Apart, ApartInv
  <2>. QED
    BY <1>1, <1>3, <2>1, ApartStep DEF ApartInv
<1>4. ASSUME ExpiryApart, ~CrashAnywhere PROVE FilesInv /\ FilesInv'
  <2>1. SameInv /\ GenInv /\ RootInv /\ SitesInv /\ FilesInv
    BY <1>3, <1>4 DEF IInv, Kept, ApartInv
  <2>. QED
    BY <1>1, <1>4, <2>1, FilesStep
<1>5. ASSUME Requests PROVE AloneInv /\ AloneInv'
  <2>1. SameInv /\ GenInv /\ RootInv /\ SitesInv
    BY <1>3, <1>5, RequestsApart DEF ApartInv
  <2>2. EveryListenerIsKnown /\ SuspendInv /\ ServedInv
    BY <1>5 DEF IInv, Alone, AloneInv
  <2>. QED
    BY <1>1, <1>5, <2>1, <2>2, AloneStep DEF AloneInv
<1>6. ASSUME overlap \subseteq Visitor PROVE VisitsInv'
  <2>1. Requests /\ ExpiryApart
    BY <1>6 DEF Requests, ExpiryApart
  <2>2. SameInv /\ GenInv /\ RootInv /\ SitesInv /\ (~CrashAnywhere => FilesInv)
    BY <1>3, <1>4, <2>1 DEF ApartInv
  <2>3. EveryListenerIsKnown /\ SuspendInv /\ ServedInv
    BY <1>5, <2>1 DEF AloneInv
  <2>4. AgreeInv /\ TurnInv /\ OlderInv /\ TargetInv /\ PublishInv /\ ResumableInv /\ SuspendsInv
    BY <1>6 DEF IInv, Visits, VisitsInv, TokenInv
  <2>. QED
    BY <1>1, <1>6, <2>2, <2>3, <2>4, VisitsStep
<1>7. Apart' /\ Kept'
  BY <1>1, <1>3, <1>4 DEF Apart, Kept, ExpiryApart
<1>8. Alone' /\ Visits'
  BY <1>1, <1>5, <1>6 DEF Alone, Visits, Requests
<1>. QED
  BY <1>2, <1>7, <1>8 DEF IInv

\* The inductive invariant: the five levels hold in every behaviour that has the
\* threads overlap which they name.
THEOREM Invariance == Spec => []IInv
<1>1. Init => IInv
  BY InitInv
<1>2. IInv /\ [Next]_vars => IInv'
  BY StepInv
<1>. QED
  BY <1>1, <1>2, PTL DEF Spec

\* The variables keep their types, in Apply, Stop, RemoveApp, expiry, suspension,
\* resumption and boot alike.
THEOREM TypeCorrect == Spec => []TypeOK
<1>1. IInv => TypeOK
  BY DEF IInv, Base
<1>. QED
  BY <1>1, Invariance, PTL

\* What Handler.sites holds listens, whatever overlaps and wherever the server
\* ends.
THEOREM ServedSiteListens == Spec => [](sites # None => sites \in open)
<1>1. IInv => (sites # None => sites \in open)
  BY DEF IInv, Base, ListenInv
<1>. QED
  BY <1>1, Invariance, PTL

\* And it has its directory, if the server ends between the handlers: Stop,
\* expiry and Apply remove a directory only after its site has left the map.
THEOREM SiteIsWhole == ASSUME ~CrashAnywhere PROVE Spec => []ServedSiteIsWhole
<1>1. IInv => ServedSiteIsWhole
  BY DEF IInv, Base, ListenInv, Kept, FilesInv, ServedKept, ServedSiteIsWhole
<1>. QED
  BY <1>1, Invariance, PTL

\* Once nothing is under way the record says running exactly while a site of its
\* port and directory is served, whatever requests did at the same time.
THEOREM RecordTruthful == Spec => []RecordIsTruthful
<1>1. ASSUME IInv PROVE RecordIsTruthful
  <2>1. TypeOK
    BY <1>1 DEF IInv, Base
  <2>2. ASSUME overlap \subseteq Visitor, AtRest
        PROVE  /\ record.status = "running" <=> sites # None
               /\ sites # None => sites = record.port /\ rootOf[sites] = record.root
    <3>1. \A t \in Thread : pc[t] = "idle"
      BY <2>2 DEF AtRest, Busy
    <3>2. Requests
      BY <2>2 DEF Requests
    <3>3. AgreeInv /\ ServedInv
      BY <1>1, <2>2, <3>2 DEF IInv, Alone, AloneInv, Visits, VisitsInv
    <3>. QED
      BY <3>1, <3>3 DEF AgreeInv, ServedInv, Changing
  <2>. QED
    BY <2>1, <2>2 DEF RecordIsTruthful
<1>. QED
  BY <1>1, Invariance, PTL

\* No listener is lost to requests that come while a site is being suspended or
\* resumed.
THEOREM NoLeak == Spec => []NoListenerLeaks
<1>1. IInv => NoListenerLeaks
  BY DEF IInv, Alone, AloneInv, Requests, NoListenerLeaks
<1>. QED
  BY <1>1, Invariance, PTL

\* A suspended site has what resumeApp needs, unless it was withdrawn: its
\* directory, and one generation in the record, idleApps and the proxy.
THEOREM Resumable == ASSUME ~CrashAnywhere PROVE Spec => []SuspendedIsResumable
<1>1. ASSUME IInv PROVE SuspendedIsResumable
  <2> SUFFICES ASSUME overlap \subseteq Visitor, AtRest, record.suspended, ~withdrawn,
                      record.doc \in Exposed, record.token # None
               PROVE  /\ record.root \in files
                      /\ idleApp # None
                      /\ idleApp.suspended /\ idleApp.gen = record.gen
                      /\ targets[record.token] # None
                      /\ targets[record.token].gen = record.gen
    BY DEF SuspendedIsResumable
  <2>1. pc[Idler] = "idle"
    BY DEF AtRest, Busy
  <2>2. TargetInv /\ ResumableInv
    BY <1>1 DEF IInv, Visits, VisitsInv, TokenInv
  <2>. QED
    BY <2>1, <2>2 DEF TargetInv, ResumableInv
<1>. QED
  BY <1>1, Invariance, PTL

\* A callback of the scheduler or of the tracker takes away only a site of the
\* generation its deadline was set for.
THEOREM CallbackIsCurrent == Spec => CallbackEndsItsOwn
<1>1. ASSUME IInv, [Next]_vars
      PROVE  [overlap \subseteq Visitor \cup {Idler} => \A t \in {Idler, Expirer} :
                  pc[t] = "take" /\ pc'[t] = "close" /\ sites # None =>
                      genOf[rootOf[sites]] = gen[t]]_vars
  <2> SUFFICES ASSUME Requests, NEW t \in {Idler, Expirer}, pc[t] = "take", sites # None
               PROVE  genOf[rootOf[sites]] = gen[t]
    BY DEF Requests
  <2>1. GenInv /\ RootInv /\ ServedInv /\ PlaceInv /\ Base
    BY <1>1, RequestsApart DEF IInv, Apart, ApartInv, Alone, AloneInv, Base
  <2>2. record # NoRecord /\ gen[t] = record.gen
    BY <2>1 DEF GenInv, ClosePC
  <2>3. \A u \in Admin : pc[u] = "idle"
    BY <2>1, RequestsCompany
  <2>4. rootOf[sites] = record.root
    BY <2>1, <2>3 DEF ServedInv
  <2>. QED
    BY <2>1, <2>2, <2>4 DEF RootInv
<1>. QED
  BY <1>1, Invariance, PTL DEF Spec, CallbackEndsItsOwn
=============================================================================
