----------------------------- MODULE SessionClient -----------------------------
(***************************************************************************)
(* What the floating window knows of its user and of its sessions: who it  *)
(* says it is, the session it shows, the most recently used ones, drafts,  *)
(* and their copies in the storage of the userscript, which outlive the    *)
(* page.                                                                   *)
(*                                                                         *)
(* A handler runs up to its next await; the rest of it is the sequence of  *)
(* stages in jobs, the first of which waits for its answer.  A text is the *)
(* set of sessions in whose view its parts were typed.  The messages that  *)
(* are shown are those of Transcript.                                      *)
(***************************************************************************)
EXTENDS Naturals, Sequences, FiniteSets

CONSTANTS
  Sessions, \* session ids
  None,     \* no session
  Jobs,     \* bound: handlers under way at a time
  MruCap,   \* SESSION_MRU_CAP
  Patient,  \* the user waits for handlers to end, and keeps its name in a session
  OtherPrefixes, \* bound: the prefixes under which another window of the user stores
  Acts      \* bound: in every behaviour, what the user does is in one of these sets

AllActs == {"reload", "name", "new", "switch", "delete", "rename", "reset", "send", "close", "other", "share"}

ASSUME ClientAssumption ==
  /\ None \notin Sessions
  /\ MruCap \in Nat \ {0}
  /\ Patient \in BOOLEAN
  /\ OtherPrefixes \subseteq {"legacy", "fp"}
  /\ Acts \subseteq SUBSET AllActs

VARIABLES
  status,  \* Bridge: of every session
  owner,   \* Bridge: the user id it was created under
  fp,      \* state.fingerprint is set
  name,    \* state.displayName is set
  sid,     \* state.sessionId
  mru,     \* state.sessionMRU
  list,    \* state.sessionList
  input,   \* the text in the input box
  gm,      \* the values under the prefix of getStoragePrefix, by prefix
  gmFp,    \* FINGERPRINT_KEY is stored
  gmName,  \* DISPLAY_NAME_KEY is stored
  old,     \* the session id under the key of versions before 0.3.0
  jobs,    \* the handlers under way
  acts,    \* what the user does in this behaviour
  lost     \* history: session_closed took a session from the window that has not ended

bridge == <<status, owner>>
self   == <<fp, name, gmFp, gmName>>
view   == <<sid, mru, list, input>>
vars   == <<bridge, self, view, gm, old, jobs, acts, lost>>

\* getStoragePrefix and the user id that the Bridge sees in the headers of gmFetch
StoragePrefixes == {"legacy", "fp"}
Users == {"legacy", "fp", "named"}
Prefix == IF fp THEN "fp" ELSE "legacy"
User == IF name THEN "named" ELSE Prefix

Stage(at, s) == [at |-> at, session |-> s]
Idle == [as |-> "legacy", stages |-> <<>>]

EmptyStore == [sid |-> None, mru |-> <<>>, draft |-> [s \in Sessions |-> {}]]

\* The page is loaded for the first time since version 0.3.0, by a user who may
\* have a session from before.  Its start was reached: migrateLegacyKeys is done,
\* and detectBridge is under way.
Migrate(store, s) == [store EXCEPT !["legacy"].sid = IF s # None /\ @ = None THEN s ELSE @]

Init ==
  /\ acts \in Acts
  /\ old \in Sessions \cup {None}
  /\ status = [s \in Sessions |-> IF s = old THEN "open" ELSE "unborn"]
  /\ owner = [s \in Sessions |-> "legacy"]
  /\ fp = FALSE /\ name = FALSE /\ gmFp = FALSE /\ gmName = FALSE
  /\ sid = None /\ mru = <<>> /\ list = {} /\ input = {} /\ lost = FALSE
  /\ gm = Migrate([p \in StoragePrefixes |-> EmptyStore], old)
  /\ \E j \in Jobs :
       jobs = [i \in Jobs |->
         IF i = j THEN [as |-> "legacy", stages |-> <<Stage("detect", None)>>] ELSE Idle]

-----------------------------------------------------------------------------
(* Handlers *)

\* togglePanel starts two handlers at once: initSession and loadSessionList.
Opening == {"stored", "mru", "create", "push", "pushShown", "resumed"}
Together(a, b) == a[1].at \in Opening /\ b[1].at = "refresh"
UnderWay == {j \in Jobs : jobs[j] # Idle}
Quiet == UnderWay = {}

\* A handler starts and runs up to its first await.
Begin(j, stages) ==
  /\ jobs[j] = Idle
  /\ jobs' = [jobs EXCEPT ![j] = [as |-> User, stages |-> stages]]
  /\ Patient => \A i \in UnderWay :
       Together(jobs[i].stages, stages) \/ Together(stages, jobs[i].stages)

\* Its awaited answer is there, and it runs up to the next await.
Awaits(j, at) == jobs[j].stages # <<>> /\ jobs[j].stages[1].at = at
Continue(j, stages) ==
  LET left == stages \o Tail(jobs[j].stages)
  IN jobs' = [jobs EXCEPT ![j] = IF left = <<>> THEN Idle ELSE [as |-> User, stages |-> left]]

Target(j) == jobs[j].stages[1].session

Save(field, value) == gm' = [gm EXCEPT ![Prefix][field] = value]

\* The session of an answer becomes the one that is shown and stored.
Adopt(s) == sid' = s /\ Save("sid", s)

-----------------------------------------------------------------------------
(* The most recently used sessions *)

\* The filter that drops s: its k-th member is the one up to which k members are left.
Without(s) ==
  LET left == {i \in DOMAIN mru : mru[i] # s}
      Rank(i) == Cardinality({h \in left : h <= i})
  IN [k \in 1..Cardinality(left) |-> mru[CHOOSE i \in left : Rank(i) = k]]

KeepOlder(s) == SubSeq(<<s>> \o mru, 1, IF Len(mru) < MruCap THEN Len(mru) + 1 ELSE MruCap) \* faulty

Pushed(s) ==
  LET all == <<s>> \o Without(s)
  IN SubSeq(all, 1, IF Len(all) < MruCap THEN Len(all) ELSE MruCap)

PushMRU(s) ==
  IF s = None THEN UNCHANGED <<mru, gm>>
  ELSE mru' = Pushed(s) /\ Save("mru", mru')

-----------------------------------------------------------------------------
(* bootstrap *)

\* The Bridge is not there: what was stored is used.
FromStore == fp' = gmFp /\ name' = gmName /\ UNCHANGED <<gmFp, gmName>>

Detected(j) ==
  /\ Awaits(j, "detect")
  /\ \/ Continue(j, <<Stage("whoami", None)>>) /\ UNCHANGED self
     \/ Continue(j, <<>>) /\ FromStore
  /\ UNCHANGED <<bridge, view, gm, old>>

\* The Bridge knows the name from the headers of this very request.
WhoAmI(j) ==
  /\ Awaits(j, "whoami")
  /\ \/ /\ fp' = TRUE
        /\ gmFp' = TRUE
        /\ name' = (jobs[j].as = "named")
        /\ gmName' = (gmName \/ name')
     \/ FromStore
  /\ Continue(j, <<>>)
  /\ UNCHANGED <<bridge, view, gm, old>>

SetDisplayName ==
  /\ "name" \in acts
  /\ name' \in BOOLEAN /\ gmName' = name' \* setDisplayName or clearDisplayName
  /\ Patient => Quiet /\ sid = None /\ list = {}
  /\ UNCHANGED <<bridge, fp, gmFp, view, gm, old, jobs>>

-----------------------------------------------------------------------------
(* initSession *)

Visible(user) == {s \in Sessions : status[s] \in {"open", "closed"} /\ owner[s] = user}

\* The second and the third way to get a session.
FallBack(recent) == IF recent # <<>> THEN Stage("mru", None) ELSE Stage("create", None)

InitStages(store) ==
  <<IF store.sid # None THEN Stage("stored", store.sid) ELSE FallBack(store.mru)>>

\* togglePanel opens a panel without a session.
OpenPanel(j) ==
  /\ sid = None
  /\ mru' = gm[Prefix].mru
  /\ Begin(j, InitStages(gm[Prefix]))
  /\ UNCHANGED <<bridge, self, sid, list, input, gm, old>>

\* The stored session is looked for; a request that fails is one that finds nothing.
Stored(j) ==
  LET s == Target(j) IN
  /\ Awaits(j, "stored")
  /\ \/ /\ list' = Visible(jobs[j].as)
        /\ IF s \in list' /\ status[s] = "open"
           THEN sid' = s /\ Continue(j, <<Stage("push", s)>>)
           ELSE UNCHANGED sid /\ Continue(j, <<FallBack(mru)>>)
     \/ UNCHANGED <<list, sid>> /\ Continue(j, <<FallBack(mru)>>)
  /\ UNCHANGED <<bridge, self, mru, input, gm, old>>

Recent(j) ==
  LET found == mru # <<>> /\ mru[1] \in Visible(jobs[j].as) /\ status[mru[1]] = "open" IN
  /\ Awaits(j, "mru")
  /\ \/ /\ list' = Visible(jobs[j].as)
        /\ IF found
           THEN Adopt(mru[1]) /\ Continue(j, <<Stage("resumed", None)>>)
           ELSE UNCHANGED <<sid, gm>> /\ Continue(j, <<Stage("create", None)>>)
     \/ UNCHANGED <<list, sid, gm>> /\ Continue(j, <<Stage("create", None)>>)
  /\ UNCHANGED <<bridge, self, mru, input, old>>

\* POST /sessions, for the user of the request
Born(s, user) ==
  /\ status[s] = "unborn"
  /\ status' = [status EXCEPT ![s] = "open"]
  /\ owner' = [owner EXCEPT ![s] = user]

\* A failure of the Bridge is an answer without an id, and nobody looks at it.
Created(j) ==
  /\ Awaits(j, "create")
  /\ \/ \E s \in Sessions :
          /\ Born(s, jobs[j].as)
          /\ Adopt(s) /\ Continue(j, <<Stage("pushShown", None)>>)
     \/ UNCHANGED bridge /\ Adopt(None) /\ Continue(j, <<>>)
     \/ UNCHANGED <<bridge, sid, gm>> /\ Continue(j, <<>>)
  /\ UNCHANGED <<self, mru, list, input, old>>

\* After syncModeFromStatus.
Synced(j) ==
  /\ \/ (Awaits(j, "mode") \/ Awaits(j, "resumed")) /\ UNCHANGED <<mru, gm>>
     \/ Awaits(j, "push") /\ PushMRU(Target(j))
     \/ Awaits(j, "pushShown") /\ PushMRU(sid)
  /\ Continue(j, <<>>)
  /\ UNCHANGED <<bridge, self, sid, list, input, old>>

-----------------------------------------------------------------------------
(* Switching *)

\* switchToSession up to its await
MoveWithText(s, from) == \* faulty: the text is kept as a draft of the new session
  /\ sid' = s
  /\ mru' = Pushed(s)
  /\ gm' = [gm EXCEPT ![Prefix].sid = s, ![Prefix].mru = mru', ![Prefix].draft[s] = input]

MoveTo(s, from) ==
  /\ sid' = s
  /\ mru' = Pushed(s)
  /\ gm' = [gm EXCEPT ![Prefix].sid = s, ![Prefix].mru = mru',
                      ![Prefix].draft = IF from = None THEN @ ELSE [@ EXCEPT ![from] = input]]

Switch(j, s) ==
  /\ "switch" \in acts
  /\ s \in list
  /\ s # sid
  /\ MoveTo(s, sid)
  /\ Begin(j, <<Stage("history", s)>>)
  /\ UNCHANGED <<bridge, self, list, input, old>>

\* The draft is put into the input box when the history is there, or will not be.
RestoreDraft(s) == input' = gm[Prefix].draft[s]

History(j) ==
  LET s == Target(j) IN
  /\ Awaits(j, "history")
  /\ RestoreDraft(s)
  /\ Continue(j, <<Stage("mode", None)>>)
  /\ UNCHANGED <<bridge, self, sid, mru, list, gm, old>>

New(j) ==
  /\ "new" \in acts
  /\ Begin(j, <<Stage("new", None)>>)
  /\ UNCHANGED <<bridge, self, view, gm, old>>

CreatedNew(j) ==
  /\ Awaits(j, "new")
  /\ \/ \E s \in Sessions :
          /\ Born(s, jobs[j].as)
          /\ MoveTo(s, sid)
          /\ Continue(j, <<Stage("history", s), Stage("list", None)>>)
     \/ UNCHANGED <<bridge, sid, mru, gm>> /\ Continue(j, <<>>)
  /\ UNCHANGED <<self, list, input, old>>

\* loadSessionList, also when the panel is opened
Refresh(j) ==
  /\ Begin(j, <<Stage("refresh", None)>>)
  /\ UNCHANGED <<bridge, self, view, gm, old>>

Listed(j) ==
  /\ Awaits(j, "list") \/ Awaits(j, "refresh")
  /\ list' \in {Visible(jobs[j].as), {}}
  /\ Continue(j, <<>>)
  /\ UNCHANGED <<bridge, self, sid, mru, input, gm, old>>

-----------------------------------------------------------------------------
(* Deleting, renaming, resetting *)

Delete(j, s) ==
  /\ "delete" \in acts
  /\ s \in list
  /\ Begin(j, <<Stage("delete", s)>>)
  /\ UNCHANGED <<bridge, self, view, gm, old>>

Forget(s) == [gm[Prefix] EXCEPT !.draft[s] = {}, !.mru = Without(s)]

\* After the answer, any of which counts as a success, the window leaves the
\* session for a recent one, or for what initSession finds.
Leave(j, s) ==
  LET left == Without(s)
      next == IF left = <<>> THEN None ELSE left[1]
  IN /\ sid' = next
     /\ gm' = [gm EXCEPT ![Prefix] = [Forget(s) EXCEPT !.sid = next]]
     /\ Continue(j, <<IF next = None THEN FallBack(<<>>) ELSE Stage("history", next),
                      Stage("list", None)>>)

Deleted(j) ==
  LET s == Target(j) IN
  /\ Awaits(j, "delete")
  /\ \/ /\ status' = IF owner[s] = jobs[j].as THEN [status EXCEPT ![s] = "gone"] ELSE status
        /\ mru' = Without(s)
        /\ IF sid = s THEN Leave(j, s)
           ELSE /\ gm' = [gm EXCEPT ![Prefix] = Forget(s)]
                /\ Continue(j, <<Stage("list", None)>>)
                /\ UNCHANGED sid
     \/ UNCHANGED <<status, mru, gm, sid>> /\ Continue(j, <<>>)
  /\ UNCHANGED <<owner, self, list, input, old>>

\* The pen of any row renames the session that is shown.
Rename(j) ==
  /\ "rename" \in acts
  /\ sid # None
  /\ list # {}
  /\ Begin(j, <<Stage("rename", sid)>>)
  /\ UNCHANGED <<bridge, self, view, gm, old>>

Renamed(j) ==
  /\ Awaits(j, "rename")
  /\ \/ PushMRU(sid) /\ Continue(j, <<Stage("list", None)>>)
     \/ UNCHANGED <<mru, gm>> /\ Continue(j, <<>>)
  /\ UNCHANGED <<bridge, self, sid, list, input, old>>

\* The local command /reset was typed.
Reset(j) ==
  /\ "reset" \in acts
  /\ sid # None
  /\ input' = {}
  /\ Begin(j, <<Stage("reset", sid)>>)
  /\ UNCHANGED <<bridge, self, sid, mru, list, gm, old>>

WasReset(j) ==
  LET s == Target(j) IN
  /\ Awaits(j, "reset")
  /\ \/ \E t \in Sessions :
          /\ status[s] \in {"open", "closed"} /\ owner[s] = jobs[j].as
          /\ status[t] = "unborn"
          /\ status' = [status EXCEPT ![s] = "gone", ![t] = "open"]
          /\ owner' = [owner EXCEPT ![t] = jobs[j].as]
          /\ Adopt(t)
     \/ UNCHANGED bridge /\ Adopt(None)
     \/ UNCHANGED <<bridge, sid, gm>>
  /\ Continue(j, <<>>)
  /\ UNCHANGED <<self, mru, list, input, old>>

-----------------------------------------------------------------------------
(* Typing, sending, endings *)

Type ==
  /\ sid # None
  /\ input' = input \cup {sid}
  /\ Patient => Quiet
  /\ UNCHANGED <<bridge, self, sid, mru, list, gm, old, jobs>>

Send ==
  /\ "send" \in acts
  /\ sid # None /\ input # {}
  /\ input' = {}
  /\ Patient => Quiet
  /\ UNCHANGED <<bridge, self, sid, mru, list, gm, old, jobs>>

\* Another window of the same user creates a session, or the answer of this one is lost.
Other(s, user) ==
  /\ "other" \in acts
  /\ Born(s, user)
  /\ UNCHANGED <<self, view, gm, old, jobs>>

\* The other window has the same storage, and a session and a recent list of its own: it opens,
\* switches, deletes or loses a session ...
RecentLists ==
  {q \in UNION {[1..n -> Sessions] : n \in 0..MruCap} : \A i, k \in DOMAIN q : q[i] = q[k] => i = k}

OtherStores(p) ==
  /\ "share" \in acts
  /\ \E s \in Sessions \cup {None}, recent \in RecentLists, from \in Sessions :
       \E text \in {gm[p].draft[from], {}, {from}} :
         gm' = [gm EXCEPT ![p] = [sid |-> s, mru |-> recent, draft |-> [@.draft EXCEPT ![from] = text]]]
  /\ UNCHANGED <<bridge, self, view, old, jobs>>

\* ... or it starts, or the user enters a name there.
OtherNames ==
  /\ "name" \in acts
  /\ gmFp' \in {gmFp, TRUE} /\ gmName' \in BOOLEAN
  /\ UNCHANGED <<bridge, fp, name, view, gm, old, jobs>>

\* A session ends in the Bridge: Claude exits, a clean-up, another window.
End(s) ==
  /\ "close" \in acts
  /\ status[s] \in {"open", "closed"}
  /\ status' \in {[status EXCEPT ![s] = "closed"], [status EXCEPT ![s] = "gone"]}
  /\ UNCHANGED <<owner, self, view, gm, old, jobs>>

\* The event session_closed, which is applied to the session that is shown, whatever session it
\* is about: this one, which has ended or whose run was stopped, or one that was left before
\* its last poll was answered.
SessionClosed ==
  /\ sid # None
  /\ Adopt(None)
  /\ lost' = (lost \/ status[sid] = "open")
  /\ UNCHANGED <<bridge, self, mru, list, input, old, jobs>>

\* The page is loaded again: all that is not stored is lost.
Reload ==
  /\ "reload" \in acts
  /\ fp' = FALSE /\ name' = FALSE
  /\ sid' = None /\ mru' = <<>> /\ list' = {} /\ input' = {}
  /\ \E j \in Jobs :
       jobs' = [i \in Jobs |->
         IF i = j THEN [as |-> "legacy", stages |-> <<Stage("detect", None)>>] ELSE Idle]
  /\ UNCHANGED <<bridge, gmFp, gmName, gm, old>>

-----------------------------------------------------------------------------
Answer(j) ==
  \/ Detected(j) \/ WhoAmI(j) \/ Stored(j) \/ Recent(j) \/ Created(j) \/ Synced(j)
  \/ History(j) \/ CreatedNew(j) \/ Listed(j) \/ Deleted(j) \/ Renamed(j) \/ WasReset(j)

Click(j) ==
  \/ OpenPanel(j) \/ New(j) \/ Refresh(j) \/ Rename(j) \/ Reset(j)
  \/ \E s \in Sessions : Switch(j, s) \/ Delete(j, s)

Page == Type \/ Send \/ SetDisplayName \/ Reload

Elsewhere ==
  \/ \E s \in Sessions : End(s) \/ \E user \in Users : Other(s, user)
  \/ OtherNames \/ \E p \in OtherPrefixes : OtherStores(p)

Next ==
  /\ UNCHANGED acts
  /\ \/ SessionClosed
     \/ UNCHANGED lost /\ (Page \/ Elsewhere \/ \E j \in Jobs : Answer(j) \/ Click(j))

Spec == Init /\ [][Next]_vars

-----------------------------------------------------------------------------
(* Properties *)

Ended == {s \in Sessions : status[s] \in {"closed", "gone"}}
Ats == {"detect", "whoami", "stored", "mru", "create", "push", "pushShown", "resumed", "mode",
        "history", "refresh", "new", "list", "delete", "rename", "reset"}

\* What the variables hold.
TypeOK ==
  /\ status \in [Sessions -> {"unborn", "open", "closed", "gone"}]
  /\ owner \in [Sessions -> Users]
  /\ {fp, name, gmFp, gmName, lost} \subseteq BOOLEAN
  /\ sid \in Sessions \cup {None}
  /\ mru \in Seq(Sessions)
  /\ {list, input} \subseteq SUBSET Sessions
  /\ \A p \in StoragePrefixes :
       /\ gm[p].sid \in Sessions \cup {None}
       /\ gm[p].mru \in Seq(Sessions)
       /\ gm[p].draft \in [Sessions -> SUBSET Sessions]
  /\ \A j \in Jobs :
       /\ jobs[j].as \in Users
       /\ jobs[j].stages \in Seq([at : Ats, session : Sessions \cup {None}])

\* The recent sessions: whichever handlers write the list, one after the other or the two of an
\* opening together, no session is in it twice and it stays within its bound, in memory and in
\* the storage that the next page reads.
MruIsSound ==
  \A recent \in {mru, gm["legacy"].mru, gm["fp"].mru} :
    Len(recent) <= MruCap /\ \A i, j \in 1..Len(recent) : recent[i] = recent[j] => i = j

\* If the user waits for every handler to end, the draft of a session holds no text that was
\* typed in another session that still exists; unless session_closed has taken a living session
\* from the window, whose text is then still in the input box when the next one comes.
DraftsStayApart ==
  ~lost => \A p \in StoragePrefixes, s \in Sessions : gm[p].draft[s] \subseteq {s} \cup Ended
=============================================================================
