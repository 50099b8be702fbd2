--------------------------- MODULE HuntHostProofs ---------------------------
(* Proofs about HuntHost for any number of sessions and folders.  What one   *)
(* session does to another: a caller's directory is never removed, the       *)
(* directory of a session with an id of its own stays while it is open, and  *)
(* a session that is kept from starting by the master link has lost it to    *)
(* another one.  Then what sessions leave behind in the temporary directory, *)
(* and what statements leave behind in the process that executes them.  Last *)
(* what a data source answers, whatever it finds in the session's directory. *)
EXTENDS HuntHost, FiniteSetTheorems, SequenceTheorems, WellFoundedInduction, TLAPS

Pcs == {"new", "made", "unlinked", "linked", "beaten", "open", "failed", "sweeping",
        "disturbed", "closed", "crashed"}

SessionRecord ==
  [pc : Pcs, folder : Folders \union {NoFolder}, debug : BOOLEAN, owned : BOOLEAN,
   made : BOOLEAN, closes : Nat, todo : Seq(TemporaryFolders),
   source : Uris \union {NoSource}, halfEntered : Seq(Profiles)]

SessionsOK ==
  /\ sessions \in [Sessions -> SessionRecord]
  /\ exited \in Seq(TemporaryFolders)

\* A debug session that has got as far as making the link, or was killed.
Settled(t) == sessions[t].debug /\ sessions[t].pc \notin {"new", "made", "unlinked", "beaten"}

\* Why the link can only be there against a session that has removed it.
Contested(s) ==
  \/ sessions[s].pc = "beaten"
  \/ sessions[s].pc = "unlinked" /\ link # NoFolder

RaceInv ==
  \A s \in Sessions :
    /\ sessions[s].pc = "unlinked" => sessions[s].debug
    /\ Contested(s) => \E t \in Sessions \ {s} : Settled(t)

\* Why a folder that was there cannot be taken for a session's own.
LentInv ==
  /\ lent \subseteq GivenFolders /\ lent \subseteq DOMAIN folders
  /\ \A s \in Sessions : sessions[s].pc # "new" /\ Folder(s) \in lent => sessions[s].owned

HostInv == SessionsOK /\ RaceInv /\ LentInv

-----------------------------------------------------------------------------
LEMMA InitHostInv == Init => HostInv
<1> SUFFICES ASSUME Init PROVE HostInv
  OBVIOUS
<1>1. Unborn \in SessionRecord
  BY DEF Unborn, SessionRecord, Pcs
<1>2. SessionsOK
  BY <1>1, HostAssumption DEF SessionsOK, Init
<1>3. \A s \in Sessions : sessions[s].pc = "new"
  BY DEF Init, Unborn
<1>4. DOMAIN folders = lent \union ToSet(Exited0)
  BY DEF Init
<1>5. QED
  BY <1>2, <1>3, <1>4 DEF HostInv, RaceInv, Contested, LentInv, Init

\* What a step of one session does to the sessions: the others are as they
\* were, and this one has not changed its folder or its mode.
Continues(s) ==
  /\ sessions' \in [Sessions -> SessionRecord]
  /\ \A t \in Sessions \ {s} : sessions'[t] = sessions[t]
  /\ sessions[s].pc # "new" /\ sessions'[s].pc # "new"
  /\ sessions'[s].folder = sessions[s].folder
  /\ sessions'[s].debug = sessions[s].debug
  /\ sessions'[s].owned = sessions[s].owned

LEMMA RecordContinues ==
  ASSUME NEW s \in Sessions, NEW r \in SessionRecord, SessionsOK,
         sessions' = [sessions EXCEPT ![s] = r],
         sessions[s].pc # "new", r.pc # "new", r.folder = sessions[s].folder,
         r.debug = sessions[s].debug, r.owned = sessions[s].owned
  PROVE  Continues(s) /\ sessions'[s] = r
BY DEF Continues, SessionsOK

LEMMA GotoContinues ==
  ASSUME NEW s \in Sessions, NEW pc \in Pcs, SessionsOK, Goto(s, pc),
         sessions[s].pc # "new", pc # "new"
  PROVE  Continues(s) /\ sessions'[s].pc = pc
<1> DEFINE r == [sessions[s] EXCEPT !.pc = pc]
<1>1. sessions[s] \in SessionRecord /\ sessions' = [sessions EXCEPT ![s] = r]
  BY DEF Goto, SessionsOK
<1>2. r \in SessionRecord /\ r.pc = pc /\ r.folder = sessions[s].folder
      /\ r.debug = sessions[s].debug /\ r.owned = sessions[s].owned
  BY <1>1 DEF SessionRecord
<1> HIDE DEF r
<1>3. QED
  BY <1>1, <1>2, RecordContinues

\* A step that leaves the link alone and does not take the session back to the
\* stages before it keeps the race decided.
LEMMA RaceKept ==
  ASSUME NEW s \in Sessions, SessionsOK, RaceInv, Continues(s), link' = link,
         sessions'[s].pc \notin {"made", "unlinked", "beaten"}
  PROVE  RaceInv'
<1>1. \A t \in Sessions : Settled(t) => Settled(t)'
  BY DEF Settled, Continues
<1>2. \A r \in Sessions : sessions'[r].pc \in {"beaten", "unlinked"} => r # s /\ sessions'[r] = sessions[r]
  BY DEF Continues
<1>3. QED
  BY <1>1, <1>2 DEF RaceInv, Contested

\* A step that removes no folder but a temporary one, or one that the session
\* has made itself, keeps what was lent.
LEMMA LentKept ==
  ASSUME NEW s \in Sessions, SessionsOK, LentInv, Continues(s), lent' = lent,
         \A f \in DOMAIN folders :
           \/ f \in DOMAIN folders'
           \/ f \in TemporaryFolders
           \/ f = Folder(s) /\ ~sessions[s].owned
  PROVE  LentInv'
<1>1. \A f \in lent : f \notin TemporaryFolders
  BY HostAssumption DEF LentInv
<1>2. \A f \in lent : ~(f = Folder(s) /\ ~sessions[s].owned)
  BY DEF LentInv, Continues, Folder
<1>3. lent' \subseteq DOMAIN folders'
  BY <1>1, <1>2 DEF LentInv
<1>4. \A t \in Sessions : sessions'[t].pc # "new" /\ sessions'[t].folder \in lent => sessions'[t].owned
  BY DEF LentInv, Continues, Folder
<1>5. QED
  BY <1>3, <1>4 DEF LentInv, Folder

LEMMA WithoutFacts ==
  ASSUME NEW f
  PROVE  DOMAIN Without(f) = DOMAIN folders \ {f}
BY DEF Without, Restrict

\* Markers are of temporary folders, whichever are taken out or put in.
LEMMA UnmarkedFacts ==
  ASSUME NEW f, SessionsOK
  PROVE  Unmarked(f) \in Seq(TemporaryFolders)
<1>1. CASE f \in ToSet(exited)
  <2>1. \E i \in DOMAIN exited : exited[i] = f
    BY <1>1 DEF ToSet
  <2>2. (CHOOSE i \in DOMAIN exited : exited[i] = f) \in 1..Len(exited)
    BY <2>1 DEF SessionsOK
  <2>3. \A i \in 1..Len(exited) : RemoveAt(exited, i) \in Seq(TemporaryFolders)
    BY DEF SessionsOK, RemoveAt
  <2>4. QED
    BY <1>1, <2>2, <2>3 DEF Unmarked
<1>2. CASE f \notin ToSet(exited)
  BY <1>2 DEF Unmarked, SessionsOK
<1>3. QED
  BY <1>1, <1>2

LEMMA ObsoleteFacts ==
  ASSUME NEW marked \in Seq(TemporaryFolders)
  PROVE  Obsolete(marked) \in Seq(TemporaryFolders)
BY HostAssumption DEF Obsolete, Oldest

\* Taking out a marker adds none ...
LEMMA ToSetUnmarked ==
  ASSUME NEW f, SessionsOK
  PROVE  ToSet(Unmarked(f)) \subseteq ToSet(exited)
<1>1. CASE f \in ToSet(exited)
  <2>1. \E i \in DOMAIN exited : exited[i] = f
    BY <1>1 DEF ToSet
  <2>2. (CHOOSE i \in DOMAIN exited : exited[i] = f) \in 1..Len(exited)
    BY <2>1 DEF SessionsOK
  <2>3. ASSUME NEW i \in 1..Len(exited)
        PROVE  ToSet(RemoveAt(exited, i)) \subseteq ToSet(exited)
    <3> DEFINE before == SubSeq(exited, 1, i - 1)
               behind == SubSeq(exited, i + 1, Len(exited))
    <3>1. exited \in Seq(TemporaryFolders) /\ Len(exited) \in Nat
      BY DEF SessionsOK
    <3>2. before \in Seq(TemporaryFolders) /\ \A j \in 1..Len(before) : \E k \in 1..Len(exited) : before[j] = exited[k]
      <4>1. Len(before) = i - 1 /\ \A j \in 1..Len(before) : j \in 1..Len(exited) /\ before[j] = exited[j]
        BY <3>1
      <4>2. QED
        BY <3>1, <4>1
    <3>3. behind \in Seq(TemporaryFolders) /\ \A j \in 1..Len(behind) : \E k \in 1..Len(exited) : behind[j] = exited[k]
      <4>1. Len(behind) = Len(exited) - i
            /\ \A j \in 1..Len(behind) : j + i \in 1..Len(exited) /\ behind[j] = exited[j + i]
        BY <3>1
      <4>2. QED
        BY <3>1, <4>1
    <3> HIDE DEF before, behind
    <3>4. ASSUME NEW j \in 1..Len(before \o behind)
          PROVE  \E k \in 1..Len(exited) : (before \o behind)[j] = exited[k]
      <4>1. \/ j \in 1..Len(before) /\ (before \o behind)[j] = before[j]
            \/ j - Len(before) \in 1..Len(behind) /\ (before \o behind)[j] = behind[j - Len(before)]
        BY <3>2, <3>3
      <4>2. CASE j \in 1..Len(before) /\ (before \o behind)[j] = before[j]
        BY <3>2, <4>2
      <4>3. CASE j - Len(before) \in 1..Len(behind) /\ (before \o behind)[j] = behind[j - Len(before)]
        BY <3>3, <4>3
      <4>4. QED
        BY <4>1, <4>2, <4>3
    <3>5. RemoveAt(exited, i) = before \o behind
      BY DEF RemoveAt, before, behind
    <3>6. DOMAIN (before \o behind) = 1..Len(before \o behind) /\ DOMAIN exited = 1..Len(exited)
      BY <3>1, <3>2, <3>3
    <3>7. QED
      BY <3>4, <3>5, <3>6 DEF ToSet
  <2>4. QED
    BY <1>1, <2>2, <2>3 DEF Unmarked
<1>2. CASE f \notin ToSet(exited)
  BY <1>2 DEF Unmarked
<1>3. QED
  BY <1>1, <1>2

\* ... putting one in adds that one ...
LEMMA ToSetAppend ==
  ASSUME NEW marked \in Seq(TemporaryFolders), NEW f \in TemporaryFolders
  PROVE  ToSet(Append(marked, f)) \subseteq ToSet(marked) \union {f}
<1>1. /\ DOMAIN marked = 1..Len(marked) /\ DOMAIN Append(marked, f) = 1..(Len(marked) + 1)
      /\ Append(marked, f)[Len(marked) + 1] = f
      /\ \A i \in 1..Len(marked) : Append(marked, f)[i] = marked[i]
  OBVIOUS
<1>2. \A i \in 1..(Len(marked) + 1) : i = Len(marked) + 1 \/ i \in 1..Len(marked)
  OBVIOUS
<1>3. QED
  BY <1>1, <1>2 DEF ToSet

\* ... and only what is marked is obsolete.
LEMMA ToSetObsolete ==
  ASSUME NEW marked \in Seq(TemporaryFolders)
  PROVE  ToSet(Obsolete(marked)) \subseteq ToSet(marked)
BY HostAssumption DEF Obsolete, Oldest, ToSet

-----------------------------------------------------------------------------
(* Making a session *)

LEMMA CreateKeeps ==
  ASSUME NEW s \in Sessions, HostInv, Create(s)
  PROVE  HostInv'
<1>1. PICK f \in Folders, debug \in DebugModes :
        /\ folders' = With(f)
        /\ sessions' = [sessions EXCEPT ![s] =
             [Unborn EXCEPT !.pc = "made", !.folder = f, !.debug = debug, !.owned = OwnedByCaller(f),
                            !.made = f \notin DOMAIN folders]]
  BY DEF Create
<1> DEFINE new == [Unborn EXCEPT !.pc = "made", !.folder = f, !.debug = debug, !.owned = OwnedByCaller(f),
                                 !.made = f \notin DOMAIN folders]
<1>2. new \in SessionRecord
  <2>1. Unborn \in SessionRecord /\ debug \in BOOLEAN /\ "made" \in Pcs
    BY HostAssumption DEF Unborn, SessionRecord, Pcs
  <2>2. OwnedByCaller(f) \in BOOLEAN /\ (f \notin DOMAIN folders) \in BOOLEAN
    BY DEF OwnedByCaller
  <2>3. QED
    BY <2>1, <2>2 DEF SessionRecord
<1>3. new.pc = "made" /\ new.folder = f /\ new.owned = OwnedByCaller(f)
  BY DEF Unborn
<1>4. sessions' \in [Sessions -> SessionRecord] /\ sessions'[s] = new
      /\ \A t \in Sessions \ {s} : sessions'[t] = sessions[t]
  BY <1>1, <1>2 DEF HostInv, SessionsOK
<1>5. UNCHANGED <<exited, link, lent>> /\ sessions[s].pc = "new"
  BY DEF Create
<1>6. SessionsOK'
  BY <1>4, <1>5 DEF HostInv, SessionsOK
<1>7. RaceInv'
  <2>1. \A t \in Sessions : Settled(t) => Settled(t)'
    BY <1>4, <1>5 DEF Settled
  <2>2. \A r \in Sessions : sessions'[r].pc \in {"beaten", "unlinked"} => r # s /\ sessions'[r] = sessions[r]
    BY <1>3, <1>4
  <2>3. \A r \in Sessions : Contested(r)' => Contested(r)
    BY <1>5, <2>2 DEF Contested
  <2>4. \A r \in Sessions : sessions'[r].pc = "unlinked" => sessions'[r].debug
    BY <2>2 DEF HostInv, RaceInv
  <2>5. QED
    BY <2>1, <2>3, <2>4 DEF HostInv, RaceInv
<1>8. DOMAIN folders \subseteq DOMAIN folders'
  BY <1>1 DEF With
<1>9. LentInv'
  <2>1. f \in lent => OwnedByCaller(f)
    BY DEF HostInv, LentInv, OwnedByCaller
  <2>2. sessions'[s].folder \in lent => sessions'[s].owned
    <3> HIDE DEF new
    <3>1. QED
      BY <1>3, <1>4, <2>1
  <2>3. \A t \in Sessions \ {s} :
          sessions'[t].pc # "new" /\ sessions'[t].folder \in lent => sessions'[t].owned
    BY <1>4 DEF HostInv, LentInv, Folder
  <2>4. QED
    BY <1>5, <1>8, <2>2, <2>3 DEF HostInv, LentInv, Folder
<1>10. QED
  BY <1>6, <1>7, <1>9 DEF HostInv

LEMMA UnlinkKeeps ==
  ASSUME NEW s \in Sessions, HostInv, Unlink(s)
  PROVE  HostInv'
<1>1. Continues(s) /\ sessions'[s].pc = "unlinked" /\ sessions[s].pc = "made"
  BY GotoContinues DEF Unlink, HostInv, Pcs
<1>2. link' = NoFolder /\ UNCHANGED <<folders, exited, lent>>
  BY DEF Unlink
<1>3. SessionsOK'
  BY <1>1, <1>2 DEF HostInv, SessionsOK, Continues
<1>4. RaceInv'
  <2>0. sessions'[s].debug
    BY <1>1 DEF Unlink, Continues
  <2>1. \A t \in Sessions : Settled(t) => Settled(t)'
    BY <1>1 DEF Settled, Continues
  <2>2. \A r \in Sessions : sessions'[r].pc = "beaten" => r # s /\ sessions'[r] = sessions[r]
    BY <1>1 DEF Continues
  <2>3. QED
    BY <1>1, <1>2, <2>0, <2>1, <2>2 DEF HostInv, RaceInv, Contested, Continues
<1>5. LentInv'
  BY <1>1, <1>2, LentKept DEF HostInv
<1>6. QED
  BY <1>3, <1>4, <1>5 DEF HostInv

LEMMA LinkKeeps ==
  ASSUME NEW s \in Sessions, HostInv, Link(s)
  PROVE  HostInv'
<1>1. sessions[s].pc = "unlinked" /\ UNCHANGED <<folders, exited, lent>>
  BY DEF Link
<1>2. \/ link' = Folder(s) /\ Goto(s, "linked")
      \/ link # NoFolder /\ link' = link /\ Goto(s, "beaten")
  BY DEF Link
<1>3. Continues(s) /\ sessions'[s].pc \in {"linked", "beaten"}
  BY <1>1, <1>2, GotoContinues DEF HostInv, Pcs
<1>4. SessionsOK'
  BY <1>1, <1>3 DEF HostInv, SessionsOK, Continues
<1>5. \A t \in Sessions : Settled(t) => Settled(t)' /\ t # s
  BY <1>1, <1>3 DEF Settled, Continues
<1>6. RaceInv'
  <2>1. CASE link # NoFolder /\ link' = link
    BY <1>1, <1>3, <1>5, <2>1 DEF HostInv, RaceInv, Contested, Continues
  <2>2. CASE Goto(s, "linked")
    <3>1. sessions'[s].pc = "linked"
      BY <1>1, <2>2, GotoContinues DEF HostInv, Pcs
    <3>2. Settled(s)'
      BY <1>1, <1>3, <3>1 DEF Settled, Continues, HostInv, RaceInv
    <3>3. \A r \in Sessions : sessions'[r].pc \in {"beaten", "unlinked"} => r # s /\ sessions'[r] = sessions[r]
      BY <1>3, <3>1 DEF Continues
    <3>4. QED
      BY <3>2, <3>3 DEF HostInv, RaceInv, Contested
  <2>3. QED
    BY <1>2, <2>1, <2>2
<1>7. LentInv'
  BY <1>1, <1>3, LentKept DEF HostInv
<1>8. QED
  BY <1>4, <1>6, <1>7 DEF HostInv

\* A step of a session that has begun and is not making the link.
LEMMA Advances ==
  ASSUME NEW s \in Sessions, HostInv, Continues(s), UNCHANGED <<link, lent>>,
         exited' \in Seq(TemporaryFolders),
         sessions'[s].pc \notin {"made", "unlinked", "beaten"},
         \A f \in DOMAIN folders :
           \/ f \in DOMAIN folders'
           \/ f \in TemporaryFolders
           \/ f = Folder(s) /\ ~sessions[s].owned
  PROVE  HostInv'
<1>1. SessionsOK'
  BY DEF SessionsOK, Continues
<1>2. RaceInv'
  BY RaceKept DEF HostInv
<1>3. LentInv'
  BY LentKept DEF HostInv
<1>4. QED
  BY <1>1, <1>2, <1>3 DEF HostInv

LEMMA StartKeeps ==
  ASSUME NEW s \in Sessions, HostInv, Start(s)
  PROVE  HostInv'
<1>1. Continues(s) /\ sessions'[s].pc \in {"open", "failed"}
  <2>1. sessions[s].pc # "new"
    BY DEF Start
  <2>2. Goto(s, "open") \/ Goto(s, "failed")
    BY DEF Start
  <2>3. QED
    BY <2>1, <2>2, GotoContinues DEF HostInv, Pcs
<1>2. UNCHANGED <<folders, exited, link, lent>>
  BY DEF Start
<1>3. QED
  BY <1>1, <1>2, Advances DEF HostInv, SessionsOK

-----------------------------------------------------------------------------
(* Statements: they change what is in a folder, never which folders there are *)

LEMMA StatementFacts ==
  ASSUME NEW s \in Sessions, HostInv, NotEntered(s) \/ Get(s) \/ Apply(s)
  PROVE  /\ sessions[s].pc = "open" /\ UNCHANGED <<exited, link, lent>>
         /\ DOMAIN folders' = DOMAIN folders
         /\ Continues(s) /\ sessions'[s].pc = "open"
         /\ sessions'[s].made = sessions[s].made /\ sessions'[s].todo = sessions[s].todo
<1>1. sessions[s].pc = "open" /\ UNCHANGED <<exited, link, lent>>
  BY DEF NotEntered, Get, Apply, Executes
<1>2. DOMAIN folders' = DOMAIN folders
  <2>1. folders' = folders \/ \E after : folders' = [folders EXCEPT ![Folder(s)] = after]
    <3>1. CASE NotEntered(s) \/ Apply(s)
      BY <3>1 DEF NotEntered, Apply
    <3>2. CASE Get(s)
      BY <3>2 DEF Get
    <3>3. QED
      BY <3>1, <3>2
  <2>2. QED
    BY <2>1
<1>3. \/ sessions' = sessions
      \/ \E uri \in Uris : sessions' = [sessions EXCEPT ![s].source = uri]
      \/ \E profile \in Profiles : sessions' = [sessions EXCEPT ![s].halfEntered = Append(@, profile)]
  <2>1. CASE NotEntered(s)
    BY <2>1 DEF NotEntered
  <2>2. CASE Get(s)
    <3>1. sessions[s].source \in Uris \union {NoSource}
      BY DEF HostInv, SessionsOK, SessionRecord
    <3>2. PICK named \in Uris \union {NoSource} :
             \/ sessions' = sessions
             \/ /\ SourceOf(s, named) # NoSource
                /\ sessions' = [sessions EXCEPT ![s].source = SourceOf(s, named)]
      BY <2>2, ZenonT(40) DEF Get
    <3>3. SourceOf(s, named) \in Uris \union {NoSource}
      BY <3>1 DEF SourceOf
    <3>4. QED
      BY <3>2, <3>3
  <2>3. CASE Apply(s)
    BY <2>3 DEF Apply
  <2>4. QED
    BY <2>1, <2>2, <2>3
<1>4. /\ Continues(s) /\ sessions'[s].pc = "open"
      /\ sessions'[s].made = sessions[s].made /\ sessions'[s].todo = sessions[s].todo
  <2>1. sessions[s] \in SessionRecord
    BY DEF HostInv, SessionsOK
  <2>2. CASE sessions' = sessions
    BY <1>1, <2>2 DEF Continues, HostInv, SessionsOK
  <2>3. ASSUME NEW uri \in Uris, sessions' = [sessions EXCEPT ![s].source = uri]
        PROVE  /\ Continues(s) /\ sessions'[s].pc = "open"
               /\ sessions'[s].made = sessions[s].made /\ sessions'[s].todo = sessions[s].todo
    <3> DEFINE r == [sessions[s] EXCEPT !.source = uri]
    <3>1. r \in SessionRecord /\ r.pc = "open" /\ r.folder = sessions[s].folder
          /\ r.debug = sessions[s].debug /\ r.owned = sessions[s].owned
          /\ r.made = sessions[s].made /\ r.todo = sessions[s].todo
      BY <1>1, <2>1 DEF SessionRecord
    <3>2. sessions' = [sessions EXCEPT ![s] = r]
      BY <2>3
    <3> HIDE DEF r
    <3>3. QED
      BY <1>1, <3>1, <3>2, RecordContinues DEF HostInv
  <2>4. ASSUME NEW profile \in Profiles,
               sessions' = [sessions EXCEPT ![s].halfEntered = Append(@, profile)]
        PROVE  /\ Continues(s) /\ sessions'[s].pc = "open"
               /\ sessions'[s].made = sessions[s].made /\ sessions'[s].todo = sessions[s].todo
    <3> DEFINE r == [sessions[s] EXCEPT !.halfEntered = Append(@, profile)]
    <3>1. r \in SessionRecord /\ r.pc = "open" /\ r.folder = sessions[s].folder
          /\ r.debug = sessions[s].debug /\ r.owned = sessions[s].owned
          /\ r.made = sessions[s].made /\ r.todo = sessions[s].todo
      <4>1. Append(sessions[s].halfEntered, profile) \in Seq(Profiles)
        BY <2>1 DEF SessionRecord
      <4>2. QED
        BY <1>1, <2>1, <4>1 DEF SessionRecord
    <3>2. sessions' = [sessions EXCEPT ![s] = r]
      BY <2>4
    <3> HIDE DEF r
    <3>3. QED
      BY <1>1, <3>1, <3>2, RecordContinues DEF HostInv
  <2>5. QED
    BY <1>3, <2>2, <2>3, <2>4
<1>5. QED
  BY <1>1, <1>2, <1>4

LEMMA StatementKeeps ==
  ASSUME NEW s \in Sessions, HostInv, NotEntered(s) \/ Get(s) \/ Apply(s)
  PROVE  HostInv'
BY StatementFacts, Advances DEF HostInv, SessionsOK

-----------------------------------------------------------------------------
(* Ending a session *)

\* close() marks no folder but its own, which it may remove when it has made it.
LEMMA CloseFacts ==
  ASSUME NEW s \in Sessions, HostInv, Close(s)
  PROVE  /\ Continues(s) /\ sessions'[s].pc \in {"closed", "sweeping"}
         /\ sessions'[s].made = sessions[s].made
         /\ exited' \in Seq(TemporaryFolders)
         /\ ToSet(exited') \subseteq ToSet(exited) \union {Folder(s)}
         /\ ToSet(sessions'[s].todo) \subseteq ToSet(sessions[s].todo) \union ToSet(exited) \union {Folder(s)}
         /\ folders' = folders \/ (folders' = Without(Folder(s)) /\ ~sessions[s].owned)
         /\ UNCHANGED <<link, lent>>
<1> DEFINE closed == [sessions[s] EXCEPT !.pc = "closed", !.closes = @ + 1]
           marked == IF Folder(s) \in TemporaryFolders
                     THEN Append(Unmarked(Folder(s)), Folder(s)) ELSE exited
           sweeping == [closed EXCEPT !.pc = "sweeping", !.todo = Obsolete(marked)]
<1>1. sessions[s] \in SessionRecord /\ sessions[s].pc # "new"
  BY DEF HostInv, SessionsOK, Close
<1>2. marked \in Seq(TemporaryFolders)
  BY UnmarkedFacts DEF HostInv, SessionsOK
<1>3. closed \in SessionRecord /\ closed.pc = "closed" /\ closed.folder = sessions[s].folder
      /\ closed.debug = sessions[s].debug /\ closed.owned = sessions[s].owned
      /\ closed.made = sessions[s].made /\ closed.todo = sessions[s].todo
  <2>1. sessions[s].closes + 1 \in Nat /\ "closed" \in Pcs
    BY <1>1 DEF SessionRecord, Pcs
  <2>2. QED
    BY <1>1, <2>1 DEF SessionRecord
<1>4. sweeping \in SessionRecord /\ sweeping.pc = "sweeping" /\ sweeping.folder = closed.folder
      /\ sweeping.debug = closed.debug /\ sweeping.owned = closed.owned
      /\ sweeping.made = closed.made /\ sweeping.todo = Obsolete(marked)
  <2>1. Obsolete(marked) \in Seq(TemporaryFolders)
    BY <1>2, ObsoleteFacts
  <2> HIDE DEF closed, marked
  <2>2. QED
    BY <1>3, <2>1 DEF SessionRecord, Pcs
<1>5. /\ Continues(s) /\ sessions'[s].pc \in {"closed", "sweeping"}
      /\ sessions'[s].made = sessions[s].made
      /\ sessions'[s].todo = sessions[s].todo \/ sessions'[s].todo = Obsolete(marked)
  <2>1. sessions' = [sessions EXCEPT ![s] = closed] \/ sessions' = [sessions EXCEPT ![s] = sweeping]
    BY DEF Close
  <2> HIDE DEF closed, sweeping, marked
  <2>2. CASE sessions' = [sessions EXCEPT ![s] = closed]
    BY <1>1, <1>3, <2>2, RecordContinues DEF HostInv
  <2>3. CASE sessions' = [sessions EXCEPT ![s] = sweeping]
    BY <1>1, <1>3, <1>4, <2>3, RecordContinues DEF HostInv
  <2>4. QED
    BY <2>1, <2>2, <2>3
<1>6. exited' = exited \/ exited' = Unmarked(Folder(s)) \/ exited' = marked
  BY DEF Close
<1>7. ToSet(marked) \subseteq ToSet(exited) \union {Folder(s)}
  <2>1. ToSet(Unmarked(Folder(s))) \subseteq ToSet(exited) /\ Unmarked(Folder(s)) \in Seq(TemporaryFolders)
    BY ToSetUnmarked, UnmarkedFacts DEF HostInv
  <2>2. Folder(s) \in TemporaryFolders
          => ToSet(Append(Unmarked(Folder(s)), Folder(s))) \subseteq ToSet(Unmarked(Folder(s))) \union {Folder(s)}
    BY <2>1, ToSetAppend
  <2>3. QED
    BY <2>1, <2>2
<1> HIDE DEF closed, sweeping, marked
<1>8. exited' \in Seq(TemporaryFolders) /\ ToSet(exited') \subseteq ToSet(exited) \union {Folder(s)}
  BY <1>2, <1>6, <1>7, UnmarkedFacts, ToSetUnmarked DEF HostInv, SessionsOK
<1>9. ToSet(sessions'[s].todo) \subseteq ToSet(sessions[s].todo) \union ToSet(exited) \union {Folder(s)}
  BY <1>2, <1>5, <1>7, ToSetObsolete
<1>10. folders' = folders \/ (folders' = Without(Folder(s)) /\ ~sessions[s].owned)
  BY DEF Close
<1>11. UNCHANGED <<link, lent>>
  BY DEF Close
<1>12. QED
  BY <1>5, <1>8, <1>9, <1>10, <1>11

LEMMA CloseKeeps ==
  ASSUME NEW s \in Sessions, HostInv, Close(s)
  PROVE  HostInv'
BY CloseFacts, WithoutFacts, Advances

\* A clean-up removes what is on its list.
LEMMA SweepFacts ==
  ASSUME NEW s \in Sessions, HostInv, Sweep(s)
  PROVE  /\ Continues(s) /\ sessions'[s].pc \in {"sweeping", "disturbed"}
         /\ sessions'[s].made = sessions[s].made
         /\ exited' \in Seq(TemporaryFolders)
         /\ ToSet(exited') \subseteq ToSet(exited)
         /\ ToSet(sessions'[s].todo) \subseteq ToSet(sessions[s].todo)
         /\ \A f \in DOMAIN folders \ DOMAIN folders' : f \in ToSet(sessions[s].todo) /\ f \in TemporaryFolders
         /\ UNCHANGED <<link, lent>>
<1>1. sessions[s] \in SessionRecord /\ sessions[s].pc = "sweeping" /\ sessions[s].todo # <<>>
  BY DEF HostInv, SessionsOK, Sweep
<1>2. sessions[s].todo \in Seq(TemporaryFolders)
  BY <1>1 DEF SessionRecord
<1>3. /\ Head(sessions[s].todo) \in ToSet(sessions[s].todo) /\ Head(sessions[s].todo) \in TemporaryFolders
      /\ Tail(sessions[s].todo) \in Seq(TemporaryFolders)
  BY <1>1, <1>2 DEF ToSet
<1>4. ToSet(Tail(sessions[s].todo)) \subseteq ToSet(sessions[s].todo)
  BY <1>1, <1>2 DEF ToSet
<1>5. /\ Continues(s) /\ sessions'[s].pc \in {"sweeping", "disturbed"}
      /\ sessions'[s].made = sessions[s].made
      /\ sessions'[s].todo = sessions[s].todo \/ sessions'[s].todo = Tail(sessions[s].todo)
  <2> DEFINE swept == [sessions[s] EXCEPT !.todo = Tail(sessions[s].todo)]
             disturbed == [sessions[s] EXCEPT !.pc = "disturbed"]
  <2>1. swept \in SessionRecord /\ swept.pc = "sweeping" /\ swept.folder = sessions[s].folder
        /\ swept.debug = sessions[s].debug /\ swept.owned = sessions[s].owned
        /\ swept.made = sessions[s].made /\ swept.todo = Tail(sessions[s].todo)
    BY <1>1, <1>3 DEF SessionRecord
  <2>2. disturbed \in SessionRecord /\ disturbed.pc = "disturbed" /\ disturbed.folder = sessions[s].folder
        /\ disturbed.debug = sessions[s].debug /\ disturbed.owned = sessions[s].owned
        /\ disturbed.made = sessions[s].made /\ disturbed.todo = sessions[s].todo
    BY <1>1 DEF SessionRecord, Pcs
  <2>3. sessions' = [sessions EXCEPT ![s] = swept] \/ sessions' = [sessions EXCEPT ![s] = disturbed]
    BY DEF Sweep
  <2> HIDE DEF swept, disturbed
  <2>4. CASE sessions' = [sessions EXCEPT ![s] = swept]
    BY <1>1, <2>1, <2>4, RecordContinues DEF HostInv
  <2>5. CASE sessions' = [sessions EXCEPT ![s] = disturbed]
    BY <1>1, <2>2, <2>5, RecordContinues DEF HostInv
  <2>6. QED
    BY <2>3, <2>4, <2>5
<1>6. exited' = exited \/ exited' = Unmarked(Head(sessions[s].todo))
  BY DEF Sweep
<1>7. exited' \in Seq(TemporaryFolders) /\ ToSet(exited') \subseteq ToSet(exited)
  BY <1>6, UnmarkedFacts, ToSetUnmarked DEF HostInv, SessionsOK
<1>8. folders' = folders \/ folders' = Without(Head(sessions[s].todo))
  BY DEF Sweep
<1>9. UNCHANGED <<link, lent>>
  BY DEF Sweep
<1>10. QED
  BY <1>3, <1>4, <1>5, <1>7, <1>8, <1>9, WithoutFacts

LEMMA SweepKeeps ==
  ASSUME NEW s \in Sessions, HostInv, Sweep(s)
  PROVE  HostInv'
BY SweepFacts, Advances

LEMMA EndKeeps ==
  ASSUME NEW s \in Sessions, HostInv, Swept(s) \/ Crash(s)
  PROVE  HostInv'
<1>1. sessions[s].pc # "new" /\ (Goto(s, "closed") \/ Goto(s, "crashed"))
  BY DEF Swept, Crash, Live
<1>2. Continues(s) /\ sessions'[s].pc \in {"closed", "crashed"}
  BY <1>1, GotoContinues DEF HostInv, Pcs
<1>3. UNCHANGED <<folders, exited, link, lent>>
  BY DEF Swept, Crash
<1>4. QED
  BY <1>2, <1>3, Advances DEF HostInv, SessionsOK

LEMMA NextKeeps == HostInv /\ [Next]_vars => HostInv'
<1> SUFFICES ASSUME HostInv, [Next]_vars PROVE HostInv'
  OBVIOUS
<1>1. CASE UNCHANGED <<sessions, exited, link, lent>> /\ DOMAIN folders' = DOMAIN folders
  BY <1>1 DEF HostInv, SessionsOK, RaceInv, Contested, Settled, LentInv, Folder
<1>2. ASSUME NEW s \in Sessions, Create(s) PROVE HostInv'
  BY <1>2, CreateKeeps
<1>3. ASSUME NEW s \in Sessions, Unlink(s) PROVE HostInv'
  BY <1>3, UnlinkKeeps
<1>4. ASSUME NEW s \in Sessions, Link(s) PROVE HostInv'
  BY <1>4, LinkKeeps
<1>5. ASSUME NEW s \in Sessions, Start(s) PROVE HostInv'
  BY <1>5, StartKeeps
<1>6. ASSUME NEW s \in Sessions, NotEntered(s) \/ Get(s) \/ Apply(s) PROVE HostInv'
  BY <1>6, StatementKeeps
<1>7. ASSUME NEW s \in Sessions, Close(s) PROVE HostInv'
  BY <1>7, CloseKeeps
<1>8. ASSUME NEW s \in Sessions, Sweep(s) PROVE HostInv'
  BY <1>8, SweepKeeps
<1>9. ASSUME NEW s \in Sessions, Swept(s) \/ Crash(s) PROVE HostInv'
  BY <1>9, EndKeeps
<1>10. CASE BundleChanges
  BY <1>1, <1>10 DEF BundleChanges
<1>11. CASE FiveMinutesPass
  BY <1>1, <1>11 DEF FiveMinutesPass
<1>12. CASE UNCHANGED vars
  BY <1>1, <1>12 DEF vars
<1>13. QED
  BY <1>2, <1>3, <1>4, <1>5, <1>6, <1>7, <1>8, <1>9, <1>10, <1>11, <1>12 DEF Next

\* What the other two rest on, with the types of the sessions.
THEOREM HostInvariant == Spec => []HostInv
<1>1. QED
  BY InitHostInv, NextKeeps, PTL DEF Spec

\* No session removes a directory that was there before it was given to one.
THEOREM LentStays == Spec => []LentFolderStays
<1>1. HostInv => LentFolderStays
  BY DEF HostInv, LentInv, LentFolderStays
<1>2. QED
  BY <1>1, HostInvariant, PTL

\* A session that is kept from starting by the master link has lost it to
\* another debug session, never to a link that was left over.
THEOREM RacersWin == Spec => []SomeRacerWins
<1>1. HostInv => SomeRacerWins
  BY DEF HostInv, RaceInv, Contested, Settled, SomeRacerWins
<1>2. QED
  BY <1>1, HostInvariant, PTL
-----------------------------------------------------------------------------
(* The directory of a session with an id of its own *)

Early == {"made", "unlinked", "linked", "open"}
Past(t) == sessions[t].pc \in {"sweeping", "disturbed", "closed", "crashed"}

\* What a clean-up may remove: a folder with an exit marker, or one that is on
\* the list of a clean-up that has begun.
Doomed(f) == f \in ToSet(exited) \/ \E t \in Sessions : f \in ToSet(sessions[t].todo)

\* It was a debug session's that exited before, or a session has ended with it.
MarkInv ==
  \A f \in Folders : Doomed(f) => f \in ToSet(Exited0) \/ \E t \in Sessions : Past(t) /\ Folder(t) = f

\* OfItsOwn, of the sessions that have begun.
Alone(s) ==
  /\ sessions[s].made /\ Folder(s) \notin ToSet(Exited0)
  /\ \A t \in Sessions \ {s} : sessions[t].pc # "new" => Folder(t) # Folder(s)

HereInv == \A s \in Sessions : sessions[s].pc \in Early /\ Alone(s) => Present(s)

OwnInv == MarkInv /\ HereInv

LEMMA InitOwnInv == Init => OwnInv
<1> SUFFICES ASSUME Init PROVE OwnInv
  OBVIOUS
<1>1. \A s \in Sessions : sessions[s].pc = "new" /\ sessions[s].todo = <<>>
  BY DEF Init, Unborn
<1>2. ToSet(<<>>) = {} /\ exited = Exited0
  BY DEF ToSet, Init
<1>3. QED
  BY <1>1, <1>2 DEF OwnInv, MarkInv, HereInv, Doomed, Early

\* A step of a session that has begun: it marks no folder but its own, when it
\* has ended; it puts on its list what is marked; it removes what is on its list,
\* or its own folder when it has ended.
LEMMA OwnKept ==
  ASSUME NEW s \in Sessions, HostInv, OwnInv, Continues(s),
         sessions'[s].made = sessions[s].made,
         Past(s) => Past(s)',
         sessions'[s].pc \in Early => sessions[s].pc \in Early,
         \A f \in Folders : f \in ToSet(exited') => f \in ToSet(exited) \/ (Past(s)' /\ f = Folder(s)),
         \A f \in Folders : f \in ToSet(sessions'[s].todo)
                              => \/ f \in ToSet(exited) \union ToSet(sessions[s].todo)
                                 \/ Past(s)' /\ f = Folder(s),
         \A f \in DOMAIN folders : \/ f \in DOMAIN folders'
                                   \/ f \in ToSet(sessions[s].todo) /\ f \in Folders
                                   \/ f = Folder(s) /\ Past(s)'
  PROVE  OwnInv'
<1>1. \A t \in Sessions : Folder(t)' = Folder(t) /\ (Past(t) => Past(t)')
  BY DEF Continues, Folder, Past
<1>2. \A f \in Folders : Doomed(f)' => Doomed(f) \/ (Past(s)' /\ f = Folder(s))
  BY DEF Continues, Doomed
<1>3. MarkInv'
  BY <1>1, <1>2 DEF OwnInv, MarkInv
<1>4. ASSUME NEW t \in Sessions, sessions'[t].pc \in Early, Alone(t)'
      PROVE  Present(t)'
  <2>1. sessions[t].pc \in Early /\ sessions'[t].made = sessions[t].made
    BY <1>4 DEF Continues
  <2>2. Alone(t)
    BY <1>1, <1>4, <2>1 DEF Alone, Continues
  <2>3. Folder(t) \in DOMAIN folders
    BY <2>1, <2>2 DEF OwnInv, HereInv, Present
  <2>4. ~(Folder(t) = Folder(s) /\ Past(s)')
    BY <1>4, <2>2 DEF Alone, Early, Past, Continues
  <2>5. ~(Folder(t) \in ToSet(sessions[s].todo) /\ Folder(t) \in Folders)
    <3>1. \A u \in Sessions : Past(u) => u # t /\ sessions[u].pc # "new"
      BY <2>1 DEF Past, Early
    <3>2. ~\E u \in Sessions : Past(u) /\ Folder(u) = Folder(t)
      BY <2>2, <3>1 DEF Alone
    <3>3. Folder(t) \in Folders => ~Doomed(Folder(t))
      BY <2>2, <3>2 DEF OwnInv, MarkInv, Alone
    <3>4. QED
      BY <3>3 DEF Doomed
  <2>6. QED
    BY <1>1, <2>3, <2>4, <2>5 DEF Present
<1>5. QED
  BY <1>3, <1>4 DEF OwnInv, HereInv

LEMMA GotoOwn ==
  ASSUME NEW s \in Sessions, NEW pc \in Pcs, HostInv, OwnInv, Goto(s, pc),
         sessions[s].pc # "new", pc # "new", pc \in Early => sessions[s].pc \in Early,
         Past(s) => pc \in {"sweeping", "disturbed", "closed", "crashed"},
         UNCHANGED exited, DOMAIN folders \subseteq DOMAIN folders'
  PROVE  OwnInv'
<1>1. Continues(s) /\ sessions'[s].pc = pc
  BY GotoContinues DEF HostInv
<1>2. sessions'[s].made = sessions[s].made /\ sessions'[s].todo = sessions[s].todo
  BY DEF Goto, HostInv, SessionsOK
<1>3. Past(s) => Past(s)'
  BY <1>1 DEF Past
<1>4. QED
  BY <1>1, <1>2, <1>3, OwnKept

LEMMA CreateOwn ==
  ASSUME NEW s \in Sessions, HostInv, OwnInv, Create(s)
  PROVE  OwnInv'
<1>1. PICK f \in Folders, debug \in DebugModes :
        /\ folders' = With(f)
        /\ sessions' = [sessions EXCEPT ![s] =
             [Unborn EXCEPT !.pc = "made", !.folder = f, !.debug = debug, !.owned = OwnedByCaller(f),
                            !.made = f \notin DOMAIN folders]]
  BY DEF Create
<1> DEFINE new == [Unborn EXCEPT !.pc = "made", !.folder = f, !.debug = debug, !.owned = OwnedByCaller(f),
                                 !.made = f \notin DOMAIN folders]
<1>2. sessions'[s].pc = "made" /\ sessions'[s].folder = f /\ sessions'[s].todo = <<>>
      /\ \A t \in Sessions \ {s} : sessions'[t] = sessions[t]
  <2>1. new.pc = "made" /\ new.folder = f /\ new.todo = <<>>
    BY DEF Unborn
  <2>2. sessions' = [sessions EXCEPT ![s] = new]
    BY <1>1
  <2> HIDE DEF new
  <2>3. QED
    BY <2>1, <2>2 DEF HostInv, SessionsOK
<1> HIDE DEF new
<1>3. exited' = exited /\ sessions[s].pc = "new"
  BY DEF Create
<1>4. f \in DOMAIN folders' /\ DOMAIN folders \subseteq DOMAIN folders'
  BY <1>1 DEF With
<1>5. \A t \in Sessions : Past(t) => Past(t)' /\ Folder(t)' = Folder(t)
  BY <1>2, <1>3 DEF Past, Folder
<1>6. \A g \in Folders : Doomed(g)' => Doomed(g)
  <2>1. ToSet(<<>>) = {}
    BY DEF ToSet
  <2>2. QED
    BY <1>2, <1>3, <2>1 DEF Doomed
<1>7. MarkInv'
  BY <1>5, <1>6 DEF OwnInv, MarkInv
<1>8. ASSUME NEW t \in Sessions \ {s}, sessions'[t].pc \in Early, Alone(t)'
      PROVE  Present(t)'
  <2>1. sessions'[t] = sessions[t] /\ \A u \in Sessions \ {s} : Folder(u)' = Folder(u)
    BY <1>2 DEF Folder
  <2>2. Alone(t)
    <3>1. \A u \in Sessions \ {t} : sessions[u].pc # "new" =>
            sessions'[u].pc # "new" /\ Folder(u)' = Folder(u)
      BY <1>2, <1>3, <2>1
    <3>2. Folder(t)' = Folder(t)
      BY <2>1 DEF Folder
    <3>3. QED
      BY <1>8, <2>1, <3>1, <3>2 DEF Alone
  <2>3. QED
    BY <1>4, <1>8, <2>1, <2>2 DEF OwnInv, HereInv, Present, Folder
<1>9. Present(s)'
  BY <1>2, <1>4 DEF Present, Folder
<1>10. QED
  BY <1>7, <1>8, <1>9 DEF OwnInv, HereInv

LEMMA LinkOwn ==
  ASSUME NEW s \in Sessions, HostInv, OwnInv, Unlink(s) \/ Link(s) \/ Start(s)
  PROVE  OwnInv'
<1>1. sessions[s].pc \in {"made", "unlinked", "linked"} /\ UNCHANGED <<folders, exited>>
  BY DEF Unlink, Link, Start
<1>2. PICK pc \in {"unlinked", "linked", "beaten", "open", "failed"} : Goto(s, pc)
  BY DEF Unlink, Link, Start
<1>3. QED
  BY <1>1, <1>2, GotoOwn DEF Pcs, Early, Past

LEMMA StatementOwn ==
  ASSUME NEW s \in Sessions, HostInv, OwnInv, NotEntered(s) \/ Get(s) \/ Apply(s)
  PROVE  OwnInv'
<1>1. ~Past(s)
  BY StatementFacts DEF Past
<1>2. exited' = exited /\ DOMAIN folders' = DOMAIN folders /\ sessions[s].pc \in Early
  BY StatementFacts DEF Early
<1>3. QED
  BY <1>1, <1>2, StatementFacts, OwnKept

LEMMA CloseOwn ==
  ASSUME NEW s \in Sessions, HostInv, OwnInv, Close(s)
  PROVE  OwnInv'
<1>1. Past(s)' /\ sessions'[s].pc \notin Early
  BY CloseFacts DEF Past, Early
<1>2. \A f \in Folders : f \in ToSet(exited') => f \in ToSet(exited) \/ (Past(s)' /\ f = Folder(s))
  BY <1>1, CloseFacts
<1>3. \A f \in Folders : f \in ToSet(sessions'[s].todo)
                            => \/ f \in ToSet(exited) \union ToSet(sessions[s].todo)
                               \/ Past(s)' /\ f = Folder(s)
  BY <1>1, CloseFacts
<1>4. \A f \in DOMAIN folders : \/ f \in DOMAIN folders'
                                \/ f \in ToSet(sessions[s].todo) /\ f \in Folders
                                \/ f = Folder(s) /\ Past(s)'
  BY <1>1, CloseFacts, WithoutFacts
<1>5. Continues(s) /\ sessions'[s].made = sessions[s].made
  BY CloseFacts
<1>6. QED
  BY <1>1, <1>2, <1>3, <1>4, <1>5, OwnKept

LEMMA SweepOwn ==
  ASSUME NEW s \in Sessions, HostInv, OwnInv, Sweep(s)
  PROVE  OwnInv'
<1>1. Past(s)' /\ sessions'[s].pc \notin Early
  BY SweepFacts DEF Past, Early
<1>2. QED
  BY <1>1, SweepFacts, OwnKept DEF Folders

LEMMA EndOwn ==
  ASSUME NEW s \in Sessions, HostInv, OwnInv, Swept(s) \/ Crash(s)
  PROVE  OwnInv'
<1>1. sessions[s].pc # "new" /\ UNCHANGED <<folders, exited>>
  BY DEF Swept, Crash, Live
<1>2. PICK pc \in {"closed", "crashed"} : Goto(s, pc)
  BY DEF Swept, Crash
<1>3. QED
  BY <1>1, <1>2, GotoOwn DEF Pcs, Early

LEMMA NextOwn == HostInv /\ OwnInv /\ [Next]_vars => OwnInv'
<1> SUFFICES ASSUME HostInv, OwnInv, [Next]_vars PROVE OwnInv'
  OBVIOUS
<1>1. CASE UNCHANGED <<sessions, exited>> /\ DOMAIN folders' = DOMAIN folders
  BY <1>1 DEF OwnInv, MarkInv, HereInv, Doomed, Past, Alone, Present, Folder
<1>2. ASSUME NEW s \in Sessions, Create(s) PROVE OwnInv'
  BY <1>2, CreateOwn
<1>3. ASSUME NEW s \in Sessions, Unlink(s) \/ Link(s) \/ Start(s) PROVE OwnInv'
  BY <1>3, LinkOwn
<1>4. ASSUME NEW s \in Sessions, NotEntered(s) \/ Get(s) \/ Apply(s) PROVE OwnInv'
  BY <1>4, StatementOwn
<1>5. ASSUME NEW s \in Sessions, Close(s) PROVE OwnInv'
  BY <1>5, CloseOwn
<1>6. ASSUME NEW s \in Sessions, Sweep(s) PROVE OwnInv'
  BY <1>6, SweepOwn
<1>7. ASSUME NEW s \in Sessions, Swept(s) \/ Crash(s) PROVE OwnInv'
  BY <1>7, EndOwn
<1>8. CASE BundleChanges
  BY <1>1, <1>8 DEF BundleChanges
<1>9. CASE FiveMinutesPass
  BY <1>1, <1>9 DEF FiveMinutesPass
<1>10. CASE UNCHANGED vars
  BY <1>1, <1>10 DEF vars
<1>11. QED
  BY <1>2, <1>3, <1>4, <1>5, <1>6, <1>7, <1>8, <1>9, <1>10 DEF Next

\* The directory of a session with an id of its own is there as long as the
\* session is open: only a session that has ended leaves a marker, and only
\* marked folders are cleaned up.
THEOREM PrivateStays == Spec => []PrivateFolderStays
<1>1. OwnInv => PrivateFolderStays
  BY DEF OwnInv, HereInv, PrivateFolderStays, OfItsOwn, Alone, Early
<1>2. Init => OwnInv
  BY InitOwnInv
<1>3. HostInv /\ OwnInv /\ [Next]_vars => OwnInv'
  BY NextOwn
<1>4. QED
  BY <1>1, <1>2, <1>3, HostInvariant, PTL DEF Spec

-----------------------------------------------------------------------------
(* What sessions leave behind *)

\* No folder has two exit markers.
Distinct(seq) == \A i, j \in DOMAIN seq : seq[i] = seq[j] => i = j

\* Who has yet to deal with folder f: a session that uses it, or was stopped.
UsedBy(s, f) ==
  Folder(s) = f /\ sessions[s].pc \notin {"new", "sweeping", "closed"}

\* The markers that no clean-up under way has on its list.
Kept == {f \in ToSet(exited) : \A s \in Sessions : f \notin ToSet(sessions[s].todo)}

\* Every folder in the temporary directory has a marker or a session to come; a
\* list is worked off before its session is closed; and what is on no list is
\* what the configuration wants to keep.
LeftInv ==
  /\ Distinct(exited)
  /\ \A s \in Sessions : /\ sessions[s].owned => Folder(s) \in GivenFolders
                         /\ sessions[s].pc \notin {"sweeping", "disturbed", "crashed"}
                              => sessions[s].todo = <<>>
  /\ \A f \in DOMAIN folders \cap TemporaryFolders :
       f \in ToSet(exited) \/ \E s \in Sessions : UsedBy(s, f)

KeptInv == Cardinality(Kept) <= MaximumExited

\* Taking out one element of a sequence.
LEMMA RemoveAtFacts ==
  ASSUME NEW S, NEW e \in Seq(S), NEW i \in 1..Len(e)
  PROVE  LET r == RemoveAt(e, i)
         IN  /\ r \in Seq(S) /\ DOMAIN r = 1..(Len(e) - 1) /\ Len(e) \in Nat /\ DOMAIN e = 1..Len(e)
             /\ \A j \in 1..(Len(e) - 1) : r[j] = IF j < i THEN e[j] ELSE e[j + 1]
<1> DEFINE before == SubSeq(e, 1, i - 1)
           behind == SubSeq(e, i + 1, Len(e))
           r == before \o behind
<1>1. Len(e) \in Nat /\ i \in Nat /\ 1 <= i /\ i <= Len(e) /\ DOMAIN e = 1..Len(e)
  OBVIOUS
<1>1a. PICK n \in Nat : n = Len(e)
  BY <1>1
<1>2. before \in Seq(S) /\ Len(before) = i - 1 /\ \A j \in 1..(i - 1) : before[j] = e[j]
  <2>1. 1 \in Int /\ i - 1 \in Int /\ \A j \in 1..(i - 1) : e[j] \in S
    BY <1>1
  <2>2. /\ before \in Seq(S) /\ Len(before) = IF 1 <= i - 1 THEN (i - 1) - 1 + 1 ELSE 0
        /\ \A j \in 1..((i - 1) - 1 + 1) : before[j] = e[1 + j - 1]
    BY <2>1, SubSeqProperties
  <2>3. QED
    BY <1>1, <2>2
<1>3. behind \in Seq(S) /\ Len(behind) = n - i /\ \A j \in 1..(n - i) : behind[j] = e[j + i]
  <2>1. i + 1 \in Int /\ n \in Int /\ \A j \in (i + 1)..n : e[j] \in S
    BY <1>1a, <1>1
  <2>2. /\ SubSeq(e, i + 1, n) \in Seq(S)
        /\ Len(SubSeq(e, i + 1, n)) = IF i + 1 <= n THEN n - (i + 1) + 1 ELSE 0
        /\ \A j \in 1..(n - (i + 1) + 1) : SubSeq(e, i + 1, n)[j] = e[(i + 1) + j - 1]
    BY <2>1, SubSeqProperties
  <2>3. behind = SubSeq(e, i + 1, n)
    BY <1>1a
  <2> HIDE DEF behind
  <2>4. QED
    BY <1>1a, <1>1, <2>2, <2>3
<1> HIDE DEF before, behind
<1>4. r \in Seq(S) /\ Len(r) = Len(e) - 1
  <2>1. r \in Seq(S) /\ Len(r) = Len(before) + Len(behind)
    BY <1>2, <1>3, ConcatProperties
  <2>2. Len(r) = (i - 1) + (n - i)
    BY <1>2, <1>3, <2>1
  <2>3. QED
    BY <1>1a, <1>1, <2>1, <2>2
<1>5. ASSUME NEW j \in 1..(Len(e) - 1)
      PROVE  r[j] = IF j < i THEN e[j] ELSE e[j + 1]
  <2>1. j \in 1..((i - 1) + (n - i))
    BY <1>1a, <1>1
  <2>2. r[j] = IF j <= i - 1 THEN before[j] ELSE behind[j - (i - 1)]
    <3>1. j \in 1..(Len(before) + Len(behind))
      BY <1>2, <1>3, <2>1
    <3>2. r[j] = IF j <= Len(before) THEN before[j] ELSE behind[j - Len(before)]
      BY <1>2, <1>3, <3>1, ConcatProperties
    <3>3. QED
      BY <1>2, <3>2
  <2>3. CASE j < i
    BY <1>1, <1>2, <2>2, <2>3
  <2>4. CASE ~(j < i)
    <3>1. j - (i - 1) \in 1..(n - i) /\ (j - (i - 1)) + i = j + 1 /\ ~(j <= i - 1)
      BY <1>1a, <1>1, <2>4
    <3>2. QED
      BY <1>3, <2>2, <2>4, <3>1
  <2>5. QED
    BY <2>3, <2>4
<1>6. RemoveAt(e, i) = r
  BY DEF RemoveAt, before, behind
<1> HIDE DEF r
<1>7. DOMAIN r = 1..(Len(e) - 1)
  BY <1>4
<1>8. QED
  BY <1>1, <1>4, <1>5, <1>6, <1>7

\* Unmarking a folder takes out its marker and no other one.
LEMMA UnmarkedDistinct ==
  ASSUME NEW f, SessionsOK, Distinct(exited)
  PROVE  /\ Unmarked(f) \in Seq(TemporaryFolders) /\ Distinct(Unmarked(f))
         /\ ToSet(Unmarked(f)) = ToSet(exited) \ {f}
<1>1. exited \in Seq(TemporaryFolders) /\ Len(exited) \in Nat /\ DOMAIN exited = 1..Len(exited)
  BY DEF SessionsOK
<1>2. CASE f \notin ToSet(exited)
  BY <1>1, <1>2 DEF Unmarked
<1>3. CASE f \in ToSet(exited)
  <2>1. \E i \in DOMAIN exited : exited[i] = f
    BY <1>3 DEF ToSet
  <2>2. PICK i \in 1..Len(exited) : i = (CHOOSE k \in DOMAIN exited : exited[k] = f) /\ exited[i] = f
    BY <1>1, <2>1
  <2>3. Unmarked(f) = RemoveAt(exited, i)
    BY <1>3, <2>2 DEF Unmarked
  <2> DEFINE r == RemoveAt(exited, i)
  <2>4. /\ r \in Seq(TemporaryFolders) /\ DOMAIN r = 1..(Len(exited) - 1)
        /\ \A j \in 1..(Len(exited) - 1) : r[j] = IF j < i THEN exited[j] ELSE exited[j + 1]
    BY <1>1, RemoveAtFacts
  <2> HIDE DEF r
  <2>5. \A j \in DOMAIN r : \E k \in DOMAIN exited : k # i /\ r[j] = exited[k] /\ k = IF j < i THEN j ELSE j + 1
    BY <1>1, <2>4
  <2>6. Distinct(r)
    <3> SUFFICES ASSUME NEW j \in DOMAIN r, NEW k \in DOMAIN r, r[j] = r[k] PROVE j = k
      BY DEF Distinct
    <3>1. PICK m \in DOMAIN exited : r[j] = exited[m] /\ m = IF j < i THEN j ELSE j + 1
      BY <2>5
    <3>2. PICK n \in DOMAIN exited : r[k] = exited[n] /\ n = IF k < i THEN k ELSE k + 1
      BY <2>5
    <3>3. m = n
      BY <3>1, <3>2 DEF Distinct
    <3>4. QED
      BY <1>1, <2>4, <3>1, <3>2, <3>3
  <2>7. ToSet(r) \subseteq ToSet(exited) \ {f}
    BY <2>2, <2>5 DEF ToSet, Distinct
  <2>8. ASSUME NEW g \in ToSet(exited) \ {f} PROVE g \in ToSet(r)
    <3>1. PICK k \in DOMAIN exited : exited[k] = g
      BY DEF ToSet
    <3>2. k # i
      BY <2>2, <3>1
    <3>3. \E j \in DOMAIN r : r[j] = exited[k]
      <4>1. CASE k < i
        BY <1>1, <2>4, <4>1
      <4>2. CASE k > i
        <5>1. k - 1 \in DOMAIN r /\ (k - 1) + 1 = k /\ ~(k - 1 < i)
          BY <1>1, <2>4, <4>2
        <5>2. QED
          BY <2>4, <5>1
      <4>3. QED
        BY <1>1, <3>2, <4>1, <4>2
    <3>4. QED
      BY <3>1, <3>3 DEF ToSet
  <2>9. QED
    BY <2>3, <2>4, <2>6, <2>7, <2>8 DEF r
<1>4. QED
  BY <1>2, <1>3

\* Marking a folder anew.
LEMMA AppendDistinct ==
  ASSUME NEW e \in Seq(TemporaryFolders), NEW f \in TemporaryFolders, Distinct(e), f \notin ToSet(e)
  PROVE  /\ Append(e, f) \in Seq(TemporaryFolders) /\ Distinct(Append(e, f))
         /\ ToSet(Append(e, f)) = ToSet(e) \union {f}
<1>1. /\ Len(e) \in Nat /\ DOMAIN e = 1..Len(e) /\ DOMAIN Append(e, f) = 1..(Len(e) + 1)
      /\ Append(e, f)[Len(e) + 1] = f
      /\ \A i \in 1..Len(e) : Append(e, f)[i] = e[i]
  OBVIOUS
<1>2. \A i \in 1..(Len(e) + 1) : i = Len(e) + 1 \/ i \in 1..Len(e)
  OBVIOUS
<1>3. \A i \in 1..Len(e) : e[i] # f
  BY <1>1 DEF ToSet
<1>4. Distinct(Append(e, f))
  BY <1>1, <1>2, <1>3 DEF Distinct
<1>5. Len(e) + 1 \in 1..(Len(e) + 1) /\ 1..Len(e) \subseteq 1..(Len(e) + 1)
  BY <1>1
<1>6. ToSet(Append(e, f)) = ToSet(e) \union {f}
  BY <1>1, <1>2, <1>5 DEF ToSet
<1>7. QED
  BY <1>4, <1>6

\* The elements of a sequence are finitely many, those behind a position at most
\* as many as there are positions.
LEMMA ElementsBehind ==
  ASSUME NEW S, NEW e \in Seq(S), NEW k \in Nat, NEW n \in Nat, Len(e) <= k + n
  PROVE  LET B == {e[j] : j \in (k + 1)..Len(e)}
         IN  IsFiniteSet(B) /\ Cardinality(B) \in Nat /\ Cardinality(B) <= n
<1> DEFINE I == (k + 1)..Len(e)
           B == {e[j] : j \in I}
           g == [j \in I |-> e[j]]
<1>1. PICK m \in Nat : m = Len(e)
  OBVIOUS
<1>2. IsFiniteSet((k + 1)..m) /\ Cardinality((k + 1)..m) <= n
  <2>1. k + 1 \in Int /\ m \in Int
    OBVIOUS
  <2>2. IsFiniteSet((k + 1)..m)
        /\ Cardinality((k + 1)..m) = IF k + 1 > m THEN 0 ELSE m - (k + 1) + 1
    BY <2>1, FS_Interval
  <2>3. QED
    BY <1>1, <2>2
<1>3. IsFiniteSet(I) /\ Cardinality(I) <= n /\ Cardinality(I) \in Nat
  BY <1>1, <1>2, FS_CardinalityType
<1>4. g \in Surjection(I, B)
  BY DEF Surjection
<1>5. IsFiniteSet(B) /\ Cardinality(B) <= Cardinality(I)
  BY <1>3, <1>4, FS_Surjection
<1>6. Cardinality(B) \in Nat
  BY <1>5, FS_CardinalityType
<1> HIDE DEF I, B
<1>7. Cardinality(B) <= n
  BY <1>3, <1>5, <1>6
<1>8. QED
  BY <1>5, <1>6, <1>7 DEF B, I

\* What is not obsolete is no more than the configuration keeps.
LEMMA NotObsolete ==
  ASSUME NEW e \in Seq(TemporaryFolders)
  PROVE  /\ IsFiniteSet(ToSet(e) \ ToSet(Obsolete(e)))
         /\ Cardinality(ToSet(e) \ ToSet(Obsolete(e))) <= MaximumExited
<1>1. MaximumExited \in Nat /\ Len(e) \in Nat /\ DOMAIN e = 1..Len(e)
  BY HostAssumption
<1>2. PICK k \in Nat : /\ Len(e) <= k + MaximumExited /\ k <= Len(e)
                       /\ ToSet(Obsolete(e)) = {e[j] : j \in 1..k}
  <2>1. CASE Len(e) <= MaximumExited
    <3>1. ToSet(Obsolete(e)) = {} /\ {e[j] : j \in 1..0} = {}
      BY <2>1 DEF Obsolete, Oldest, ToSet
    <3>2. Len(e) <= 0 + MaximumExited /\ 0 <= Len(e)
      BY <1>1, <2>1
    <3>3. QED
      BY <3>1, <3>2
  <2>2. CASE ~(Len(e) <= MaximumExited)
    <3>1. PICK k \in Nat : k = Len(e) - MaximumExited
      <4>1. Len(e) - MaximumExited \in Nat
        BY <1>1, <2>2
      <4>2. QED
        BY <4>1
    <3>2. k \in 1..Len(e) /\ Len(e) <= k + MaximumExited
      BY <1>1, <2>2, <3>1
    <3>3. Obsolete(e) = SubSeq(e, 1, k)
      BY <2>2, <3>1 DEF Obsolete, Oldest
    <3>4. DOMAIN SubSeq(e, 1, k) = 1..k /\ \A j \in 1..k : SubSeq(e, 1, k)[j] = e[j]
      BY <1>1, <3>2
    <3>5. ToSet(Obsolete(e)) = {e[j] : j \in 1..k}
      BY <3>3, <3>4 DEF ToSet
    <3>6. QED
      BY <1>1, <3>2, <3>5
  <2>3. QED
    BY <2>1, <2>2
<1> DEFINE B == {e[j] : j \in (k + 1)..Len(e)}
<1>3. IsFiniteSet(B) /\ Cardinality(B) \in Nat /\ Cardinality(B) <= MaximumExited
  BY <1>1, <1>2, ElementsBehind
<1>4. ToSet(e) \ ToSet(Obsolete(e)) \in SUBSET B
  <2>1. ASSUME NEW x \in ToSet(e), x \notin ToSet(Obsolete(e)) PROVE x \in B
    <3>1. PICK j \in 1..Len(e) : x = e[j]
      BY <1>1 DEF ToSet
    <3>2. j \notin 1..k
      BY <1>2, <2>1, <3>1
    <3>3. j \in (k + 1)..Len(e)
      BY <1>1, <3>2
    <3>4. QED
      BY <3>1, <3>3
  <2>2. QED
    BY <2>1
<1> HIDE DEF B
<1> DEFINE D == ToSet(e) \ ToSet(Obsolete(e))
<1>5. IsFiniteSet(D) /\ Cardinality(D) <= Cardinality(B)
  <2> HIDE DEF D
  <2>1. D \in SUBSET B
    BY <1>4 DEF D
  <2>2. QED
    BY <1>3, <2>1, FS_Subset
<1>6. Cardinality(D) \in Nat
  BY <1>5, FS_CardinalityType
<1> HIDE DEF D
<1>7. Cardinality(D) <= MaximumExited
  BY <1>1, <1>3, <1>5, <1>6
<1>8. QED
  BY <1>5, <1>7 DEF D

LEMMA InitLeftInv == Init => LeftInv
<1> SUFFICES ASSUME Init PROVE LeftInv
  OBVIOUS
<1>1. \A s \in Sessions : ~sessions[s].owned /\ sessions[s].todo = <<>>
  BY DEF Init, Unborn
<1>2. exited = Exited0 /\ Distinct(exited)
  BY HostAssumption DEF Init, Distinct
<1>3. DOMAIN folders \cap TemporaryFolders \subseteq ToSet(exited)
  BY HostAssumption, <1>2 DEF Init
<1>4. QED
  BY <1>1, <1>2, <1>3 DEF LeftInv

\* If earlier sessions have cleaned up, there is nothing more to keep at first.
LEMMA InitKeptInv ==
  ASSUME Len(Exited0) <= MaximumExited
  PROVE  Init => KeptInv
<1> SUFFICES ASSUME Init PROVE KeptInv
  OBVIOUS
<1>1. exited = Exited0 /\ exited \in Seq(TemporaryFolders)
  BY HostAssumption DEF Init
<1>2. ToSet(Obsolete(exited)) = {}
  BY <1>1 DEF Obsolete, Oldest, ToSet
<1>3. IsFiniteSet(ToSet(exited)) /\ Cardinality(ToSet(exited)) <= MaximumExited
  <2>1. ToSet(exited) \ ToSet(Obsolete(exited)) = ToSet(exited)
    BY <1>2
  <2>2. QED
    BY <1>1, <2>1, NotObsolete
<1>4. Kept \in SUBSET ToSet(exited)
  BY DEF Kept
<1>5. Cardinality(Kept) <= Cardinality(ToSet(exited)) /\ IsFiniteSet(Kept)
  BY <1>3, <1>4, FS_Subset
<1>6. Cardinality(Kept) \in Nat /\ Cardinality(ToSet(exited)) \in Nat /\ MaximumExited \in Nat
  BY <1>3, <1>5, HostAssumption, FS_CardinalityType
<1>7. QED
  BY <1>3, <1>5, <1>6 DEF KeptInv

\* A smaller set of markers to keep.
LEMMA FewerKept ==
  ASSUME HostInv, KeptInv, Kept' \subseteq Kept
  PROVE  KeptInv'
<1>1. IsFiniteSet(Kept) /\ Cardinality(Kept) \in Nat
  <2>1. exited \in Seq(TemporaryFolders) /\ Len(exited) \in Nat
    BY DEF HostInv, SessionsOK
  <2>2. Len(exited) <= 0 + Len(exited)
    BY <2>1
  <2>3. IsFiniteSet({exited[j] : j \in (0 + 1)..Len(exited)})
    BY <2>1, <2>2, ElementsBehind
  <2>4. Kept \in SUBSET {exited[j] : j \in (0 + 1)..Len(exited)}
    BY <2>1 DEF Kept, ToSet
  <2>5. QED
    BY <2>3, <2>4, FS_Subset, FS_CardinalityType
<1>2. PICK K : K = Kept'
  OBVIOUS
<1>3. K \in SUBSET Kept /\ IsFiniteSet(K) /\ Cardinality(K) <= Cardinality(Kept)
  BY <1>1, <1>2, FS_Subset
<1>4. Cardinality(K) \in Nat /\ MaximumExited \in Nat
  BY <1>3, HostAssumption, FS_CardinalityType
<1>5. QED
  BY <1>1, <1>2, <1>3, <1>4 DEF KeptInv

\* A step of a session that has begun, which removes no marker and no folder and
\* goes on using its folder.
LEMMA LeftKept ==
  ASSUME NEW s \in Sessions, HostInv, LeftInv, Continues(s),
         exited' = exited, DOMAIN folders' = DOMAIN folders,
         sessions'[s].todo = sessions[s].todo,
         sessions[s].pc \in {"sweeping", "disturbed", "crashed"}
           => sessions'[s].pc \in {"sweeping", "disturbed", "crashed"} \/ sessions[s].todo = <<>>,
         sessions[s].pc \notin {"sweeping", "closed"} => sessions'[s].pc \notin {"sweeping", "closed"}
  PROVE  LeftInv' /\ (KeptInv => KeptInv')
<1>1. \A t \in Sessions : /\ Folder(t)' = Folder(t) /\ sessions'[t].todo = sessions[t].todo
                          /\ sessions'[t].owned = sessions[t].owned
  BY DEF Continues, Folder
<1>2. \A t \in Sessions : \A f : UsedBy(t, f) => UsedBy(t, f)'
  BY <1>1 DEF UsedBy, Continues
<1>3. \A t \in Sessions : sessions'[t].pc \notin {"sweeping", "disturbed", "crashed"} => sessions'[t].todo = <<>>
  BY <1>1 DEF LeftInv, Continues
<1>4. LeftInv'
  <2>1. Distinct(exited)'
    BY DEF LeftInv, Distinct
  <2>2. \A f \in DOMAIN folders' \cap TemporaryFolders :
          f \in ToSet(exited') \/ \E t \in Sessions : UsedBy(t, f)'
    BY <1>2 DEF LeftInv
  <2>3. \A t \in Sessions : sessions'[t].owned => Folder(t)' \in GivenFolders
    BY <1>1 DEF LeftInv
  <2>4. QED
    BY <1>3, <2>1, <2>2, <2>3 DEF LeftInv
<1>5. Kept' = Kept
  BY <1>1 DEF Kept
<1>6. QED
  BY <1>4, <1>5, FewerKept

\* The steps that only move a session on.
LEMMA GotoLeft ==
  ASSUME NEW s \in Sessions, NEW pc \in Pcs, HostInv, LeftInv, Goto(s, pc),
         sessions[s].pc # "new", pc # "new", exited' = exited, DOMAIN folders' = DOMAIN folders,
         \/ sessions[s].pc \in {"made", "unlinked", "linked", "open"} /\ pc \notin {"sweeping", "closed"}
         \/ sessions[s].pc = "sweeping" /\ (pc = "crashed" \/ sessions[s].todo = <<>>)
  PROVE  LeftInv' /\ (KeptInv => KeptInv')
<1>1. Continues(s) /\ sessions'[s].pc = pc
  BY GotoContinues DEF HostInv
<1>2. sessions'[s].todo = sessions[s].todo
  BY DEF Goto, HostInv, SessionsOK
<1>3. QED
  BY <1>1, <1>2, LeftKept

LEMMA CreateLeft ==
  ASSUME NEW s \in Sessions, HostInv, LeftInv, Create(s)
  PROVE  LeftInv' /\ (KeptInv => KeptInv')
<1>1. PICK f \in Folders, debug \in DebugModes :
        /\ folders' = With(f)
        /\ sessions' = [sessions EXCEPT ![s] =
             [Unborn EXCEPT !.pc = "made", !.folder = f, !.debug = debug, !.owned = OwnedByCaller(f),
                            !.made = f \notin DOMAIN folders]]
  BY DEF Create
<1> DEFINE new == [Unborn EXCEPT !.pc = "made", !.folder = f, !.debug = debug, !.owned = OwnedByCaller(f),
                                 !.made = f \notin DOMAIN folders]
<1>2. /\ sessions'[s].pc = "made" /\ sessions'[s].folder = f /\ sessions'[s].todo = <<>>
      /\ sessions'[s].owned = OwnedByCaller(f)
      /\ \A t \in Sessions \ {s} : sessions'[t] = sessions[t]
  <2>1. new.pc = "made" /\ new.folder = f /\ new.todo = <<>> /\ new.owned = OwnedByCaller(f)
    BY DEF Unborn
  <2>2. sessions' = [sessions EXCEPT ![s] = new]
    BY <1>1
  <2> HIDE DEF new
  <2>3. QED
    BY <2>1, <2>2 DEF HostInv, SessionsOK
<1> HIDE DEF new
<1>3. exited' = exited /\ sessions[s].pc = "new"
  BY DEF Create
<1>4. DOMAIN folders' = DOMAIN folders \union {f}
  BY <1>1 DEF With
<1>5. \A t \in Sessions : \A g : UsedBy(t, g) => UsedBy(t, g)'
  BY <1>2, <1>3 DEF UsedBy, Folder
<1>6. UsedBy(s, f)'
  BY <1>2 DEF UsedBy, Folder
<1>7. \A t \in Sessions : sessions'[t].owned => Folder(t)' \in GivenFolders
  BY <1>2 DEF LeftInv, Folder, OwnedByCaller
<1>8. \A t \in Sessions : sessions'[t].pc \notin {"sweeping", "disturbed", "crashed"} => sessions'[t].todo = <<>>
  BY <1>2 DEF LeftInv
<1>9. \A g \in DOMAIN folders' \cap TemporaryFolders :
        g \in ToSet(exited') \/ \E t \in Sessions : UsedBy(t, g)'
  BY <1>3, <1>4, <1>5, <1>6 DEF LeftInv
<1>10. LeftInv'
  BY <1>3, <1>7, <1>8, <1>9 DEF LeftInv, Distinct
<1>11. Kept' \subseteq Kept
  <2>1. sessions[s].todo = <<>>
    BY <1>3 DEF LeftInv
  <2>2. QED
    BY <1>2, <1>3, <2>1 DEF Kept
<1>12. QED
  BY <1>10, <1>11, FewerKept

LEMMA LinkLeft ==
  ASSUME NEW s \in Sessions, HostInv, LeftInv, Unlink(s) \/ Link(s) \/ Start(s)
  PROVE  LeftInv' /\ (KeptInv => KeptInv')
<1>1. sessions[s].pc \in {"made", "unlinked", "linked"} /\ UNCHANGED <<folders, exited>>
  BY DEF Unlink, Link, Start
<1>2. PICK pc \in {"unlinked", "linked", "beaten", "open", "failed"} : Goto(s, pc)
  BY DEF Unlink, Link, Start
<1>3. QED
  BY <1>1, <1>2, GotoLeft DEF Pcs

LEMMA StatementLeft ==
  ASSUME NEW s \in Sessions, HostInv, LeftInv, NotEntered(s) \/ Get(s) \/ Apply(s)
  PROVE  LeftInv' /\ (KeptInv => KeptInv')
BY StatementFacts, LeftKept

LEMMA EndLeft ==
  ASSUME NEW s \in Sessions, HostInv, LeftInv, Swept(s) \/ Crash(s)
  PROVE  LeftInv' /\ (KeptInv => KeptInv')
<1>1. UNCHANGED <<folders, exited>>
  BY DEF Swept, Crash
<1>2. CASE Swept(s)
  BY <1>1, <1>2, GotoLeft DEF Swept, Pcs
<1>3. CASE Crash(s)
  BY <1>1, <1>3, GotoLeft DEF Crash, Live, Pcs
<1>4. QED
  BY <1>2, <1>3

\* close() leaves the folder alone, removes it with its marker, or marks it and
\* lists what is obsolete then.
LEMMA CloseCases ==
  ASSUME NEW s \in Sessions, HostInv, LeftInv, Close(s)
  PROVE  /\ Continues(s) /\ sessions[s].todo = <<>>
         /\ \/ /\ ~(Present(s) /\ ~sessions[s].owned)
               /\ sessions'[s].pc = "closed" /\ sessions'[s].todo = <<>>
               /\ UNCHANGED <<folders, exited>>
            \/ /\ sessions'[s].pc = "closed" /\ sessions'[s].todo = <<>>
               /\ folders' = Without(Folder(s)) /\ exited' = Unmarked(Folder(s))
            \/ /\ sessions'[s].pc = "sweeping" /\ sessions'[s].todo = Obsolete(exited')
               /\ exited' = (IF Folder(s) \in TemporaryFolders
                             THEN Append(Unmarked(Folder(s)), Folder(s)) ELSE exited)
               /\ folders' = folders
<1> DEFINE closed == [sessions[s] EXCEPT !.pc = "closed", !.closes = @ + 1]
           marked == IF Folder(s) \in TemporaryFolders
                     THEN Append(Unmarked(Folder(s)), Folder(s)) ELSE exited
           sweeping == [closed EXCEPT !.pc = "sweeping", !.todo = Obsolete(marked)]
<1>1. sessions[s] \in SessionRecord /\ sessions[s].pc \in {"open", "closed"}
  BY DEF HostInv, SessionsOK, Close
<1>2. sessions[s].todo = <<>>
  BY <1>1 DEF LeftInv
<1>3. closed.pc = "closed" /\ closed.todo = <<>> /\ sweeping.pc = "sweeping" /\ sweeping.todo = Obsolete(marked)
  <2>1. closed.pc = "closed" /\ closed.todo = sessions[s].todo
    BY <1>1 DEF SessionRecord
  <2>2. DOMAIN closed = DOMAIN sessions[s] /\ "pc" \in DOMAIN sessions[s] /\ "todo" \in DOMAIN sessions[s]
    BY <1>1 DEF SessionRecord
  <2> HIDE DEF closed, marked
  <2>3. sweeping.pc = "sweeping" /\ sweeping.todo = Obsolete(marked)
    BY <2>2
  <2>4. QED
    BY <1>2, <2>1, <2>3
<1>4. sessions \in [Sessions -> SessionRecord] /\ Continues(s)
  BY CloseFacts DEF HostInv, SessionsOK
<1>5. \A r : sessions' = [sessions EXCEPT ![s] = r] => sessions'[s] = r
  BY <1>4
<1>6. \/ /\ ~(Present(s) /\ ~sessions[s].owned)
         /\ sessions' = [sessions EXCEPT ![s] = closed] /\ UNCHANGED <<folders, exited>>
      \/ /\ sessions' = [sessions EXCEPT ![s] = closed]
         /\ folders' = Without(Folder(s)) /\ exited' = Unmarked(Folder(s))
      \/ /\ sessions' = [sessions EXCEPT ![s] = sweeping] /\ exited' = marked /\ folders' = folders
  BY DEF Close
<1> HIDE DEF closed, marked, sweeping
<1>7. CASE sessions' = [sessions EXCEPT ![s] = closed]
  <2>1. sessions'[s].pc = "closed" /\ sessions'[s].todo = <<>>
    BY <1>3, <1>5, <1>7
  <2>2. sessions'[s] # sweeping
    BY <1>3, <2>1
  <2>3. QED
    BY <1>2, <1>4, <1>5, <1>6, <2>1, <2>2
<1>8. CASE sessions' = [sessions EXCEPT ![s] = sweeping] /\ exited' = marked /\ folders' = folders
  <2>1. sessions'[s].pc = "sweeping" /\ sessions'[s].todo = Obsolete(exited')
    BY <1>3, <1>5, <1>8
  <2>2. QED
    BY <1>2, <1>4, <1>8, <2>1 DEF marked
<1>9. QED
  BY <1>6, <1>7, <1>8

LEMMA CloseLeft ==
  ASSUME NEW s \in Sessions, HostInv, LeftInv, Close(s)
  PROVE  LeftInv' /\ (KeptInv => KeptInv')
<1>1. /\ Continues(s) /\ sessions[s].todo = <<>> /\ ToSet(<<>>) = {} /\ sessions[s].pc \in {"open", "closed"}
      /\ SessionsOK /\ Distinct(exited) /\ exited \in Seq(TemporaryFolders)
  <2>1. Continues(s) /\ sessions[s].todo = <<>>
    BY CloseCases
  <2>2. sessions[s].pc \in {"open", "closed"}
    BY DEF Close
  <2>3. QED
    BY <2>1, <2>2 DEF ToSet, HostInv, SessionsOK, LeftInv
<1>2. \A t \in Sessions : /\ Folder(t)' = Folder(t)
                          /\ t # s => sessions'[t] = sessions[t]
                          /\ sessions'[t].owned => Folder(t)' \in GivenFolders
  BY <1>1 DEF Continues, Folder, LeftInv
<1>3. \A t \in Sessions \ {s} : \A f : UsedBy(t, f) => UsedBy(t, f)'
  BY <1>2 DEF UsedBy
<1>4. \A f \in DOMAIN folders \cap TemporaryFolders :
        f = Folder(s) \/ f \in ToSet(exited) \/ \E t \in Sessions : UsedBy(t, f)'
  BY <1>3 DEF LeftInv, UsedBy
<1>5. CASE /\ ~(Present(s) /\ ~sessions[s].owned)
           /\ sessions'[s].pc = "closed" /\ sessions'[s].todo = <<>>
           /\ UNCHANGED <<folders, exited>>
  <2>1. Folder(s) \notin DOMAIN folders \cap TemporaryFolders
    BY <1>5, HostAssumption DEF LeftInv, Present
  <2>2. \A f \in DOMAIN folders' \cap TemporaryFolders :
          f \in ToSet(exited') \/ \E t \in Sessions : UsedBy(t, f)'
    BY <1>4, <1>5, <2>1
  <2>3. \A t \in Sessions : sessions'[t].pc \notin {"sweeping", "disturbed", "crashed"} => sessions'[t].todo = <<>>
    BY <1>2, <1>5 DEF LeftInv
  <2>4. LeftInv'
    BY <1>1, <1>2, <1>5, <2>2, <2>3 DEF LeftInv, Distinct
  <2>5. Kept' \subseteq Kept
    BY <1>1, <1>2, <1>5 DEF Kept
  <2>6. QED
    BY <2>4, <2>5, FewerKept
<1>6. CASE /\ sessions'[s].pc = "closed" /\ sessions'[s].todo = <<>>
           /\ folders' = Without(Folder(s)) /\ exited' = Unmarked(Folder(s))
  <2>1. Distinct(exited') /\ ToSet(exited') = ToSet(exited) \ {Folder(s)}
    BY <1>1, <1>6, UnmarkedDistinct
  <2>2. DOMAIN folders' = DOMAIN folders \ {Folder(s)}
    BY <1>6, WithoutFacts
  <2>3. \A f \in DOMAIN folders' \cap TemporaryFolders :
          f \in ToSet(exited') \/ \E t \in Sessions : UsedBy(t, f)'
    BY <1>4, <2>1, <2>2
  <2>4. \A t \in Sessions : sessions'[t].pc \notin {"sweeping", "disturbed", "crashed"} => sessions'[t].todo = <<>>
    BY <1>2, <1>6 DEF LeftInv
  <2>5. LeftInv'
    BY <1>2, <2>1, <2>3, <2>4 DEF LeftInv, Distinct
  <2>6. Kept' \subseteq Kept
    BY <1>1, <1>2, <2>1 DEF Kept
  <2>7. QED
    BY <2>5, <2>6, FewerKept
<1>7. CASE /\ sessions'[s].pc = "sweeping" /\ sessions'[s].todo = Obsolete(exited')
           /\ exited' = (IF Folder(s) \in TemporaryFolders
                         THEN Append(Unmarked(Folder(s)), Folder(s)) ELSE exited)
           /\ folders' = folders
  <2>1. /\ exited' \in Seq(TemporaryFolders) /\ Distinct(exited')
        /\ ToSet(exited) \subseteq ToSet(exited')
        /\ Folder(s) \in TemporaryFolders => Folder(s) \in ToSet(exited')
    <3>1. CASE Folder(s) \in TemporaryFolders
      <4>1. /\ Unmarked(Folder(s)) \in Seq(TemporaryFolders) /\ Distinct(Unmarked(Folder(s)))
            /\ ToSet(Unmarked(Folder(s))) = ToSet(exited) \ {Folder(s)}
        BY <1>1, UnmarkedDistinct
      <4>2. exited' = Append(Unmarked(Folder(s)), Folder(s))
        BY <1>7, <3>1
      <4>3. PICK e \in Seq(TemporaryFolders) : e = Unmarked(Folder(s))
        BY <4>1
      <4>4. PICK f \in TemporaryFolders : f = Folder(s)
        BY <3>1
      <4>5. /\ Append(e, f) \in Seq(TemporaryFolders) /\ Distinct(Append(e, f))
            /\ ToSet(Append(e, f)) = ToSet(e) \union {f}
        BY <4>1, <4>3, <4>4, AppendDistinct
      <4>6. QED
        BY <4>1, <4>2, <4>3, <4>4, <4>5
    <3>2. CASE Folder(s) \notin TemporaryFolders
      BY <1>1, <1>7, <3>2
    <3>3. QED
      BY <3>1, <3>2
  <2>2. \A f \in DOMAIN folders' \cap TemporaryFolders :
          f \in ToSet(exited') \/ \E t \in Sessions : UsedBy(t, f)'
    BY <1>4, <1>7, <2>1
  <2>3. \A t \in Sessions : sessions'[t].pc \notin {"sweeping", "disturbed", "crashed"} => sessions'[t].todo = <<>>
    BY <1>2, <1>7 DEF LeftInv
  <2>4. LeftInv'
    BY <1>2, <2>1, <2>2, <2>3 DEF LeftInv, Distinct
  <2>5. PICK e \in Seq(TemporaryFolders) : e = exited'
    BY <2>1
  <2> DEFINE D == ToSet(e) \ ToSet(Obsolete(e))
  <2>6. IsFiniteSet(D) /\ Cardinality(D) <= MaximumExited
    BY NotObsolete
  <2>7. Kept' \subseteq D
    BY <1>7, <2>5 DEF Kept
  <2> HIDE DEF D
  <2>8. PICK K : K = Kept'
    OBVIOUS
  <2>9. K \in SUBSET D
    BY <2>7, <2>8
  <2>10. Cardinality(K) <= Cardinality(D) /\ IsFiniteSet(K)
    BY <2>6, <2>9, FS_Subset
  <2>11. Cardinality(K) \in Nat /\ Cardinality(D) \in Nat /\ MaximumExited \in Nat
    BY <2>6, <2>10, HostAssumption, FS_CardinalityType
  <2>12. Cardinality(K) <= MaximumExited
    BY <2>6, <2>10, <2>11
  <2>13. KeptInv'
    BY <2>8, <2>12 DEF KeptInv
  <2>14. QED
    BY <2>4, <2>13
<1>8. QED
  BY <1>5, <1>6, <1>7, CloseCases

\* One folder is taken off the list and removed with its marker, or the session
\* is disturbed and its list stays what it was.
LEMMA SweepLeft ==
  ASSUME NEW s \in Sessions, HostInv, LeftInv, Sweep(s)
  PROVE  LeftInv' /\ (KeptInv => KeptInv')
<1> DEFINE f == Head(sessions[s].todo)
           swept == [sessions[s] EXCEPT !.todo = Tail(sessions[s].todo)]
           disturbed == [sessions[s] EXCEPT !.pc = "disturbed"]
<1>1. /\ sessions[s] \in SessionRecord /\ sessions[s].pc = "sweeping" /\ sessions[s].todo # <<>>
      /\ sessions \in [Sessions -> SessionRecord]
      /\ SessionsOK /\ Distinct(exited) /\ Continues(s)
  BY SweepFacts DEF HostInv, SessionsOK, Sweep, LeftInv
<1>2. sessions[s].todo \in Seq(TemporaryFolders)
  BY <1>1 DEF SessionRecord
<1>3. ToSet(sessions[s].todo) \subseteq ToSet(Tail(sessions[s].todo)) \union {f}
  <2>1. PICK todo \in Seq(TemporaryFolders) : todo = sessions[s].todo /\ todo # <<>>
    BY <1>1, <1>2
  <2>2. /\ Len(todo) \in Nat /\ DOMAIN todo = 1..Len(todo) /\ DOMAIN Tail(todo) = 1..(Len(todo) - 1)
        /\ Head(todo) = todo[1] /\ \A i \in 1..(Len(todo) - 1) : Tail(todo)[i] = todo[i + 1]
    BY <2>1, HeadTailProperties
  <2>3. ASSUME NEW i \in 1..Len(todo), i # 1 PROVE todo[i] \in ToSet(Tail(todo))
    <3>1. i - 1 \in 1..(Len(todo) - 1) /\ (i - 1) + 1 = i
      BY <2>2, <2>3
    <3>2. QED
      BY <2>2, <3>1 DEF ToSet
  <2>4. ToSet(todo) \subseteq ToSet(Tail(todo)) \union {Head(todo)}
    BY <2>2, <2>3 DEF ToSet
  <2>5. QED
    BY <2>1, <2>4
<1>4. swept.pc = "sweeping" /\ swept.todo = Tail(sessions[s].todo)
      /\ disturbed.pc = "disturbed" /\ disturbed.todo = sessions[s].todo
  BY <1>1 DEF SessionRecord
<1>5. \/ /\ sessions' = [sessions EXCEPT ![s] = swept]
         /\ folders' = Without(f) /\ exited' = Unmarked(f)
      \/ sessions' = [sessions EXCEPT ![s] = disturbed] /\ UNCHANGED <<folders, exited>>
  BY DEF Sweep
<1> HIDE DEF f, swept, disturbed
<1>6. CASE sessions' = [sessions EXCEPT ![s] = disturbed] /\ UNCHANGED <<folders, exited>>
  <2>1. sessions'[s].pc = "disturbed" /\ sessions'[s].todo = sessions[s].todo
    BY <1>1, <1>4, <1>6
  <2>2. QED
    BY <1>1, <1>6, <2>1, LeftKept
<1>7. CASE sessions' = [sessions EXCEPT ![s] = swept] /\ folders' = Without(f) /\ exited' = Unmarked(f)
  <2>1. sessions'[s].pc = "sweeping" /\ sessions'[s].todo = Tail(sessions[s].todo)
    BY <1>1, <1>4, <1>7
  <2>2. Distinct(exited') /\ ToSet(exited') = ToSet(exited) \ {f}
    BY <1>1, <1>7, UnmarkedDistinct
  <2>3. DOMAIN folders' = DOMAIN folders \ {f}
    BY <1>7, WithoutFacts
  <2>4. \A t \in Sessions : /\ Folder(t)' = Folder(t)
                            /\ t # s => sessions'[t] = sessions[t]
                            /\ sessions'[t].owned => Folder(t)' \in GivenFolders
    BY <1>1 DEF Continues, Folder, LeftInv
  <2>5. \A t \in Sessions : \A g : UsedBy(t, g) => UsedBy(t, g)'
    BY <1>1, <2>4 DEF UsedBy
  <2>6. \A g \in DOMAIN folders' \cap TemporaryFolders :
          g \in ToSet(exited') \/ \E t \in Sessions : UsedBy(t, g)'
    BY <2>2, <2>3, <2>5 DEF LeftInv
  <2>7. \A t \in Sessions : sessions'[t].pc \notin {"sweeping", "disturbed", "crashed"} => sessions'[t].todo = <<>>
    BY <2>1, <2>4 DEF LeftInv
  <2>8. LeftInv'
    BY <2>2, <2>4, <2>6, <2>7 DEF LeftInv, Distinct
  <2>9. Kept' \subseteq Kept
    BY <1>3, <2>1, <2>2, <2>4 DEF Kept
  <2>10. QED
    BY <2>8, <2>9, FewerKept
<1>8. QED
  BY <1>5, <1>6, <1>7

LEMMA NextLeft == HostInv /\ LeftInv /\ [Next]_vars => LeftInv' /\ (KeptInv => KeptInv')
<1> SUFFICES ASSUME HostInv, LeftInv, [Next]_vars PROVE LeftInv' /\ (KeptInv => KeptInv')
  OBVIOUS
<1>1. CASE UNCHANGED <<sessions, exited>> /\ DOMAIN folders' = DOMAIN folders
  BY <1>1 DEF LeftInv, KeptInv, Kept, Distinct, UsedBy, Folder
<1>2. ASSUME NEW s \in Sessions, Create(s) PROVE LeftInv' /\ (KeptInv => KeptInv')
  BY <1>2, CreateLeft
<1>3. ASSUME NEW s \in Sessions, Unlink(s) \/ Link(s) \/ Start(s) PROVE LeftInv' /\ (KeptInv => KeptInv')
  BY <1>3, LinkLeft
<1>4. ASSUME NEW s \in Sessions, NotEntered(s) \/ Get(s) \/ Apply(s) PROVE LeftInv' /\ (KeptInv => KeptInv')
  BY <1>4, StatementLeft
<1>5. ASSUME NEW s \in Sessions, Close(s) PROVE LeftInv' /\ (KeptInv => KeptInv')
  BY <1>5, CloseLeft
<1>6. ASSUME NEW s \in Sessions, Sweep(s) PROVE LeftInv' /\ (KeptInv => KeptInv')
  BY <1>6, SweepLeft
<1>7. ASSUME NEW s \in Sessions, Swept(s) \/ Crash(s) PROVE LeftInv' /\ (KeptInv => KeptInv')
  BY <1>7, EndLeft
<1>8. CASE BundleChanges
  BY <1>1, <1>8 DEF BundleChanges
<1>9. CASE FiveMinutesPass
  BY <1>1, <1>9 DEF FiveMinutesPass
<1>10. CASE UNCHANGED vars
  BY <1>1, <1>10 DEF vars
<1>11. QED
  BY <1>2, <1>3, <1>4, <1>5, <1>6, <1>7, <1>8, <1>9, <1>10 DEF Next

\* When every session is closed and none was disturbed, killed or kept from
\* starting, the temporary directory holds marked folders only, and no more than
\* maximum_exited_session of them if that was so at the beginning - however the
\* clean-ups of debug sessions overlapped.
THEOREM NothingElseLeft ==
  ASSUME Len(Exited0) <= MaximumExited
  PROVE  Spec => []NothingElseIsLeft
<1>1. ASSUME HostInv, LeftInv, KeptInv PROVE NothingElseIsLeft
  <2> SUFFICES ASSUME \A s \in Sessions : sessions[s].pc \in {"new", "closed"}
               PROVE  /\ DOMAIN folders \cap TemporaryFolders \subseteq ToSet(exited)
                      /\ Cardinality(ToSet(exited) \cap TemporaryFolders) <= MaximumExited
    BY DEF NothingElseIsLeft
  <2>1. \A s \in Sessions : \A f : ~UsedBy(s, f)
    BY DEF UsedBy
  <2>2. DOMAIN folders \cap TemporaryFolders \subseteq ToSet(exited)
    BY <1>1, <2>1 DEF LeftInv
  <2>3. \A s \in Sessions : sessions[s].todo = <<>>
    BY <1>1 DEF LeftInv
  <2>4. ToSet(exited) \cap TemporaryFolders = Kept
    <3>1. ToSet(<<>>) = {}
      BY DEF ToSet
    <3>2. Kept = ToSet(exited)
      BY <2>3, <3>1 DEF Kept
    <3>3. ToSet(exited) \subseteq TemporaryFolders
      BY <1>1 DEF HostInv, SessionsOK, ToSet
    <3>4. QED
      BY <3>2, <3>3
  <2>5. QED
    BY <1>1, <2>2, <2>4 DEF KeptInv
<1>2. Init => LeftInv /\ KeptInv
  BY InitLeftInv, InitKeptInv
<1>3. HostInv /\ LeftInv /\ KeptInv /\ [Next]_vars => LeftInv' /\ KeptInv'
  BY NextLeft
<1>4. QED
  BY <1>1, <1>2, <1>3, HostInvariant, PTL DEF Spec

-----------------------------------------------------------------------------
(* What statements leave behind *)

Fields == {"cwd", "environ", "inherited", "isProcess", "path", "helper"}

\* SurroundingsRestored is inductive, once a session that has not begun is known
\* not to have entered anything.
AroundInv ==
  /\ DOMAIN around = Sessions
  /\ \A s \in Sessions : /\ DOMAIN around[s] = Fields
                         /\ sessions[s].pc = "new" => sessions[s].halfEntered = <<>>
  /\ SurroundingsRestored

LEMMA InitAround == Init => AroundInv
<1> SUFFICES ASSUME Init PROVE AroundInv
  OBVIOUS
<1>1. \A s \in Sessions : around[s] = Surroundings("home") /\ sessions[s].halfEntered = <<>>
  BY DEF Init, Unborn
<1>2. QED
  BY <1>1 DEF Init, AroundInv, SurroundingsRestored, Surroundings, Fields

\* However far PythonAnalytics.__enter__() gets, sys.path has grown by the
\* directory of the analytics.
LEMMA HalfEnteredFacts ==
  ASSUME NEW p, DOMAIN p = Fields, NEW profile, NEW parameters, NEW h \in HalfEntered(p, profile, parameters)
  PROVE  DOMAIN h = Fields /\ h.path = Append(p.path, profile)
<1> DEFINE extended == PathExtended(p, profile)
           changed == DirectoryChanged(p, profile)
           set == ParametersSet(p, profile, parameters)
           loaded == ModuleLoaded(p, profile, parameters)
<1>1. DOMAIN extended = Fields /\ extended.path = Append(p.path, profile)
  BY DEF PathExtended, Fields
<1>2. DOMAIN changed = Fields /\ changed.path = extended.path
  <2>1. changed = [extended EXCEPT !.cwd = profile]
    BY DEF DirectoryChanged
  <2> HIDE DEF changed, extended
  <2>2. QED
    BY <1>1, <2>1 DEF Fields
<1>3. DOMAIN set = Fields /\ set.path = changed.path
  <2>1. \E e, i : set = [changed EXCEPT !.environ = e, !.inherited = i]
    BY DEF ParametersSet
  <2> HIDE DEF set, changed
  <2>2. QED
    BY <1>2, <2>1 DEF Fields
<1>4. DOMAIN loaded = Fields /\ loaded.path = set.path
  <2>1. \E m : loaded = [set EXCEPT !.helper = m]
    BY DEF ModuleLoaded
  <2> HIDE DEF loaded, set
  <2>2. QED
    BY <1>3, <2>1 DEF Fields
<1>5. h = extended \/ h = set \/ h = loaded
  BY DEF HalfEntered
<1> HIDE DEF extended, changed, set, loaded
<1>6. QED
  BY <1>1, <1>2, <1>3, <1>4, <1>5

\* What __exit__() leaves: the path and the environment from before __enter__().
LEMMA ExitedFacts ==
  ASSUME NEW p, DOMAIN p = Fields, NEW profile, NEW parameters
  PROVE  LET x == Exited(p, ModuleLoaded(p, profile, parameters))
         IN  DOMAIN x = Fields /\ x.path = p.path /\ x.environ = p.environ
<1> DEFINE loaded == ModuleLoaded(p, profile, parameters)
           x == [loaded EXCEPT !.path = p.path, !.cwd = p.cwd, !.environ = p.environ, !.isProcess = FALSE]
<1>1. loaded \in HalfEntered(p, profile, parameters)
  BY DEF HalfEntered
<1>2. DOMAIN loaded = Fields
  BY <1>1, HalfEnteredFacts
<1> HIDE DEF loaded
<1>3. DOMAIN x = Fields /\ x.path = p.path /\ x.environ = p.environ
  BY <1>2 DEF Fields
<1>4. QED
  BY <1>3 DEF Exited, loaded

\* Either the entry failed and sys.path has grown, or nothing remains.
Cleanly(p, profile, o) ==
  /\ DOMAIN o.after = Fields
  /\ \/ o.failedIn = "enter" /\ o.after.path = Append(p.path, profile)
     \/ o.failedIn # "enter" /\ o.after.path = p.path /\ o.after.environ = p.environ

LEMMA PythonCleanly ==
  ASSUME NEW p, DOMAIN p = Fields, NEW profile, NEW parameters, NEW n,
         NEW o \in PythonOutcomes(p, profile, parameters, n)
  PROVE  Cleanly(p, profile, o)
<1> DEFINE x == Exited(p, ModuleLoaded(p, profile, parameters))
<1>1. DOMAIN x = Fields /\ x.path = p.path /\ x.environ = p.environ
  BY ExitedFacts
<1> HIDE DEF x
<1>2. CASE o = NoProfile(p)
  BY <1>2 DEF NoProfile, Cleanly
<1>3. CASE \E h \in HalfEntered(p, profile, parameters) :
             o = [after |-> h, ok |-> FALSE, replaced |-> {}, failedIn |-> "enter"]
  <2>1. PICK h \in HalfEntered(p, profile, parameters) :
          o = [after |-> h, ok |-> FALSE, replaced |-> {}, failedIn |-> "enter"]
    BY <1>3
  <2>2. DOMAIN h = Fields /\ h.path = Append(p.path, profile)
    BY HalfEnteredFacts
  <2>3. QED
    BY <2>1, <2>2 DEF Cleanly
<1>4. CASE \E r \in Returns(n) :
             o = [after |-> x, ok |-> Stored(r, n).ok, replaced |-> Stored(r, n).replaced,
                  failedIn |-> IF Stored(r, n).ok THEN "" ELSE "run"]
  <2>1. PICK r \in Returns(n) :
             o = [after |-> x, ok |-> Stored(r, n).ok, replaced |-> Stored(r, n).replaced,
                  failedIn |-> IF Stored(r, n).ok THEN "" ELSE "run"]
    BY <1>4
  <2>2. QED
    BY <1>1, <2>1 DEF Cleanly
<1>5. QED
  BY <1>2, <1>3, <1>4 DEF PythonOutcomes, x

LEMMA DockerCleanly ==
  ASSUME NEW p, DOMAIN p = Fields, NEW profile, NEW n, NEW o \in DockerOutcomes(p, n)
  PROVE  Cleanly(p, profile, o)
<1>1. CASE o = NoContainer(p)
  BY <1>1 DEF NoContainer, Cleanly
<1>2. CASE \E r \in DockerReturns(n) :
             o = [after |-> p, ok |-> DockerStored(r, n).ok, replaced |-> DockerStored(r, n).replaced,
                  failedIn |-> IF DockerStored(r, n).ok THEN "" ELSE "run"]
  <2>1. PICK r \in DockerReturns(n) :
          o = [after |-> p, ok |-> DockerStored(r, n).ok, replaced |-> DockerStored(r, n).replaced,
               failedIn |-> IF DockerStored(r, n).ok THEN "" ELSE "run"]
    BY <1>2
  <2>2. o.after = p /\ o.failedIn # "enter"
    BY <2>1
  <2>3. QED
    BY <2>2 DEF Cleanly
<1>3. QED
  BY <1>1, <1>2 DEF DockerOutcomes

\* What APPLY does to the session's process and remembers of it, with outcome o.
AppliedAs(s, profile, o) ==
  /\ Cleanly(around[s], profile, o)
  /\ around' = [around EXCEPT ![s] = [o.after EXCEPT !.cwd = around[s].cwd]]
  /\ sessions' = IF o.failedIn = "enter"
                 THEN [sessions EXCEPT ![s].halfEntered = Append(@, profile)] ELSE sessions

LEMMA ApplyFacts ==
  ASSUME NEW s \in Sessions, Apply(s), DOMAIN around = Sessions, DOMAIN around[s] = Fields
  PROVE  \E profile \in Profiles : \E o : AppliedAs(s, profile, o)
<1> DEFINE p == [around[s] EXCEPT !.cwd = Folder(s)]
           nothing == [after |-> p, ok |-> FALSE, replaced |-> {}, failedIn |-> "manager"]
           outcomes(i, profile, parameters) ==
             IF i = "python" THEN PythonOutcomes(p, profile, parameters, Arguments)
             ELSE DockerOutcomes(p, Arguments)
<1>1. PICK scheme \in Schemes, profile \in Profiles, parameters \in Parameters :
        \E o \in IF InterfaceOf(scheme) = {} THEN {nothing}
                 ELSE UNION {outcomes(i, profile, parameters) : i \in InterfaceOf(scheme)} :
            /\ around' = [around EXCEPT ![s] = [o.after EXCEPT !.cwd = around[s].cwd]]
            /\ sessions' = IF o.failedIn = "enter"
                           THEN [sessions EXCEPT ![s].halfEntered = Append(@, profile)] ELSE sessions
            /\ result' = [kind |-> "applied", ok |-> o.ok, replaced |-> o.replaced]
  BY DEF Apply
<1>2. PICK o \in IF InterfaceOf(scheme) = {} THEN {nothing}
                 ELSE UNION {outcomes(i, profile, parameters) : i \in InterfaceOf(scheme)} :
            /\ around' = [around EXCEPT ![s] = [o.after EXCEPT !.cwd = around[s].cwd]]
            /\ sessions' = IF o.failedIn = "enter"
                           THEN [sessions EXCEPT ![s].halfEntered = Append(@, profile)] ELSE sessions
            /\ result' = [kind |-> "applied", ok |-> o.ok, replaced |-> o.replaced]
  BY <1>1
<1>3. DOMAIN p = Fields /\ p.path = around[s].path /\ p.environ = around[s].environ
  BY DEF Fields
<1> HIDE DEF p
<1>4. o = nothing \/ \E i \in InterfaceOf(scheme) : o \in outcomes(i, profile, parameters)
  BY <1>2
<1>5. Cleanly(p, profile, o)
  <2>1. CASE o = nothing
    BY <1>3, <2>1 DEF Cleanly
  <2>2. CASE \E i \in InterfaceOf(scheme) : o \in outcomes(i, profile, parameters)
    BY <1>3, <2>2, PythonCleanly, DockerCleanly
  <2>3. QED
    BY <1>4, <2>1, <2>2
<1>6. Cleanly(around[s], profile, o)
  BY <1>3, <1>5 DEF Cleanly
<1>7. AppliedAs(s, profile, o)
  BY <1>2, <1>6 DEF AppliedAs
<1>8. QED
  BY <1>7

\* Every other statement or step leaves the surroundings alone and remembers
\* nothing; a new session remembers nothing either.
LEMMA AroundStays ==
  ASSUME AroundInv, around' = around,
         \A t \in Sessions : /\ sessions'[t].halfEntered = sessions[t].halfEntered
                             /\ sessions'[t].pc = "new" => sessions[t].pc = "new"
  PROVE  AroundInv'
BY DEF AroundInv, SurroundingsRestored

LEMMA ApplyAround ==
  ASSUME NEW s \in Sessions, HostInv, AroundInv, Apply(s)
  PROVE  AroundInv'
<1>1. /\ DOMAIN around = Sessions /\ DOMAIN around[s] = Fields /\ around[s].cwd = "home"
      /\ around[s].path = sessions[s].halfEntered
      /\ sessions[s].halfEntered = <<>> => around[s].environ = Unchanged
      /\ sessions[s].pc # "new"
  BY StatementFacts DEF AroundInv, SurroundingsRestored
<1>0. PICK profile \in Profiles : \E o : AppliedAs(s, profile, o)
  BY <1>1, ApplyFacts
<1>a. PICK o : AppliedAs(s, profile, o)
  BY <1>0
<1>2. /\ Cleanly(around[s], profile, o)
      /\ around' = [around EXCEPT ![s] = [o.after EXCEPT !.cwd = around[s].cwd]]
      /\ sessions' = IF o.failedIn = "enter"
                     THEN [sessions EXCEPT ![s].halfEntered = Append(@, profile)] ELSE sessions
  BY <1>a DEF AppliedAs
<1> DEFINE after == [o.after EXCEPT !.cwd = around[s].cwd]
<1>3. /\ DOMAIN after = Fields /\ after.cwd = "home" /\ after.path = o.after.path
      /\ after.environ = o.after.environ
  BY <1>1, <1>2 DEF Cleanly, Fields
<1> HIDE DEF after
<1>4. DOMAIN around' = Sessions /\ around'[s] = after /\ \A t \in Sessions \ {s} : around'[t] = around[t]
  BY <1>1, <1>2 DEF after
<1>5. sessions \in [Sessions -> SessionRecord]
  BY DEF HostInv, SessionsOK
<1>6. CASE o.failedIn = "enter"
  <2>1. sessions' = [sessions EXCEPT ![s].halfEntered = Append(@, profile)]
    BY <1>2, <1>6
  <2>2. /\ sessions'[s].halfEntered = Append(sessions[s].halfEntered, profile)
        /\ sessions'[s].pc = sessions[s].pc
        /\ \A t \in Sessions \ {s} : sessions'[t] = sessions[t]
    BY <1>5, <2>1 DEF SessionRecord
  <2>3. sessions'[s].halfEntered # <<>>
    <3>1. sessions[s].halfEntered \in Seq(Profiles)
      BY <1>5 DEF SessionRecord
    <3>2. PICK h \in Seq(Profiles) : h = sessions[s].halfEntered
      BY <3>1
    <3>3. Append(h, profile) # <<>>
      BY AppendProperties
    <3>4. QED
      BY <2>2, <3>2, <3>3
  <2>4. after.path = sessions'[s].halfEntered
    BY <1>1, <1>2, <1>3, <1>6, <2>2 DEF Cleanly
  <2>5. ASSUME NEW t \in Sessions
        PROVE
          /\ DOMAIN around'[t] = Fields /\ around'[t].cwd = "home"
          /\ around'[t].path = sessions'[t].halfEntered
          /\ sessions'[t].halfEntered = <<>> => around'[t].environ = Unchanged
          /\ sessions'[t].pc = "new" => sessions'[t].halfEntered = <<>>
    <3>1. CASE t = s
      BY <1>1, <1>3, <1>4, <2>2, <2>3, <2>4, <3>1
    <3>2. CASE t # s
      BY <1>4, <2>2, <3>2 DEF AroundInv, SurroundingsRestored
    <3>3. QED
      BY <3>1, <3>2
  <2>6. QED
    BY <1>4, <2>5 DEF AroundInv, SurroundingsRestored
<1>7. CASE o.failedIn # "enter"
  <2>1. sessions' = sessions
    BY <1>2, <1>7
  <2>2. after.path = around[s].path /\ after.environ = around[s].environ
    BY <1>2, <1>3, <1>7 DEF Cleanly
  <2>3. QED
    BY <1>1, <1>3, <1>4, <2>1, <2>2 DEF AroundInv, SurroundingsRestored
<1>8. QED
  BY <1>6, <1>7

LEMMA NextAround == HostInv /\ AroundInv /\ [Next]_vars => AroundInv'
<1> SUFFICES ASSUME HostInv, AroundInv, [Next]_vars PROVE AroundInv'
  OBVIOUS
<1>1. sessions \in [Sessions -> SessionRecord]
  BY DEF HostInv, SessionsOK
<1>2. ASSUME around' = around, NEW s \in Sessions, NEW r,
             sessions' = [sessions EXCEPT ![s] = r], r.pc # "new",
             r.halfEntered = sessions[s].halfEntered
      PROVE  AroundInv'
  <2>1. \A t \in Sessions : /\ sessions'[t].halfEntered = sessions[t].halfEntered
                            /\ sessions'[t].pc = "new" => sessions[t].pc = "new"
    BY <1>1, <1>2
  <2>2. QED
    BY <1>2, <2>1, AroundStays
<1>3. ASSUME around' = around, NEW s \in Sessions, NEW pc, pc # "new", Goto(s, pc)
      PROVE  AroundInv'
  <2> DEFINE r == [sessions[s] EXCEPT !.pc = pc]
  <2>1. r.pc = pc /\ r.halfEntered = sessions[s].halfEntered
    BY <1>1 DEF SessionRecord
  <2>2. sessions' = [sessions EXCEPT ![s] = r]
    BY <1>3 DEF Goto
  <2> HIDE DEF r
  <2>3. QED
    BY <1>2, <1>3, <2>1, <2>2
<1>4. CASE around' = around /\ sessions' = sessions
  BY <1>4, AroundStays
<1>5. ASSUME NEW s \in Sessions, Create(s) PROVE AroundInv'
  <2>1. PICK r : sessions' = [sessions EXCEPT ![s] = r] /\ r.pc # "new" /\ r.halfEntered = <<>>
    <3>1. PICK f \in Folders, debug \in DebugModes :
            sessions' = [sessions EXCEPT ![s] =
                 [Unborn EXCEPT !.pc = "made", !.folder = f, !.debug = debug, !.owned = OwnedByCaller(f),
                                !.made = f \notin DOMAIN folders]]
      BY <1>5 DEF Create
    <3> DEFINE new == [Unborn EXCEPT !.pc = "made", !.folder = f, !.debug = debug, !.owned = OwnedByCaller(f),
                                     !.made = f \notin DOMAIN folders]
    <3>2. new.pc = "made" /\ new.halfEntered = <<>>
      BY DEF Unborn
    <3> HIDE DEF new
    <3>3. QED
      BY <3>1, <3>2 DEF new
  <2>2. sessions[s].halfEntered = <<>> /\ around' = around
    BY <1>5 DEF Create, AroundInv
  <2>3. QED
    BY <1>2, <2>1, <2>2
<1>6. ASSUME NEW s \in Sessions, Unlink(s) \/ Link(s) \/ Start(s) \/ Swept(s) \/ Crash(s)
      PROVE  AroundInv'
  <2>1. around' = around /\ \E pc \in {"unlinked", "linked", "beaten", "open", "failed", "closed", "crashed"} : Goto(s, pc)
    BY <1>6 DEF Unlink, Link, Start, Swept, Crash
  <2>2. QED
    BY <1>3, <2>1
<1>7. ASSUME NEW s \in Sessions, Get(s) PROVE AroundInv'
  <2>1. around' = around
    BY <1>7 DEF Get
  <2>2. sessions' = sessions \/ \E uri : sessions' = [sessions EXCEPT ![s].source = uri]
    BY <1>7, ZenonT(30) DEF Get
  <2>3. ASSUME NEW uri, sessions' = [sessions EXCEPT ![s].source = uri] PROVE AroundInv'
    <3> DEFINE r == [sessions[s] EXCEPT !.source = uri]
    <3>1. r.pc = sessions[s].pc /\ r.halfEntered = sessions[s].halfEntered
      BY <1>1 DEF SessionRecord
    <3>2. sessions' = [sessions EXCEPT ![s] = r] /\ sessions[s].pc # "new"
      BY <1>7, <2>3 DEF Get, Executes
    <3> HIDE DEF r
    <3>3. QED
      BY <1>2, <2>1, <3>1, <3>2
  <2>4. QED
    BY <1>4, <2>1, <2>2, <2>3
<1>8. ASSUME NEW s \in Sessions, Close(s) PROVE AroundInv'
  <2> DEFINE closed == [sessions[s] EXCEPT !.pc = "closed", !.closes = @ + 1]
  <2>1. /\ closed.pc = "closed" /\ closed.halfEntered = sessions[s].halfEntered
        /\ DOMAIN closed = DOMAIN sessions[s] /\ "pc" \in DOMAIN closed /\ "halfEntered" \in DOMAIN closed
    BY <1>1 DEF SessionRecord
  <2>2. around' = around
    BY <1>8 DEF Close
  <2>3. \/ sessions' = [sessions EXCEPT ![s] = closed]
        \/ \E todo : sessions' = [sessions EXCEPT ![s] = [closed EXCEPT !.pc = "sweeping", !.todo = todo]]
    BY <1>8 DEF Close
  <2> HIDE DEF closed
  <2>4. CASE sessions' = [sessions EXCEPT ![s] = closed]
    BY <1>2, <2>1, <2>2, <2>4
  <2>5. ASSUME NEW todo, sessions' = [sessions EXCEPT ![s] = [closed EXCEPT !.pc = "sweeping", !.todo = todo]]
        PROVE  AroundInv'
    <3> DEFINE r == [closed EXCEPT !.pc = "sweeping", !.todo = todo]
    <3>1. r.pc = "sweeping" /\ r.halfEntered = sessions[s].halfEntered
      BY <2>1
    <3>2. sessions' = [sessions EXCEPT ![s] = r]
      BY <2>5
    <3> HIDE DEF r
    <3>3. QED
      BY <1>2, <2>2, <3>1, <3>2
  <2>6. QED
    BY <2>3, <2>4, <2>5
<1>9. ASSUME NEW s \in Sessions, Sweep(s) PROVE AroundInv'
  <2>1. around' = around /\ sessions[s].pc = "sweeping"
    BY <1>9 DEF Sweep
  <2>2. (\E todo : sessions' = [sessions EXCEPT ![s].todo = todo]) \/ Goto(s, "disturbed")
    BY <1>9 DEF Sweep, Goto
  <2>3. ASSUME NEW todo, sessions' = [sessions EXCEPT ![s].todo = todo] PROVE AroundInv'
    <3> DEFINE r == [sessions[s] EXCEPT !.todo = todo]
    <3>1. r.pc = sessions[s].pc /\ r.halfEntered = sessions[s].halfEntered
      BY <1>1 DEF SessionRecord
    <3>2. sessions' = [sessions EXCEPT ![s] = r]
      BY <2>3
    <3> HIDE DEF r
    <3>3. QED
      BY <1>2, <2>1, <3>1, <3>2
  <2>4. QED
    BY <1>3, <2>1, <2>2, <2>3
<1>10. CASE BundleChanges \/ FiveMinutesPass
  BY <1>4, <1>10 DEF BundleChanges, FiveMinutesPass
<1>11. CASE UNCHANGED vars
  BY <1>4, <1>11 DEF vars
<1>12. ASSUME NEW s \in Sessions, NotEntered(s) PROVE AroundInv'
  BY <1>4, <1>12 DEF NotEntered
<1>13. ASSUME NEW s \in Sessions, Apply(s) PROVE AroundInv'
  BY <1>13, ApplyAround
<1>14. QED
  BY <1>5, <1>6, <1>7, <1>8, <1>9, <1>10, <1>11, <1>12, <1>13 DEF Next

\* Between statements the process of a session has its working directory, and
\* sys.path and os.environ hold only what analytics have left whose entry
\* failed, whatever they were and in whatever order they came.
THEOREM SurroundingsAreRestored == Spec => []SurroundingsRestored
<1>1. AroundInv => SurroundingsRestored
  BY DEF AroundInv
<1>2. QED
  BY <1>1, InitAround, NextAround, HostInvariant, PTL DEF Spec

-----------------------------------------------------------------------------
(* Answers: what the source computes *)

\* A set of numbers has a smallest one.
LEMMA SmallestOf ==
  ASSUME NEW S \in SUBSET Nat, S # {}
  PROVE  \E x \in S : \A y \in S : x <= y
<1> DEFINE R == OpToRel(<, Nat)
<1>1. IsWellFoundedOn(R, Nat)
  BY NatLessThanWellFounded
<1>2. \A x, y \in Nat : <<x, y>> \in R <=> x < y
  BY DEF OpToRel
<1> HIDE DEF R
<1>3. PICK x \in S : \A y \in S : ~(<<y, x>> \in R)
  BY <1>1, WFMin
<1>4. \A y \in S : ~(y < x) /\ y \in Nat /\ x \in Nat
  BY <1>2, <1>3
<1>5. \A y \in S : x <= y
  BY <1>4
<1>6. QED
  BY <1>5

\* Induction, for a set instead of a predicate.
LEMMA UpTo ==
  ASSUME NEW S, NEW top \in Nat, 0 \in S, \A n \in Nat : n < top /\ n \in S => n + 1 \in S
  PROVE  \A n \in 0..top : n \in S
<1> DEFINE Bad == {n \in 0..top : n \notin S}
<1> SUFFICES ASSUME Bad # {} PROVE FALSE
  OBVIOUS
<1>0. Bad \in SUBSET Nat
  OBVIOUS
<1>1. PICK n \in Bad : \A m \in Bad : n <= m
  BY <1>0, SmallestOf
<1>2. n \in Nat /\ n # 0 /\ n <= top /\ n \notin S
  BY <1>1
<1>3. n - 1 \in Nat /\ n - 1 < top /\ n - 1 \in 0..top /\ (n - 1) + 1 = n
  BY <1>2
<1>4. n - 1 \notin Bad
  BY <1>1, <1>2, <1>3
<1>5. n - 1 \in S
  BY <1>3, <1>4
<1>6. QED
  BY <1>2, <1>3, <1>5

\* What matches is collected observation by observation ...
LEMMA MatchingUnfold ==
  ASSUME NEW S, NEW objects \in Seq(S), NEW pattern
  PROVE  \E f : /\ Matching(objects, pattern) = f[Len(objects)]
                /\ f[0] = <<>>
                /\ \A n \in 0..Len(objects) : n # 0 => f[n] = IF pattern \in objects[n].matches THEN Append(f[n - 1], objects[n]) ELSE f[n - 1]
<1> DEFINE First == <<>>
           Grown(n, s) == IF pattern \in objects[n].matches THEN Append(s, objects[n]) ELSE s
           Level(f, n) == IF n = 0 THEN First ELSE Grown(n, f[n - 1])
           Good == {k \in Nat : \E f : f = [n \in 0..k |-> Level(f, n)]}
           top == Len(objects)
<1>0. top \in Nat
  OBVIOUS
<1>1. 0 \in Good
  <2> DEFINE f == [n \in 0..0 |-> First]
  <2>1. f = [n \in 0..0 |-> Level(f, n)]
    OBVIOUS
  <2> HIDE DEF f, Level
  <2>2. 0 \in {k \in Nat : \E h : h = [n \in 0..k |-> Level(h, n)]}
    BY <2>1
  <2>3. QED
    BY <2>2
<1>2. \A k \in Nat : k < top /\ k \in Good => k + 1 \in Good
  <2> SUFFICES ASSUME NEW k \in Nat, k \in Good PROVE k + 1 \in Good
    OBVIOUS
  <2>1. PICK f : f = [n \in 0..k |-> Level(f, n)]
    OBVIOUS
  <2> DEFINE g == [n \in 0..(k + 1) |-> Level(f, n)]
  <2>2. \A n \in 0..(k + 1) : n # 0 => n - 1 \in 0..k /\ n - 1 \in 0..(k + 1)
    OBVIOUS
  <2> HIDE DEF Level, Good, g
  <2>3. \A n \in 0..k : f[n] = Level(f, n)
    BY <2>1, Zenon
  <2>3a. \A n \in 0..k : n \in 0..(k + 1)
    OBVIOUS
  <2> USE DEF g
  <2> USE DEF Level
  <2> HIDE DEF Grown, First
  <2>4. \A n \in 0..(k + 1) : Level(f, n) = Level(g, n)
    BY <2>2, <2>3, <2>3a
  <2>5. g = [n \in 0..(k + 1) |-> Level(g, n)]
    BY <2>4
  <2> USE DEF Good
  <2> HIDE DEF g, Level
  <2>6. k + 1 \in {i \in Nat : \E h : h = [n \in 0..i |-> Level(h, n)]}
    BY <2>5
  <2>7. QED
    BY <2>6
<1>3. top \in Good
  <2> HIDE DEF Good
  <2>1. \A n \in 0..top : n \in Good
    BY <1>0, <1>1, <1>2, UpTo
  <2>2. QED
    BY <1>0, <2>1
<1> DEFINE t == CHOOSE f : f = [i \in 0..Len(objects) |-> IF i = 0 THEN <<>>
                  ELSE IF pattern \in objects[i].matches THEN Append(f[i - 1], objects[i]) ELSE f[i - 1]]
<1>4. t = [n \in 0..top |-> Level(t, n)]
  <2>1. PICK h : h = [n \in 0..top |-> Level(h, n)]
    BY <1>3
  <2>2. t = [i \in 0..Len(objects) |-> IF i = 0 THEN <<>>
                  ELSE IF pattern \in objects[i].matches THEN Append(t[i - 1], objects[i]) ELSE t[i - 1]]
    BY <2>1, Zenon
  <2>3. QED
    BY <2>2, Zenon
<1>5. Matching(objects, pattern) = t[Len(objects)]
  BY Zenon DEF Matching
<1> HIDE DEF t
<1>6. \A n \in 0..top : t[n] = Level(t, n)
  <2> HIDE DEF Level
  <2>1. QED
    BY <1>4
<1>7. 0 \in 0..top
  BY <1>0
<1>8. QED
  <2> HIDE DEF Grown, First
  <2>1. t[0] = First
    BY <1>6, <1>7
  <2>2. \A n \in 0..top : n # 0 => t[n] = Grown(n, t[n - 1])
    BY <1>6
  <2> USE DEF Grown, First
  <2>3. QED
    BY <1>5, <2>1, <2>2, Zenon

\* What has been gathered after each of the paths.
UnfoldsGathered(f, paths, v, pattern) ==
  /\ Gathered(paths, v, pattern) = f[Len(paths)]
  /\ f[0] = <<>>
  /\ \A n \in 0..Len(paths) : n # 0 => f[n] = f[n - 1] \o Matching(Objects[paths[n]][v[n]], pattern)

\* ... and path by path ...
LEMMA GatheredUnfold ==
  ASSUME NEW paths \in Seq(AllPaths), NEW v, NEW pattern
  PROVE  \E f : UnfoldsGathered(f, paths, v, pattern)
<1> DEFINE First == <<>>
           Grown(n, s) == s \o Matching(Objects[paths[n]][v[n]], pattern)
           Level(f, n) == IF n = 0 THEN First ELSE Grown(n, f[n - 1])
           Good == {k \in Nat : \E f : f = [n \in 0..k |-> Level(f, n)]}
           top == Len(paths)
<1>0. top \in Nat
  OBVIOUS
<1>1. 0 \in Good
  <2> DEFINE f == [n \in 0..0 |-> First]
  <2>1. f = [n \in 0..0 |-> Level(f, n)]
    OBVIOUS
  <2> HIDE DEF f, Level
  <2>2. 0 \in {k \in Nat : \E h : h = [n \in 0..k |-> Level(h, n)]}
    BY <2>1
  <2>3. QED
    BY <2>2
<1>2. \A k \in Nat : k < top /\ k \in Good => k + 1 \in Good
  <2> SUFFICES ASSUME NEW k \in Nat, k \in Good PROVE k + 1 \in Good
    OBVIOUS
  <2>1. PICK f : f = [n \in 0..k |-> Level(f, n)]
    OBVIOUS
  <2> DEFINE g == [n \in 0..(k + 1) |-> Level(f, n)]
  <2>2. \A n \in 0..(k + 1) : n # 0 => n - 1 \in 0..k /\ n - 1 \in 0..(k + 1)
    OBVIOUS
  <2> HIDE DEF Level, Good, g
  <2>3. \A n \in 0..k : f[n] = Level(f, n)
    BY <2>1, Zenon
  <2>3a. \A n \in 0..k : n \in 0..(k + 1)
    OBVIOUS
  <2> USE DEF g
  <2> USE DEF Level
  <2> HIDE DEF Grown, First
  <2>4. \A n \in 0..(k + 1) : Level(f, n) = Level(g, n)
    BY <2>2, <2>3, <2>3a
  <2>5. g = [n \in 0..(k + 1) |-> Level(g, n)]
    BY <2>4
  <2> USE DEF Good
  <2> HIDE DEF g, Level
  <2>6. k + 1 \in {i \in Nat : \E h : h = [n \in 0..i |-> Level(h, n)]}
    BY <2>5
  <2>7. QED
    BY <2>6
<1>3. top \in Good
  <2> HIDE DEF Good
  <2>1. \A n \in 0..top : n \in Good
    BY <1>0, <1>1, <1>2, UpTo
  <2>2. QED
    BY <1>0, <2>1
<1> DEFINE t == CHOOSE f : f = [i \in 0..Len(paths) |-> IF i = 0 THEN <<>>
                  ELSE f[i - 1] \o Matching(Objects[paths[i]][v[i]], pattern)]
<1>4. t = [n \in 0..top |-> Level(t, n)]
  <2>1. PICK h : h = [n \in 0..top |-> Level(h, n)]
    BY <1>3
  <2>2. t = [i \in 0..Len(paths) |-> IF i = 0 THEN <<>>
                  ELSE t[i - 1] \o Matching(Objects[paths[i]][v[i]], pattern)]
    BY <2>1, Zenon
  <2>3. QED
    BY <2>2, Zenon
<1>5. Gathered(paths, v, pattern) = t[Len(paths)]
  BY Zenon DEF Gathered
<1> HIDE DEF t
<1>6. \A n \in 0..top : t[n] = Level(t, n)
  <2> HIDE DEF Level
  <2>1. QED
    BY <1>4
<1>7. 0 \in 0..top
  BY <1>0
<1>8. QED
  <2> HIDE DEF Grown, First
  <2>1. t[0] = First
    BY <1>6, <1>7
  <2>2. \A n \in 0..top : n # 0 => t[n] = Grown(n, t[n - 1])
    BY <1>6
  <2> USE DEF Grown, First
  <2>3. QED
    BY <1>5, <2>1, <2>2, Zenon DEF UnfoldsGathered

\* Where a query starts that has no ingest directory yet.
Started(folder, q) ==
  [folder |-> [folder EXCEPT !.asked = @ \union {q}], how |-> "got", found |-> <<>>]

\* The outcomes of turn n, from those of the turns before.
Turns(before, q, n, limit, world) ==
  UNION {NextPath(at, q, DataPaths[q[1]][n], limit, world) : at \in before}

\* The outcomes of a query after each of its turns.
UnfoldsQuery(f, folder, q, limit, world) ==
  /\ Query(folder, q, limit, world) = f[Len(DataPaths[q[1]])]
  /\ \A at \in f[0] : at = Started(folder, q)
  /\ \A n \in 0..Len(DataPaths[q[1]]) : n # 0 => f[n] = Turns(f[n - 1], q, n, limit, world)

\* ... as a query does that has no ingest directory yet.
LEMMA QueryUnfold ==
  ASSUME NEW folder, NEW q \in QueryIds, NEW limit, NEW world, q \notin folder.asked,
         DataPaths[q[1]] \in Seq(AllPaths)
  PROVE  \E f : UnfoldsQuery(f, folder, q, limit, world)
<1> DEFINE First == {Started(folder, q)}
           Grown(n, s) == Turns(s, q, n, limit, world)
           Level(f, n) == IF n = 0 THEN First ELSE Grown(n, f[n - 1])
           Good == {k \in Nat : \E f : f = [n \in 0..k |-> Level(f, n)]}
           top == Len(DataPaths[q[1]])
<1>0. top \in Nat
  OBVIOUS
<1>1. 0 \in Good
  <2> DEFINE f == [n \in 0..0 |-> First]
  <2>1. f = [n \in 0..0 |-> Level(f, n)]
    OBVIOUS
  <2> HIDE DEF f, Level
  <2>2. 0 \in {k \in Nat : \E h : h = [n \in 0..k |-> Level(h, n)]}
    BY <2>1
  <2>3. QED
    BY <2>2
<1>2. \A k \in Nat : k < top /\ k \in Good => k + 1 \in Good
  <2> SUFFICES ASSUME NEW k \in Nat, k \in Good PROVE k + 1 \in Good
    OBVIOUS
  <2>1. PICK f : f = [n \in 0..k |-> Level(f, n)]
    OBVIOUS
  <2> DEFINE g == [n \in 0..(k + 1) |-> Level(f, n)]
  <2>2. \A n \in 0..(k + 1) : n # 0 => n - 1 \in 0..k /\ n - 1 \in 0..(k + 1)
    OBVIOUS
  <2> HIDE DEF Level, Good, g
  <2>3. \A n \in 0..k : f[n] = Level(f, n)
    BY <2>1, Zenon
  <2>3a. \A n \in 0..k : n \in 0..(k + 1)
    OBVIOUS
  <2> USE DEF g
  <2> USE DEF Level
  <2> HIDE DEF Grown, First
  <2>4. \A n \in 0..(k + 1) : Level(f, n) = Level(g, n)
    BY <2>2, <2>3, <2>3a
  <2>5. g = [n \in 0..(k + 1) |-> Level(g, n)]
    BY <2>4
  <2> USE DEF Good
  <2> HIDE DEF g, Level
  <2>6. k + 1 \in {i \in Nat : \E h : h = [n \in 0..i |-> Level(h, n)]}
    BY <2>5
  <2>7. QED
    BY <2>6
<1>3. top \in Good
  <2> HIDE DEF Good
  <2>1. \A n \in 0..top : n \in Good
    BY <1>0, <1>1, <1>2, UpTo
  <2>2. QED
    BY <1>0, <2>1
<1> DEFINE t == CHOOSE f : f = [i \in 0..Len(DataPaths[q[1]]) |-> IF i = 0 THEN {Started(folder, q)}
                  ELSE UNION {NextPath(at, q, DataPaths[q[1]][i], limit, world) : at \in f[i - 1]}]
<1>4. t = [n \in 0..top |-> Level(t, n)]
  <2>1. PICK h : h = [n \in 0..top |-> Level(h, n)]
    BY <1>3
  <2>2. t = [i \in 0..Len(DataPaths[q[1]]) |-> IF i = 0 THEN {Started(folder, q)}
                  ELSE UNION {NextPath(at, q, DataPaths[q[1]][i], limit, world) : at \in t[i - 1]}]
    BY <2>1, Zenon DEF Turns
  <2>3. QED
    BY <2>2, Zenon DEF Turns
<1>5. Query(folder, q, limit, world) = t[Len(DataPaths[q[1]])]
  BY Zenon DEF Query, Started
<1> HIDE DEF t
<1>6. \A n \in 0..top : t[n] = Level(t, n)
  <2> HIDE DEF Level
  <2>1. QED
    BY <1>4
<1>7. 0 \in 0..top
  BY <1>0
<1>8. QED
  <2> HIDE DEF Grown, First
  <2>1. t[0] = First
    BY <1>6, <1>7
  <2>2. \A n \in 0..top : n # 0 => t[n] = Grown(n, t[n - 1])
    BY <1>6
  <2> USE DEF Grown, First
  <2>3. QED
    BY <1>5, <2>1, <2>2, SMT DEF UnfoldsQuery

\* All the observations there are.
Observations == UNION {UNION {ToSet(Objects[p][v]) : v \in Versions(p)} : p \in AllPaths}

LEMMA ObjectsTyped ==
  ASSUME NEW p \in AllPaths, NEW v \in Versions(p)
  PROVE  Objects[p][v] \in Seq(Observations)
<1>1. Objects[p][v] \in Seq(ToSet(Objects[p][v]))
  BY BundleAssumption
<1>2. ToSet(Objects[p][v]) \subseteq Observations
  BY DEF Observations
<1> DEFINE some == ToSet(Objects[p][v])
           bundle == Objects[p][v]
<1> HIDE DEF some, bundle
<1>3. bundle \in Seq(some) /\ some \subseteq Observations
  BY <1>1, <1>2 DEF some, bundle
<1>4. bundle \in Seq(Observations)
  BY <1>3, SeqMonotonic
<1>5. QED
  BY <1>4 DEF bundle

LEMMA MatchingType ==
  ASSUME NEW S, NEW objects \in Seq(S), NEW pattern
  PROVE  Matching(objects, pattern) \in Seq(S)
<1>1. PICK f : /\ Matching(objects, pattern) = f[Len(objects)]
               /\ f[0] = <<>>
               /\ \A n \in 0..Len(objects) : n # 0 => f[n] = IF pattern \in objects[n].matches
                                                             THEN Append(f[n - 1], objects[n]) ELSE f[n - 1]
  BY MatchingUnfold
<1> DEFINE Good == {n \in Nat : f[n] \in Seq(S)}
<1>2. 0 \in Good
  BY <1>1, EmptySeq
<1>3. \A n \in Nat : n < Len(objects) /\ n \in Good => n + 1 \in Good
  <2> SUFFICES ASSUME NEW n \in Nat, n < Len(objects), f[n] \in Seq(S) PROVE f[n + 1] \in Seq(S)
    OBVIOUS
  <2>1. n + 1 \in 0..Len(objects) /\ n + 1 # 0 /\ (n + 1) - 1 = n /\ n + 1 \in 1..Len(objects)
    OBVIOUS
  <2>2. f[n + 1] = IF pattern \in objects[n + 1].matches THEN Append(f[n], objects[n + 1]) ELSE f[n]
    BY <1>1, <2>1
  <2>3. objects[n + 1] \in S
    BY <2>1, ElementOfSeq
  <2>4. QED
    BY <2>2, <2>3, AppendProperties
<1>4. Len(objects) \in Nat
  OBVIOUS
<1> HIDE DEF Good
<1>4a. \A n \in 0..Len(objects) : n \in Good
  BY <1>2, <1>3, <1>4, UpTo
<1>5. Len(objects) \in Good
  BY <1>4, <1>4a
<1>6. QED
  BY <1>1, <1>5 DEF Good

\* As many observations as the limit allows.
Limited(all, limit) == IF limit = NoLimit \/ Len(all) <= limit THEN all ELSE SubSeq(all, 1, limit)

LEMMA LimitedFacts ==
  ASSUME NEW S, NEW all \in Seq(S), NEW limit \in Nat
  PROVE  LET few == Limited(all, limit)
         IN  /\ few \in Seq(S)
             /\ limit = NoLimit \/ Len(all) <= limit => few = all
             /\ limit # NoLimit /\ limit < Len(all)
                  => Len(few) = limit /\ \A i \in 1..limit : few[i] = all[i]
<1>1. CASE limit = NoLimit \/ Len(all) <= limit
  BY <1>1 DEF Limited
<1>2. CASE ~(limit = NoLimit \/ Len(all) <= limit)
  <2>1. Limited(all, limit) = SubSeq(all, 1, limit)
    BY <1>2, Zenon DEF Limited
  <2>2. Len(all) \in Nat /\ limit < Len(all) /\ limit \in Nat /\ 1 \in Int /\ limit \in Int
    BY <1>2
  <2>3. \A i \in 1..limit : all[i] \in S
    BY <2>2, ElementOfSeq
  <2>4. /\ SubSeq(all, 1, limit) \in Seq(S)
        /\ Len(SubSeq(all, 1, limit)) = (IF 1 <= limit THEN limit - 1 + 1 ELSE 0)
        /\ \A i \in 1..(limit - 1 + 1) : SubSeq(all, 1, limit)[i] = all[1 + i - 1]
    BY <2>2, <2>3, SubSeqProperties
  <2> DEFINE few == SubSeq(all, 1, limit)
  <2> HIDE DEF few
  <2>5. few \in Seq(S) /\ Len(few) = limit /\ \A i \in 1..limit : few[i] = all[i]
    BY <2>2, <2>4 DEF few
  <2>6. QED
    BY <1>2, <2>1, <2>5 DEF few
<1>3. QED
  BY <1>1, <1>2

\* To limit what has been taken before is the same as to limit all in the end.
LEMMA LimitedTwice ==
  ASSUME NEW S, NEW some \in Seq(S), NEW more \in Seq(S), NEW limit \in Nat
  PROVE  Limited(Limited(some, limit) \o more, limit) = Limited(some \o more, limit)
<1> DEFINE few == Limited(some, limit)
           left == Limited(few \o more, limit)
           right == Limited(some \o more, limit)
<1>1. CASE limit = NoLimit \/ Len(some) <= limit
  BY <1>1, LimitedFacts
<1>2. CASE limit # NoLimit /\ limit < Len(some)
  <2>0. Len(some) \in Nat /\ Len(more) \in Nat
    OBVIOUS
  <2>1. few \in Seq(S) /\ Len(few) = limit /\ \A i \in 1..limit : few[i] = some[i]
    BY <1>2, LimitedFacts
  <2> HIDE DEF few
  <2>2. /\ few \o more \in Seq(S) /\ Len(few \o more) = limit + Len(more)
        /\ \A i \in 1..limit : (few \o more)[i] = some[i]
    <3>1. /\ few \o more \in Seq(S) /\ Len(few \o more) = Len(few) + Len(more)
          /\ \A i \in 1..(Len(few) + Len(more)) :
               (few \o more)[i] = IF i <= Len(few) THEN few[i] ELSE more[i - Len(few)]
      BY <2>1, ConcatProperties
    <3>2. \A i \in 1..limit : i \in 1..(limit + Len(more)) /\ i <= limit
      BY <2>0
    <3>3. QED
      BY <2>1, <3>1, <3>2
  <2>3. /\ some \o more \in Seq(S) /\ Len(some \o more) = Len(some) + Len(more)
        /\ \A i \in 1..limit : (some \o more)[i] = some[i]
    BY <1>2, <2>0, ConcatProperties
  <2>4. right \in Seq(S) /\ Len(right) = limit /\ \A i \in 1..limit : right[i] = some[i]
    <3> DEFINE all == some \o more
    <3> HIDE DEF all
    <3>1. all \in Seq(S) /\ limit < Len(all) /\ \A i \in 1..limit : all[i] = some[i]
      BY <1>2, <2>0, <2>3 DEF all
    <3>2. Limited(all, limit) \in Seq(S) /\ Len(Limited(all, limit)) = limit
          /\ \A i \in 1..limit : Limited(all, limit)[i] = all[i]
      BY <1>2, <3>1, LimitedFacts
    <3>3. QED
      BY <3>1, <3>2 DEF all
  <2>5. left \in Seq(S) /\ Len(left) = limit /\ \A i \in 1..limit : left[i] = some[i]
    <3> DEFINE all == few \o more
    <3> HIDE DEF all
    <3>1. all \in Seq(S) /\ limit <= Len(all) /\ \A i \in 1..limit : all[i] = some[i]
      BY <1>2, <2>0, <2>2 DEF all
    <3>2. Limited(all, limit) \in Seq(S) /\ Len(Limited(all, limit)) = limit
          /\ \A i \in 1..limit : Limited(all, limit)[i] = all[i]
      <4>1. CASE limit < Len(all)
        BY <1>2, <3>1, <4>1, LimitedFacts
      <4>2. CASE limit = Len(all)
        <5>1. Limited(all, limit) = all
          BY <3>1, <4>2, LimitedFacts
        <5>2. QED
          BY <3>1, <4>2, <5>1
      <4>3. Len(all) \in Nat
        BY <3>1
      <4>4. QED
        BY <3>1, <4>1, <4>2, <4>3
    <3>3. QED
      BY <3>1, <3>2 DEF all
  <2> HIDE DEF left, right
  <2>6. left = right
    BY <2>4, <2>5, SeqEqual
  <2>7. QED
    BY <2>6 DEF left, right, few
<1>3. Len(some) \in Nat
  OBVIOUS
<1>4. QED
  BY <1>1, <1>2, <1>3

-----------------------------------------------------------------------------
(* Answers: one turn of a query *)

FileRecord == [kind : {"none", "whole", "cut", "page"}, version : Nat, old : BOOLEAN]
FolderFields == {"asked", "store", "raw", "due", "spoiled"}

\* What the sources hold, with what they held in the last five minutes.
WorldOK(world) ==
  /\ world \in [version : [AllPaths -> Nat], recent : [AllPaths -> SUBSET Nat], dated : BOOLEAN]
  /\ \A p \in AllPaths : world.version[p] \in world.recent[p] /\ world.recent[p] \subseteq Versions(p)

\* A download that is not old is of a version of the last five minutes.
Fresh(file, path, world) ==
  file.kind = "none" \/ file.old \/ file.version \in world.recent[path]

RawOK(raw, world) ==
  /\ raw \in [AllPaths -> FileRecord]
  /\ \A p \in AllPaths : Fresh(raw[p], p, world)

LEMMA FetchedFacts ==
  ASSUME NEW world, WorldOK(world), NEW path \in AllPaths,
         NEW file \in FileRecord, Fresh(file, path, world), NEW f \in Fetched(file, path, world)
  PROVE  /\ f.how \in {"got", "raised", "refused"}
         /\ f.file \in FileRecord /\ Fresh(f.file, path, world)
         /\ f.how = "got" => ~Outdated(f.file, path, world)
         /\ ~Outdated(file, path, world) => f.file = file
<1>1. world.version[path] \in Nat /\ world.version[path] \in world.recent[path]
  BY DEF WorldOK
<1>2. CASE f = [file |-> file, how |-> "refused"]
  BY <1>2
<1>3. CASE ~Outdated(file, path, world) /\ f = [file |-> file, how |-> "got"]
  BY <1>3
<1>4. ASSUME NEW kind \in {"whole", "page", "cut"}, NEW how \in {"got", "raised"}, Outdated(file, path, world),
             f = [file |-> File(kind, world.version[path]), how |-> how]
      PROVE  /\ f.how \in {"got", "raised", "refused"}
             /\ f.file \in FileRecord /\ Fresh(f.file, path, world)
             /\ ~Outdated(f.file, path, world)
  <2>1. f.file = [kind |-> kind, version |-> world.version[path], old |-> FALSE] /\ f.how = how
    BY <1>4 DEF File
  <2>2. f.file.kind = kind /\ f.file.version = world.version[path] /\ f.file.old = FALSE /\ f.file \in FileRecord
    BY <1>1, <2>1 DEF FileRecord
  <2>3. QED
    BY <1>1, <1>4, <2>1, <2>2 DEF Fresh, Outdated
<1>5. \/ f = [file |-> file, how |-> "refused"]
      \/ ~Outdated(file, path, world) /\ f = [file |-> file, how |-> "got"]
      \/ Outdated(file, path, world) /\ \E kind \in {"whole", "page", "cut"}, how \in {"got", "raised"} :
           f = [file |-> File(kind, world.version[path]), how |-> how]
  <2>1. CASE Outdated(file, path, world)
    BY <2>1 DEF Fetched, Downloads
  <2>2. CASE ~Outdated(file, path, world)
    BY <2>2 DEF Fetched
  <2>3. QED
    BY <2>1, <2>2
<1>6. QED
  BY <1>2, <1>3, <1>4, <1>5

\* A file that need not be fetched is of a version the source may be taken to have.
LEMMA NotOutdated ==
  ASSUME NEW world, WorldOK(world), NEW path \in AllPaths, NEW q, Scheme[q[1]] # "file",
         NEW file \in FileRecord, Fresh(file, path, world), ~Outdated(file, path, world)
  PROVE  /\ file.kind # "none"
         /\ file.version \in Current(q, path, world) /\ file.version \in Versions(path)
<1>1. file.kind # "none"
  BY DEF Outdated
<1>2. CASE world.dated
  <2>1. file.version = world.version[path]
    BY <1>2 DEF Outdated
  <2>2. QED
    BY <1>1, <1>2, <2>1 DEF WorldOK, Current
<1>3. CASE ~world.dated
  <2>1. ~file.old
    BY <1>3 DEF Outdated
  <2>2. file.version \in world.recent[path]
    BY <1>1, <2>1 DEF Fresh
  <2>3. QED
    BY <1>1, <1>3, <2>2 DEF WorldOK, Current
<1>4. QED
  BY <1>2, <1>3

\* What holds of a query of q in a folder after every turn, at which it is at.
Reading(folder, q, at, world) ==
  /\ DOMAIN at = {"folder", "how", "found"}
  /\ at.how \in {"got", "raised", "refused"}
  /\ DOMAIN at.folder = FolderFields
  /\ at.folder.store = folder.store /\ at.folder.due = folder.due /\ at.folder.spoiled = folder.spoiled
  /\ at.folder.asked = IF at.how = "refused" THEN folder.asked ELSE folder.asked \union {q}
  /\ RawOK(at.folder.raw, world)

\* The version of a path that a query has read, and whether all of it was there.
VersionRead(at, q, path, world) ==
  IF Scheme[q[1]] = "file" THEN world.version[path] ELSE at.folder.raw[path].version
WholeRead(at, q, path) == Scheme[q[1]] = "file" \/ at.folder.raw[path].kind = "whole"

\* g is what a query has gathered after each of its n turns.
GatheredAs(at, q, limit, world, n, g) ==
  /\ g \in [0..n -> Seq(Observations)]
  /\ g[0] = <<>>
  /\ \A j \in 1..n :
       g[j] = g[j - 1] \o Matching(Objects[DataPaths[q[1]][j]][VersionRead(at, q, DataPaths[q[1]][j], world)], q[2])
  /\ at.found = Limited(g[n], limit)

\* What holds after n turns without a failure.
Got(at, q, limit, world, n) ==
  /\ Scheme[q[1]] # "file" =>
       \A j \in 1..n : ~Outdated(at.folder.raw[DataPaths[q[1]][j]], DataPaths[q[1]][j], world)
  /\ (\A j \in 1..n : WholeRead(at, q, DataPaths[q[1]][j]))
       => \E g : GatheredAs(at, q, limit, world, n, g)

LEMMA CleanedFacts ==
  ASSUME NEW folder, NEW q, NEW at, NEW world, Reading(folder, q, at, world), at.how = "got",
         q \notin folder.asked
  PROVE  Reading(folder, q, Cleaned(at, q), world) /\ Cleaned(at, q).how = "refused"
<1> DEFINE kept == [at.folder EXCEPT !.asked = @ \ {q}]
           end == [at EXCEPT !.folder.asked = @ \ {q}, !.how = "refused"]
<1>0. DOMAIN at = {"folder", "how", "found"} /\ DOMAIN at.folder = FolderFields
  BY DEF Reading
<1>1. /\ DOMAIN end = {"folder", "how", "found"} /\ end.how = "refused"
      /\ end.folder = kept
  BY <1>0
<1>1a. Cleaned(at, q) = end
  BY DEF Cleaned
<1>2. /\ DOMAIN kept = FolderFields /\ kept.asked = at.folder.asked \ {q}
      /\ kept.store = at.folder.store /\ kept.due = at.folder.due
      /\ kept.spoiled = at.folder.spoiled /\ kept.raw = at.folder.raw
  BY DEF Reading, FolderFields
<1> HIDE DEF kept, end
<1>3. kept.asked = folder.asked
  BY <1>2 DEF Reading
<1>4. QED
  BY <1>1, <1>1a, <1>2, <1>3 DEF Reading

\* The next path has been read in full: what is gathered grows by what matches.
LEMMA GatheredOn ==
  ASSUME NEW q \in QueryIds, NEW limit \in Nat, NEW world, NEW at, NEW next, NEW n \in Nat, n < Len(DataPaths[q[1]]),
         DataPaths[q[1]] \in Seq(AllPaths),
         \A j \in 1..n : VersionRead(next, q, DataPaths[q[1]][j], world) = VersionRead(at, q, DataPaths[q[1]][j], world),
         NEW version \in Versions(DataPaths[q[1]][n + 1]),
         version = VersionRead(next, q, DataPaths[q[1]][n + 1], world),
         next.found = Taken(at.found, Objects[DataPaths[q[1]][n + 1]][version], q[2], limit),
         \E g : GatheredAs(at, q, limit, world, n, g)
  PROVE  \E g : GatheredAs(next, q, limit, world, n + 1, g)
<1> DEFINE path(j) == DataPaths[q[1]][j]
           more == Matching(Objects[path(n + 1)][version], q[2])
           matching(j, v) == Matching(Objects[path(j)][v], q[2])
           turns == 0..(n + 1)
<1>1. PICK g : GatheredAs(at, q, limit, world, n, g)
  OBVIOUS
<1>2. path(n + 1) \in AllPaths
  BY ElementOfSeq
<1>3. more \in Seq(Observations)
  BY <1>2, ObjectsTyped, MatchingType
<1> DEFINE h == [j \in turns |-> IF j = n + 1 THEN g[n] \o more ELSE g[j]]
<1>4. /\ g \in [0..n -> Seq(Observations)] /\ g[0] = <<>> /\ at.found = Limited(g[n], limit)
      /\ \A j \in 1..n : g[j] = g[j - 1] \o matching(j, VersionRead(at, q, path(j), world))
  BY <1>1 DEF GatheredAs
<1>5. next.found = Limited(at.found \o more, limit)
  BY DEF Taken, Limited
<1> HIDE DEF more, matching, path
<1>6. g[n] \in Seq(Observations)
  BY <1>4
<1>7. next.found = Limited(g[n] \o more, limit)
  BY <1>3, <1>4, <1>5, <1>6, LimitedTwice
<1>8. g[n] \o more \in Seq(Observations)
  BY <1>3, <1>6, ConcatProperties
<1>9. \A j \in turns : (j # n + 1 => j \in 0..n) /\ (j = n + 1 => j # 0)
  OBVIOUS
<1>10. h \in [turns -> Seq(Observations)]
  BY <1>4, <1>8, <1>9
<1>11. h[n + 1] = g[n] \o more /\ \A j \in 0..n : h[j] = g[j]
  <2>1. n + 1 \in turns /\ \A j \in 0..n : j \in turns /\ j # n + 1
    OBVIOUS
  <2> HIDE DEF turns
  <2>2. QED
    BY <2>1
<1> HIDE DEF h
<1>12. h[0] = <<>>
  BY <1>4, <1>11
<1>13. ASSUME NEW j \in 1..(n + 1)
       PROVE  h[j] = h[j - 1] \o matching(j, VersionRead(next, q, path(j), world))
  <2>1. CASE j \in 1..n
    <3>1. j \in 0..n /\ j - 1 \in 0..n
      BY <2>1
    <3>2. VersionRead(next, q, path(j), world) = VersionRead(at, q, path(j), world)
      BY <2>1 DEF path
    <3>3. g[j] = g[j - 1] \o matching(j, VersionRead(at, q, path(j), world))
      BY <1>4, <2>1
    <3>4. QED
      BY <1>11, <3>1, <3>2, <3>3
  <2>2. CASE j = n + 1
    <3>1. h[j] = g[n] \o more /\ j - 1 = n /\ n \in 0..n
      BY <1>11, <2>2
    <3>2. more = matching(n + 1, version) /\ version = VersionRead(next, q, path(n + 1), world)
      BY DEF more, matching, path
    <3>3. QED
      BY <1>11, <2>2, <3>1, <3>2
  <2>3. QED
    BY <2>1, <2>2
<1>14. GatheredAs(next, q, limit, world, n + 1, h)
  BY <1>7, <1>10, <1>11, <1>12, <1>13 DEF GatheredAs, turns, matching, path
<1>15. QED
  BY <1>14

LEMMA FileTurn ==
  ASSUME NEW folder, NEW q \in QueryIds, NEW limit \in Nat, NEW world, WorldOK(world), NEW at, NEW next, NEW n \in Nat,
         n < Len(DataPaths[q[1]]), DataPaths[q[1]] \in Seq(AllPaths), q \notin folder.asked,
         Reading(folder, q, at, world), at.how = "got", Got(at, q, limit, world, n), Scheme[q[1]] = "file",
         next \in NextPath(at, q, DataPaths[q[1]][n + 1], limit, world)
  PROVE  /\ Reading(folder, q, next, world)
         /\ next.how = "got" => Got(next, q, limit, world, n + 1)
<1> DEFINE path == DataPaths[q[1]][n + 1]
           objects == Objects[path][world.version[path]]
           more == Taken(at.found, objects, q[2], limit)
<1>1. next = Cleaned(at, q) \/ next = [at EXCEPT !.found = more]
  <2>1. next \in {Cleaned(at, q)} \union TakeBundle(at, q, path, limit, {objects})
    BY Zenon DEF NextPath
  <2>2. TakeBundle(at, q, path, limit, {objects}) = {[at EXCEPT !.found = more]}
    BY DEF TakeBundle
  <2>3. QED
    BY <2>1, <2>2
<1>2. CASE next = Cleaned(at, q)
  BY <1>2, CleanedFacts
<1>3. CASE next = [at EXCEPT !.found = more]
  <2> HIDE DEF more
  <2>1. DOMAIN next = {"folder", "how", "found"} /\ next.folder = at.folder /\ next.how = "got" /\ next.found = more
    BY <1>3 DEF Reading
  <2>2. Reading(folder, q, next, world)
    BY <2>1 DEF Reading
  <2>3. path \in AllPaths
    BY ElementOfSeq
  <2>4. world.version[path] \in Versions(path)
    BY <2>3 DEF WorldOK
  <2>5. \A j \in 1..n : WholeRead(at, q, DataPaths[q[1]][j])
    BY DEF WholeRead
  <2>6. \E g : GatheredAs(at, q, limit, world, n, g)
    BY <2>5 DEF Got
  <2>7. /\ \A j \in 1..n : VersionRead(next, q, DataPaths[q[1]][j], world) = VersionRead(at, q, DataPaths[q[1]][j], world)
        /\ world.version[path] = VersionRead(next, q, path, world)
    BY DEF VersionRead
  <2>8. \E g : GatheredAs(next, q, limit, world, n + 1, g)
    BY <2>1, <2>4, <2>6, <2>7, GatheredOn DEF more
  <2>9. QED
    BY <2>2, <2>8 DEF Got
<1>4. QED
  BY <1>1, <1>2, <1>3

\* What a turn makes of a remote path: it has the file f.
LEMMA RemoteTurn ==
  ASSUME NEW folder, NEW q \in QueryIds, NEW limit \in Nat, NEW world, WorldOK(world), NEW at, NEW next, NEW n \in Nat,
         n < Len(DataPaths[q[1]]), DataPaths[q[1]] \in Seq(AllPaths), q \notin folder.asked,
         Reading(folder, q, at, world), at.how = "got", Got(at, q, limit, world, n), Scheme[q[1]] # "file",
         next \in NextPath(at, q, DataPaths[q[1]][n + 1], limit, world)
  PROVE  /\ Reading(folder, q, next, world)
         /\ next.how = "got" => Got(next, q, limit, world, n + 1)
<1> DEFINE path == DataPaths[q[1]][n + 1]
           file == at.folder.raw[path]
           Having(f) == [at EXCEPT !.folder.raw[path] = f.file]
           Turn(f) == CASE f.how = "refused" -> {Cleaned(Having(f), q)}
                        [] f.how = "raised" -> {[Having(f) EXCEPT !.how = "raised"]}
                        [] f.how = "got" -> TakeBundle(Having(f), q, path, limit, ReadAs(f.file, path))
<1>1. PICK f \in Fetched(file, path, world) : next \in Turn(f)
  <2>1. next \in UNION {Turn(f) : f \in Fetched(file, path, world)}
    BY Zenon DEF NextPath
  <2> HIDE DEF Turn
  <2>2. QED
    BY <2>1
<1>2. path \in AllPaths
  BY ElementOfSeq
<1>3. file \in FileRecord /\ Fresh(file, path, world)
  BY <1>2 DEF Reading, RawOK
<1>4. /\ f.how \in {"got", "raised", "refused"}
      /\ f.file \in FileRecord /\ Fresh(f.file, path, world)
      /\ f.how = "got" => ~Outdated(f.file, path, world)
      /\ ~Outdated(file, path, world) => f.file = file
  BY <1>1, <1>2, <1>3, FetchedFacts
<1> DEFINE here == Having(f)
           raw == [at.folder.raw EXCEPT ![path] = f.file]
           inside == [at.folder EXCEPT !.raw[path] = f.file]
<1>5. /\ DOMAIN at = {"folder", "how", "found"} /\ DOMAIN at.folder = FolderFields
      /\ at.folder.raw \in [AllPaths -> FileRecord] /\ \A p \in AllPaths : Fresh(at.folder.raw[p], p, world)
  BY DEF Reading, RawOK
<1>6. /\ raw \in [AllPaths -> FileRecord] /\ raw[path] = f.file
      /\ \A p \in AllPaths \ {path} : raw[p] = at.folder.raw[p]
  BY <1>2, <1>4, <1>5
<1>7. DOMAIN here = {"folder", "how", "found"} /\ here.how = "got" /\ here.found = at.found /\ here.folder = inside
  BY <1>5
<1>8. /\ DOMAIN inside = FolderFields /\ inside.raw = raw /\ inside.asked = at.folder.asked
      /\ inside.store = at.folder.store /\ inside.due = at.folder.due /\ inside.spoiled = at.folder.spoiled
  BY <1>5 DEF FolderFields
<1> HIDE DEF inside, raw
<1>9. RawOK(raw, world)
  BY <1>4, <1>5, <1>6 DEF RawOK
<1>10. \/ f.how = "refused" /\ next = Cleaned(here, q)
       \/ f.how = "raised" /\ next = [here EXCEPT !.how = "raised"]
       \/ f.how = "got" /\ next = Cleaned(here, q)
       \/ f.how = "got" /\ \E objects \in ReadAs(f.file, path) : next = [here EXCEPT !.found = Taken(@, objects, q[2], limit)]
  <2> HIDE DEF Having
  <2>1. CASE f.how = "refused"
    BY <1>1, <2>1
  <2>2. CASE f.how = "raised"
    BY <1>1, <2>2
  <2>3. CASE f.how = "got"
    <3>1. next \in TakeBundle(here, q, path, limit, ReadAs(f.file, path))
      BY <1>1, <2>3
    <3> DEFINE bundles == ReadAs(f.file, path)
               Taking(objects) == [here EXCEPT !.found = Taken(@, objects, q[2], limit)]
    <3>2. next \in {Taking(objects) : objects \in bundles} \union (IF bundles = {} THEN {Cleaned(here, q)} ELSE {})
      BY <3>1, Zenon DEF TakeBundle
    <3> HIDE DEF bundles, Taking, here
    <3>3. next = Cleaned(here, q) \/ \E objects \in bundles : next = Taking(objects)
      BY <3>2
    <3>4. QED
      BY <2>3, <3>3 DEF bundles, Taking
  <2>4. QED
    BY <1>4, <2>1, <2>2, <2>3
<1> HIDE DEF here, Having, Turn
<1>11. Reading(folder, q, here, world)
  BY <1>7, <1>8, <1>9 DEF Reading
<1>12. CASE next = Cleaned(here, q)
  BY <1>7, <1>11, <1>12, CleanedFacts
<1>13. CASE next = [here EXCEPT !.how = "raised"]
  <2>1. DOMAIN next = {"folder", "how", "found"} /\ next.how = "raised" /\ next.folder = here.folder
    BY <1>7, <1>13
  <2>2. QED
    BY <1>7, <1>11, <2>1 DEF Reading
<1>14. ASSUME f.how = "got", NEW objects \in ReadAs(f.file, path),
              next = [here EXCEPT !.found = Taken(@, objects, q[2], limit)]
       PROVE  Reading(folder, q, next, world) /\ Got(next, q, limit, world, n + 1)
  <2>1. /\ DOMAIN next = {"folder", "how", "found"} /\ next.how = "got" /\ next.folder = here.folder
        /\ next.found = Taken(at.found, objects, q[2], limit)
    BY <1>7, <1>14
  <2>2. Reading(folder, q, next, world)
    BY <1>7, <1>11, <2>1 DEF Reading
  <2>3. next.folder.raw = raw
    BY <1>7, <1>8, <2>1
  <2>4. ASSUME NEW j \in 1..n
        PROVE  /\ DataPaths[q[1]][j] \in AllPaths
               /\ ~Outdated(raw[DataPaths[q[1]][j]], DataPaths[q[1]][j], world)
               /\ raw[DataPaths[q[1]][j]] = at.folder.raw[DataPaths[q[1]][j]]
    <3> DEFINE earlier == DataPaths[q[1]][j]
    <3>1. earlier \in AllPaths
      <4>1. j \in 1..Len(DataPaths[q[1]])
        OBVIOUS
      <4>2. QED
        BY <4>1, ElementOfSeq
    <3>2. ~Outdated(at.folder.raw[earlier], earlier, world)
      BY DEF Got
    <3>3. raw[earlier] = at.folder.raw[earlier]
      <4> HIDE DEF earlier
      <4>1. CASE earlier = path
        BY <1>4, <1>6, <3>2, <4>1
      <4>2. CASE earlier # path
        BY <1>6, <3>1, <4>2
      <4>3. QED
        BY <4>1, <4>2
    <3>4. QED
      BY <3>1, <3>2, <3>3
  <2>5. ~Outdated(raw[path], path, world)
    BY <1>4, <1>6, <1>14
  <2>6. \A j \in 1..(n + 1) : ~Outdated(next.folder.raw[DataPaths[q[1]][j]], DataPaths[q[1]][j], world)
    <3>1. \A j \in 1..(n + 1) : j \in 1..n \/ j = n + 1
      OBVIOUS
    <3>2. QED
      BY <2>3, <2>4, <2>5, <3>1
  <2>7. ASSUME \A j \in 1..(n + 1) : WholeRead(next, q, DataPaths[q[1]][j])
        PROVE  \E g : GatheredAs(next, q, limit, world, n + 1, g)
    <3>1. raw[path].kind = "whole"
      <4>1. n + 1 \in 1..(n + 1)
        OBVIOUS
      <4>2. WholeRead(next, q, path)
        BY <2>7, <4>1
      <4>3. QED
        BY <2>3, <4>2 DEF WholeRead
    <3>2. objects = Objects[path][f.file.version]
      BY <1>6, <1>14, <3>1 DEF ReadAs
    <3>3. f.file.version \in Versions(path)
      BY <1>2, <1>4, <1>14, NotOutdated
    <3>4. \A j \in 1..n : WholeRead(at, q, DataPaths[q[1]][j])
      <4>1. \A j \in 1..n : j \in 1..(n + 1)
        OBVIOUS
      <4>2. QED
        BY <2>3, <2>4, <2>7, <4>1 DEF WholeRead
    <3>5. \E g : GatheredAs(at, q, limit, world, n, g)
      BY <3>4 DEF Got
    <3>6. \A j \in 1..n : VersionRead(next, q, DataPaths[q[1]][j], world) = VersionRead(at, q, DataPaths[q[1]][j], world)
      BY <2>3, <2>4 DEF VersionRead
    <3>7. f.file.version = VersionRead(next, q, path, world)
      BY <1>6, <2>3 DEF VersionRead
    <3>8. next.found = Taken(at.found, Objects[path][f.file.version], q[2], limit)
      BY <2>1, <3>2
    <3>9. QED
      BY <3>3, <3>5, <3>6, <3>7, <3>8, GatheredOn
  <2>8. QED
    BY <2>2, <2>6, <2>7 DEF Got
<1>15. QED
  BY <1>10, <1>12, <1>13, <1>14

\* Every outcome of a query that has no ingest directory yet.
LEMMA QueryFacts ==
  ASSUME NEW folder, NEW q \in QueryIds, NEW limit \in Nat, NEW world, WorldOK(world),
         q \notin folder.asked, DOMAIN folder = FolderFields, RawOK(folder.raw, world),
         DataPaths[q[1]] \in Seq(AllPaths), NEW at \in Query(folder, q, limit, world)
  PROVE  /\ Reading(folder, q, at, world)
         /\ at.how = "got" => Got(at, q, limit, world, Len(DataPaths[q[1]]))
<1> DEFINE paths == DataPaths[q[1]]
           Fine(n, a) == /\ Reading(folder, q, a, world)
                         /\ a.how = "got" => Got(a, q, limit, world, n)
<1>0. PICK f : UnfoldsQuery(f, folder, q, limit, world)
  BY QueryUnfold
<1>1. /\ Query(folder, q, limit, world) = f[Len(paths)]
      /\ \A a \in f[0] : a = Started(folder, q)
      /\ \A n \in 0..Len(paths) : n # 0 => f[n] = Turns(f[n - 1], q, n, limit, world)
  BY <1>0 DEF UnfoldsQuery
<1>2. Fine(0, Started(folder, q))
  <2> DEFINE a == Started(folder, q)
             kept == [folder EXCEPT !.asked = @ \union {q}]
             g == [n \in 0..0 |-> <<>>]
  <2>1. DOMAIN a = {"folder", "how", "found"} /\ a.how = "got" /\ a.found = <<>> /\ a.folder = kept
    BY DEF Started
  <2>2. /\ DOMAIN kept = FolderFields /\ kept.asked = folder.asked \union {q}
        /\ kept.store = folder.store /\ kept.due = folder.due
        /\ kept.spoiled = folder.spoiled /\ kept.raw = folder.raw
    BY DEF FolderFields
  <2> HIDE DEF a, kept
  <2>3. Reading(folder, q, a, world)
    BY <2>1, <2>2 DEF Reading
  <2>4. g \in [0..0 -> Seq(Observations)] /\ g[0] = <<>>
    BY EmptySeq
  <2>5. Limited(<<>>, limit) = <<>>
    <3>1. <<>> \in Seq(Observations) /\ Len(<<>>) = 0
      BY EmptySeq
    <3>2. Len(<<>>) <= limit
      BY <3>1
    <3>3. QED
      BY <3>2 DEF Limited
  <2> HIDE DEF g
  <2>6. GatheredAs(a, q, limit, world, 0, g)
    BY <2>1, <2>4, <2>5 DEF GatheredAs
  <2>7. Got(a, q, limit, world, 0)
    BY <2>6 DEF Got
  <2>8. QED
    BY <2>3, <2>7 DEF a
<1> DEFINE Good == {n \in Nat : \A a \in f[n] : Fine(n, a)}
<1> HIDE DEF Fine
<1>3. 0 \in Good
  BY <1>1, <1>2
<1>4. \A n \in Nat : n < Len(paths) /\ n \in Good => n + 1 \in Good
  <2> SUFFICES ASSUME NEW n \in Nat, n < Len(paths), \A a \in f[n] : Fine(n, a),
                      NEW next \in f[n + 1]
               PROVE  Fine(n + 1, next)
    OBVIOUS
  <2>1. n + 1 \in 0..Len(paths) /\ n + 1 # 0 /\ (n + 1) - 1 = n
    OBVIOUS
  <2>2. f[n + 1] = Turns(f[n], q, n + 1, limit, world)
    BY <1>1, <2>1
  <2>3. PICK a \in f[n] : next \in NextPath(a, q, paths[n + 1], limit, world)
    BY <2>2 DEF Turns
  <2>4. Reading(folder, q, a, world) /\ (a.how = "got" => Got(a, q, limit, world, n))
    BY DEF Fine
  <2>5. CASE a.how # "got"
    <3>1. next = a
      BY <2>3, <2>5 DEF NextPath
    <3>2. QED
      BY <2>4, <2>5, <3>1 DEF Fine
  <2>6. CASE a.how = "got" /\ Scheme[q[1]] = "file"
    BY <2>3, <2>4, <2>6, FileTurn DEF Fine
  <2>7. CASE a.how = "got" /\ Scheme[q[1]] # "file"
    BY <2>3, <2>4, <2>7, RemoteTurn DEF Fine
  <2>8. QED
    BY <2>5, <2>6, <2>7
<1>5. Len(paths) \in Nat
  OBVIOUS
<1> HIDE DEF Good
<1>6. \A n \in 0..Len(paths) : n \in Good
  BY <1>3, <1>4, <1>5, UpTo
<1>7. Len(paths) \in Good
  BY <1>5, <1>6
<1>8. QED
  BY <1>1, <1>7 DEF Good, Fine

-----------------------------------------------------------------------------
(* Answers: what a query that has read all its paths in full is answered *)

LEMMA GotIsDue ==
  ASSUME NEW folder, NEW q \in QueryIds, NEW limit \in Nat, NEW world, WorldOK(world), NEW at,
         DataPaths[q[1]] \in Seq(AllPaths), Reading(folder, q, at, world),
         Got(at, q, limit, world, Len(DataPaths[q[1]])), ReadWhole(at.folder, q) \/ Scheme[q[1]] = "file"
  PROVE  ToSet(at.found) \in Due(q, limit, world)
<1> DEFINE paths == DataPaths[q[1]]
           all == Len(paths)
           read(j) == VersionRead(at, q, paths[j], world)
           v == [j \in 1..all |-> read(j)]
           every == UNION {Versions(p) : p \in AllPaths}
<1>1. all \in Nat /\ \A j \in 1..all : paths[j] \in AllPaths
  BY ElementOfSeq
<1>2. ASSUME NEW j \in 1..all
      PROVE  WholeRead(at, q, paths[j]) /\ read(j) \in Current(q, paths[j], world) /\ read(j) \in Versions(paths[j])
  <2>1. CASE Scheme[q[1]] = "file"
    BY <1>1, <2>1 DEF WholeRead, VersionRead, Current, WorldOK
  <2>2. CASE Scheme[q[1]] # "file"
    <3> DEFINE file == at.folder.raw[paths[j]]
    <3>1. file \in FileRecord /\ Fresh(file, paths[j], world)
      BY <1>1 DEF Reading, RawOK
    <3>2. ~Outdated(file, paths[j], world)
      BY <2>2 DEF Got
    <3>3. /\ file.kind # "none"
          /\ file.version \in Current(q, paths[j], world) /\ file.version \in Versions(paths[j])
      BY <1>1, <2>2, <3>1, <3>2, NotOutdated
    <3>4. paths[j] \in ToSet(paths)
      BY DEF ToSet
    <3>5. file.kind = "whole"
      BY <2>2, <3>3, <3>4 DEF ReadWhole
    <3>6. QED
      BY <2>2, <3>3, <3>5 DEF WholeRead, VersionRead
  <2>3. QED
    BY <2>1, <2>2
<1>3. PICK g : GatheredAs(at, q, limit, world, all, g)
  BY <1>2 DEF Got
<1>4. /\ g[0] = <<>> /\ at.found = Limited(g[all], limit)
      /\ \A j \in 1..all : g[j] = g[j - 1] \o Matching(Objects[paths[j]][read(j)], q[2])
  BY <1>3 DEF GatheredAs
<1> HIDE DEF read
<1>5. PICK f : UnfoldsGathered(f, paths, v, q[2])
  <2> HIDE DEF v
  <2>1. QED
    BY GatheredUnfold
<1>5a. /\ Gathered(paths, v, q[2]) = f[Len(paths)]
       /\ f[0] = <<>>
       /\ \A n \in 0..Len(paths) : n # 0 => f[n] = f[n - 1] \o Matching(Objects[paths[n]][v[n]], q[2])
  <2> HIDE DEF v
  <2>1. QED
    BY <1>5 DEF UnfoldsGathered
<1> DEFINE Good == {n \in Nat : f[n] = g[n]}
<1>6. 0 \in Good
  BY <1>4, <1>5a
<1>7. \A n \in Nat : n < all /\ n \in Good => n + 1 \in Good
  <2> SUFFICES ASSUME NEW n \in Nat, n < all, f[n] = g[n] PROVE f[n + 1] = g[n + 1]
    OBVIOUS
  <2>1. n + 1 \in 0..all /\ n + 1 \in 1..all /\ n + 1 # 0 /\ (n + 1) - 1 = n
    BY <1>1
  <2>2. v[n + 1] = read(n + 1)
    BY <2>1
  <2> HIDE DEF v
  <2>3. f[n + 1] = f[n] \o Matching(Objects[paths[n + 1]][v[n + 1]], q[2])
    BY <1>5a, <2>1
  <2>4. g[n + 1] = g[n] \o Matching(Objects[paths[n + 1]][read(n + 1)], q[2])
    BY <1>4, <2>1
  <2>5. QED
    BY <2>2, <2>3, <2>4
<1> HIDE DEF Good
<1>8. \A n \in 0..all : n \in Good
  BY <1>1, <1>6, <1>7, UpTo
<1>9. Gathered(paths, v, q[2]) = g[all]
  BY <1>1, <1>5a, <1>8 DEF Good
<1>10. v \in [1..all -> every] /\ \A j \in 1..all : v[j] \in Current(q, paths[j], world)
  <2>1. \A j \in 1..all : read(j) \in every
    BY <1>1, <1>2
  <2> HIDE DEF every
  <2>2. QED
    BY <1>2, <2>1
<1>11. at.found = IF limit = NoLimit \/ Len(g[all]) <= limit THEN g[all] ELSE SubSeq(g[all], 1, limit)
  BY <1>4, Zenon DEF Limited
<1> DEFINE limited(s) == IF limit = NoLimit \/ Len(s) <= limit THEN s ELSE SubSeq(s, 1, limit)
           picks == {w \in [1..all -> every] : \A j \in 1..all : w[j] \in Current(q, paths[j], world)}
<1>12. v \in picks
  BY <1>10
<1>13. Due(q, limit, world) = {ToSet(limited(Gathered(paths, w, q[2]))) : w \in picks}
  BY Zenon DEF Due
<1>14. at.found = limited(Gathered(paths, v, q[2]))
  BY <1>9, <1>11
<1> HIDE DEF picks, v, limited
<1>15. QED
  BY <1>12, <1>13, <1>14

\* What holds of a folder between statements.
FolderOK(folder, world) ==
  /\ DOMAIN folder = FolderFields /\ DOMAIN folder.store = QueryIds /\ DOMAIN folder.due = QueryIds
  /\ RawOK(folder.raw, world)
  /\ \A q \in QueryIds :
       /\ q \notin folder.asked => folder.store[q] = {}
       /\ q \in folder.asked /\ q \notin folder.spoiled => folder.store[q] \in folder.due[q]

\* The answer that is loaded after a query that is at at.
Loaded(at, q) == [at.folder EXCEPT !.store[q] = @ \union ToSet(at.found)]

LEMMA RetrievedCases ==
  ASSUME NEW folder, NEW q, NEW limit, NEW world, NEW o \in Retrieved(folder, q, limit, world)
  PROVE  \E at \in Query(folder, q, limit, world) :
           \/ at.how # "got" /\ o = [folder |-> at.folder, how |-> at.how, answer |-> {}]
           \/ at.how = "got" /\ o = [folder |-> Loaded(at, q), how |-> "got", answer |-> Loaded(at, q).store[q]]
           \/ at.how = "got" /\ at.found # <<>> /\ o = [folder |-> at.folder, how |-> "unloaded", answer |-> {}]
<1> DEFINE Outcomes(at) ==
             IF at.how # "got" THEN {[folder |-> at.folder, how |-> at.how, answer |-> {}]}
             ELSE {[folder |-> Loaded(at, q), how |-> "got", answer |-> Loaded(at, q).store[q]]}
                  \union (IF at.found # <<>>
                          THEN {[folder |-> at.folder, how |-> "unloaded", answer |-> {}]} ELSE {})
<1>1. Retrieved(folder, q, limit, world) = UNION {Outcomes(at) : at \in Query(folder, q, limit, world)}
  BY Zenon DEF Retrieved, Loaded
<1>2. PICK at \in Query(folder, q, limit, world) : o \in Outcomes(at)
  <2> HIDE DEF Outcomes
  <2>1. QED
    BY <1>1
<1>3. QED
  BY <1>2

\* A query is asked for the first time.
LEMMA FirstAsked ==
  ASSUME NEW folder, NEW q \in QueryIds, NEW limit \in Nat, WorldOK(server), FolderOK(folder, server),
         q \notin folder.asked, NEW o \in Retrieved(folder, q, limit, server)
  PROVE  /\ FolderOK(Recorded(folder, q, limit, o), server)
         /\ o.how = "got" /\ q \notin Recorded(folder, q, limit, o).spoiled
              => o.answer \in Recorded(folder, q, limit, o).due[q]
<1> DEFINE after == Recorded(folder, q, limit, o)
           bad == o.how \in {"raised", "unloaded"} \/ (o.how = "got" /\ ~ReadWhole(o.folder, q))
           record == Due(q, limit, server)
<1>0. PICK at \in Query(folder, q, limit, server) :
           \/ at.how # "got" /\ o = [folder |-> at.folder, how |-> at.how, answer |-> {}]
           \/ at.how = "got" /\ o = [folder |-> Loaded(at, q), how |-> "got", answer |-> Loaded(at, q).store[q]]
           \/ at.how = "got" /\ at.found # <<>> /\ o = [folder |-> at.folder, how |-> "unloaded", answer |-> {}]
  BY RetrievedCases
<1>1. DataPaths[q[1]] \in Seq(AllPaths)
  BY BundleAssumption DEF QueryIds
<1>2. /\ Reading(folder, q, at, server)
      /\ at.how = "got" => Got(at, q, limit, server, Len(DataPaths[q[1]]))
  BY <1>1, QueryFacts DEF FolderOK
<1>3. /\ DOMAIN at.folder = FolderFields /\ at.folder.store = folder.store /\ at.folder.due = folder.due
      /\ at.folder.spoiled = folder.spoiled /\ RawOK(at.folder.raw, server)
      /\ at.folder.asked = IF at.how = "refused" THEN folder.asked ELSE folder.asked \union {q}
      /\ at.how \in {"got", "raised", "refused"}
  BY <1>2 DEF Reading
<1>4. /\ DOMAIN o.folder = FolderFields /\ DOMAIN o.folder.store = QueryIds /\ DOMAIN o.folder.due = QueryIds
      /\ o.folder.due = folder.due /\ o.folder.spoiled = folder.spoiled
      /\ o.folder.raw = at.folder.raw /\ o.folder.asked = at.folder.asked
      /\ \A r \in QueryIds \ {q} : o.folder.store[r] = folder.store[r]
      /\ o.how # "got" => o.folder.store[q] = {}
      /\ o.how = "got" => /\ at.how = "got" /\ o.folder.store[q] = ToSet(at.found)
                          /\ o.answer = o.folder.store[q]
      /\ o.how \in {"got", "raised", "refused", "unloaded"}
      /\ o.how = "refused" <=> at.how = "refused"
  <2>1. DOMAIN folder.store = QueryIds /\ DOMAIN folder.due = QueryIds /\ folder.store[q] = {}
    BY DEF FolderOK
  <2>2. CASE o.folder = at.folder /\ o.how # "got" /\ (o.how = at.how \/ (o.how = "unloaded" /\ at.how = "got"))
    BY <1>3, <2>1, <2>2
  <2>3. CASE at.how = "got" /\ o.folder = Loaded(at, q) /\ o.how = "got" /\ o.answer = Loaded(at, q).store[q]
    <3> DEFINE new == Loaded(at, q)
    <3>1. /\ DOMAIN new = FolderFields /\ new.due = at.folder.due /\ new.spoiled = at.folder.spoiled
          /\ new.raw = at.folder.raw /\ new.asked = at.folder.asked
          /\ new.store = [at.folder.store EXCEPT ![q] = @ \union ToSet(at.found)]
      BY <1>3 DEF Loaded, FolderFields
    <3> HIDE DEF new
    <3>2. /\ DOMAIN new.store = QueryIds /\ new.store[q] = ToSet(at.found)
          /\ \A r \in QueryIds \ {q} : new.store[r] = folder.store[r]
      BY <1>3, <2>1, <3>1
    <3>3. o.folder = new /\ o.answer = new.store[q]
      BY <2>3 DEF new
    <3>4. QED
      BY <1>3, <2>1, <2>3, <3>1, <3>2, <3>3
  <2>4. QED
    BY <1>0, <1>3, <2>2, <2>3
<1>5. /\ DOMAIN after = FolderFields /\ after.store = o.folder.store /\ after.raw = o.folder.raw
      /\ after.asked = o.folder.asked
      /\ after.due = [o.folder.due EXCEPT ![q] = record]
      /\ after.spoiled = IF bad THEN o.folder.spoiled \union {q} ELSE o.folder.spoiled \ {q}
  <2> DEFINE spoiled == IF bad THEN o.folder.spoiled \union {q} ELSE o.folder.spoiled \ {q}
             end == [o.folder EXCEPT !.due[q] = record, !.spoiled = spoiled]
  <2>1. after = end
    BY Zenon DEF Recorded
  <2> HIDE DEF spoiled, bad, record
  <2>2. /\ DOMAIN end = FolderFields /\ end.store = o.folder.store /\ end.raw = o.folder.raw
        /\ end.asked = o.folder.asked
        /\ end.due = [o.folder.due EXCEPT ![q] = record]
        /\ end.spoiled = spoiled
    BY <1>4 DEF FolderFields
  <2> HIDE DEF end, after
  <2>3. QED
    BY <2>1, <2>2 DEF spoiled
<1>6. record = Due(q, limit, server)
  OBVIOUS
<1> HIDE DEF after, record
<1>7. DOMAIN after.due = QueryIds /\ after.due[q] = record /\ \A r \in QueryIds \ {q} : after.due[r] = folder.due[r]
  BY <1>4, <1>5
<1>8. ASSUME o.how = "got", q \notin after.spoiled
      PROVE  o.folder.store[q] \in Due(q, limit, server)
  <2>1. ReadWhole(o.folder, q)
    BY <1>5, <1>8
  <2>2. ReadWhole(at.folder, q)
    BY <1>4, <2>1 DEF ReadWhole
  <2>3. QED
    BY <1>1, <1>2, <1>4, <1>8, <2>2, GotIsDue
<1>9. ASSUME NEW r \in QueryIds
      PROVE  /\ r \notin after.asked => after.store[r] = {}
             /\ r \in after.asked /\ r \notin after.spoiled => after.store[r] \in after.due[r]
  <2>1. CASE r # q
    <3>1. /\ (r \in after.asked <=> r \in folder.asked) /\ (r \in after.spoiled <=> r \in folder.spoiled)
          /\ after.store[r] = folder.store[r] /\ after.due[r] = folder.due[r]
      BY <1>3, <1>4, <1>5, <1>7, <2>1
    <3>2. QED
      BY <3>1 DEF FolderOK
  <2>2. CASE r = q
    <3>1. CASE o.how = "refused"
      BY <1>3, <1>4, <1>5, <2>2, <3>1
    <3>2. CASE o.how \in {"raised", "unloaded"}
      BY <1>3, <1>4, <1>5, <2>2, <3>2
    <3>3. CASE o.how = "got"
      BY <1>3, <1>4, <1>5, <1>6, <1>7, <1>8, <2>2, <3>3
    <3>4. QED
      BY <1>4, <3>1, <3>2, <3>3
  <2>3. QED
    BY <2>1, <2>2
<1>10. FolderOK(after, server)
  BY <1>3, <1>4, <1>5, <1>7, <1>9 DEF FolderOK
<1>11. o.how = "got" /\ q \notin after.spoiled => o.answer \in after.due[q]
  BY <1>4, <1>6, <1>7, <1>8
<1>12. QED
  BY <1>10, <1>11 DEF after

\* A query whose ingest directory is there is answered from the store.
LEMMA AskedAgain ==
  ASSUME NEW folder, NEW q \in QueryIds, NEW limit \in Nat, FolderOK(folder, server),
         q \in folder.asked, NEW o \in Retrieved(folder, q, limit, server)
  PROVE  /\ FolderOK(Recorded(folder, q, limit, o), server)
         /\ o.how = "got" /\ q \notin Recorded(folder, q, limit, o).spoiled
              => o.answer \in Recorded(folder, q, limit, o).due[q]
<1> DEFINE same == [folder |-> folder, how |-> "got", found |-> <<>>]
           new == Loaded(same, q)
<1>0. PICK at \in Query(folder, q, limit, server) :
           \/ at.how # "got" /\ o = [folder |-> at.folder, how |-> at.how, answer |-> {}]
           \/ at.how = "got" /\ o = [folder |-> Loaded(at, q), how |-> "got", answer |-> Loaded(at, q).store[q]]
           \/ at.how = "got" /\ at.found # <<>> /\ o = [folder |-> at.folder, how |-> "unloaded", answer |-> {}]
  BY RetrievedCases
<1>1. at = same
  <2>1. Query(folder, q, limit, server) = {same}
    BY Zenon DEF Query
  <2>2. QED
    BY <2>1
<1>2. same.how = "got" /\ same.found = <<>> /\ same.folder = folder
  OBVIOUS
<1> HIDE DEF same
<1>3. o.folder = new /\ o.answer = new.store[q]
  BY <1>0, <1>1, <1>2
<1>4. DOMAIN folder = FolderFields /\ DOMAIN folder.store = QueryIds
  BY DEF FolderOK
<1>5. ToSet(<<>>) = {}
  BY DEF ToSet
<1>6. /\ DOMAIN new = FolderFields /\ new.due = folder.due /\ new.spoiled = folder.spoiled
      /\ new.raw = folder.raw /\ new.asked = folder.asked
      /\ new.store = [folder.store EXCEPT ![q] = @ \union ToSet(<<>>)]
  BY <1>2, <1>4 DEF Loaded, FolderFields
<1> HIDE DEF new
<1>7. DOMAIN new.store = QueryIds /\ \A r \in QueryIds : new.store[r] = folder.store[r]
  BY <1>4, <1>5, <1>6
<1>8. FolderOK(new, server)
  BY <1>6, <1>7 DEF FolderOK
<1>9. Recorded(folder, q, limit, o) = new
  BY <1>3 DEF Recorded
<1>10. q \notin new.spoiled => new.store[q] \in new.due[q]
  BY <1>6, <1>8 DEF FolderOK
<1>11. QED
  BY <1>3, <1>8, <1>9, <1>10

-----------------------------------------------------------------------------
(* Answers: the invariant *)

\* Every folder is as queries leave it, of sources as they are now.
AnswerInv ==
  /\ WorldOK(server)
  /\ \A f \in DOMAIN folders : FolderOK(folders[f], server)
  /\ AnswersAreDue

LEMMA NewFolderOK == FolderOK(NewFolder, server)
<1>1. /\ DOMAIN NewFolder = FolderFields /\ DOMAIN NewFolder.store = QueryIds /\ DOMAIN NewFolder.due = QueryIds
      /\ NewFolder.asked = {} /\ NewFolder.raw = [path \in AllPaths |-> NoFile]
      /\ \A q \in QueryIds : NewFolder.store[q] = {}
  BY DEF NewFolder, FolderFields
<1>2. NoFile \in FileRecord /\ NoFile.kind = "none"
  BY DEF NoFile, FileRecord
<1>3. RawOK(NewFolder.raw, server)
  BY <1>1, <1>2 DEF RawOK, Fresh
<1>4. QED
  BY <1>1, <1>3 DEF FolderOK

LEMMA InitAnswers == Init => AnswerInv
<1> SUFFICES ASSUME Init PROVE AnswerInv
  OBVIOUS
<1>1. WorldOK(server)
  <2>1. /\ server \in [version : [AllPaths -> Nat], recent : [AllPaths -> SUBSET Nat], dated : BOOLEAN]
        /\ \A p \in AllPaths : server.version[p] = 1 /\ server.recent[p] = {1}
    BY DEF Init
  <2>2. QED
    BY <2>1, HostAssumption DEF WorldOK
<1>2. \A f \in DOMAIN folders : folders[f] = NewFolder
  BY DEF Init
<1>3. AnswersAreDue
  BY DEF Init, NoResult, AnswersAreDue
<1>4. QED
  BY <1>1, <1>2, <1>3, NewFolderOK DEF AnswerInv

\* A step that answers nothing and changes nothing in a folder.
LEMMA AnswersKept ==
  ASSUME AnswerInv, server' = server, result'.kind # "answer",
         \A f \in DOMAIN folders' :
           (f \in DOMAIN folders /\ folders'[f] = folders[f]) \/ folders'[f] = NewFolder
  PROVE  AnswerInv'
<1>1. \A f \in DOMAIN folders' : FolderOK(folders'[f], server)
  BY NewFolderOK DEF AnswerInv
<1>2. QED
  BY <1>1 DEF AnswerInv, AnswersAreDue

LEMMA GetAnswers ==
  ASSUME NEW s \in Sessions, HostInv, AnswerInv, Get(s)
  PROVE  AnswerInv'
<1> DEFINE here == folders[Folder(s)]
<1>1. Present(s) /\ server' = server
  BY DEF Get, Executes
<1>2. FolderOK(here, server) /\ WorldOK(server)
  BY <1>1 DEF AnswerInv, Present
<1>3. PICK named \in Uris \union {NoSource}, pattern \in Patterns, limit \in Limits :
        \/ result' = [kind |-> "raised"] /\ UNCHANGED <<folders, sessions>>
        \/ /\ SourceOf(s, named) # NoSource
           /\ \E o \in Retrieved(here, <<SourceOf(s, named), pattern>>, limit, server) :
                LET q == <<SourceOf(s, named), pattern>>
                    after == Recorded(here, q, limit, o)
                IN /\ folders' = [folders EXCEPT ![Folder(s)] = after]
                   /\ result' = IF o.how = "got"
                                THEN [kind |-> "answer", answer |-> o.answer,
                                      due |-> after.due[q], spoiled |-> q \in after.spoiled]
                                ELSE [kind |-> "raised"]
  BY ZenonT(60) DEF Get
<1>4. CASE result' = [kind |-> "raised"] /\ UNCHANGED <<folders, sessions>>
  <2>1. result'.kind # "answer"
    BY <1>4
  <2>2. QED
    BY <1>1, <1>4, <2>1, AnswersKept
<1> DEFINE q == <<SourceOf(s, named), pattern>>
           Outcome(o) ==
             LET after == Recorded(here, q, limit, o)
             IN /\ folders' = [folders EXCEPT ![Folder(s)] = after]
                /\ result' = IF o.how = "got"
                             THEN [kind |-> "answer", answer |-> o.answer,
                                   due |-> after.due[q], spoiled |-> q \in after.spoiled]
                             ELSE [kind |-> "raised"]
<1>5. ASSUME SourceOf(s, named) # NoSource, NEW o \in Retrieved(here, q, limit, server), Outcome(o)
      PROVE  AnswerInv'
  <2> DEFINE after == Recorded(here, q, limit, o)
  <2>1. q \in QueryIds /\ limit \in Nat
    <3>1. sessions[s].source \in Uris \union {NoSource}
      BY DEF HostInv, SessionsOK, SessionRecord
    <3>2. SourceOf(s, named) \in Uris
      BY <1>5, <3>1 DEF SourceOf
    <3>3. QED
      BY <3>2, HostAssumption DEF QueryIds
  <2>2. /\ folders' = [folders EXCEPT ![Folder(s)] = after]
        /\ result' = IF o.how = "got"
                     THEN [kind |-> "answer", answer |-> o.answer,
                           due |-> after.due[q], spoiled |-> q \in after.spoiled]
                     ELSE [kind |-> "raised"]
    BY <1>5
  <2> HIDE DEF q, here, Outcome
  <2>3. FolderOK(after, server) /\ (o.how = "got" /\ q \notin after.spoiled => o.answer \in after.due[q])
    BY <1>2, <1>5, <2>1, FirstAsked, AskedAgain
  <2> HIDE DEF after
  <2>4. \A f \in DOMAIN folders' : FolderOK(folders'[f], server)
    BY <2>2, <2>3 DEF AnswerInv
  <2>5. AnswersAreDue'
    BY <2>2, <2>3 DEF AnswersAreDue
  <2>6. QED
    BY <1>1, <1>2, <2>4, <2>5 DEF AnswerInv
<1>6. QED
  BY <1>3, <1>4, <1>5

LEMMA ChangesAnswers ==
  ASSUME AnswerInv, BundleChanges
  PROVE  AnswerInv'
<1>1. PICK p \in Changing :
        /\ server.version[p] < MaxVersions
        /\ server' = [server EXCEPT !.version[p] = @ + 1, !.recent[p] = @ \union {server.version[p] + 1}]
  BY DEF BundleChanges
<1>2. p \in AllPaths /\ MaxVersions \in Nat /\ 1..MaxVersions \subseteq Versions(p)
  BY HostAssumption
<1>3. /\ server \in [version : [AllPaths -> Nat], recent : [AllPaths -> SUBSET Nat], dated : BOOLEAN]
      /\ \A r \in AllPaths : server.version[r] \in server.recent[r] /\ server.recent[r] \subseteq Versions(r)
  BY DEF AnswerInv, WorldOK
<1> DEFINE version == [server.version EXCEPT ![p] = @ + 1]
           recent == [server.recent EXCEPT ![p] = @ \union {server.version[p] + 1}]
           next == server.version[p] + 1
<1>4. /\ server'.version = version /\ server'.recent = recent /\ server'.dated = server.dated
      /\ server' = [version |-> version, recent |-> recent, dated |-> server.dated]
  BY <1>1, <1>3
<1>5. server.version[p] \in Nat /\ next \in Nat /\ next \in Versions(p)
  BY <1>1, <1>2, <1>3
<1> HIDE DEF next
<1>6. /\ version \in [AllPaths -> Nat] /\ version[p] = next
      /\ \A r \in AllPaths \ {p} : version[r] = server.version[r]
  BY <1>2, <1>3, <1>5 DEF next
<1>7. /\ recent \in [AllPaths -> SUBSET Nat] /\ recent[p] = server.recent[p] \union {next}
      /\ \A r \in AllPaths \ {p} : recent[r] = server.recent[r]
  BY <1>2, <1>3, <1>5 DEF next
<1> HIDE DEF version, recent
<1>8. WorldOK(server')
  <2>1. server' \in [version : [AllPaths -> Nat], recent : [AllPaths -> SUBSET Nat], dated : BOOLEAN]
    BY <1>3, <1>4, <1>6, <1>7
  <2>2. ASSUME NEW r \in AllPaths
        PROVE  server'.version[r] \in server'.recent[r] /\ server'.recent[r] \subseteq Versions(r)
    BY <1>3, <1>4, <1>5, <1>6, <1>7
  <2>3. QED
    BY <2>1, <2>2 DEF WorldOK
<1>9. \A r \in AllPaths : server.recent[r] \subseteq server'.recent[r]
  BY <1>4, <1>7
<1>10. ASSUME NEW f \in DOMAIN folders PROVE FolderOK(folders[f], server')
  <2>1. FolderOK(folders[f], server)
    BY DEF AnswerInv
  <2>2. RawOK(folders[f].raw, server')
    BY <1>9, <2>1 DEF FolderOK, RawOK, Fresh
  <2>3. QED
    BY <2>1, <2>2 DEF FolderOK
<1>11. folders' = folders /\ result' = NoResult
  BY DEF BundleChanges
<1>12. AnswersAreDue'
  BY <1>11 DEF NoResult, AnswersAreDue
<1>13. QED
  BY <1>8, <1>10, <1>11, <1>12 DEF AnswerInv

LEMMA TimeAnswers ==
  ASSUME AnswerInv, FiveMinutesPass
  PROVE  AnswerInv'
<1> DEFINE recent == [p \in AllPaths |-> {server.version[p]}]
           Aged(raw) == [p \in AllPaths |-> IF raw[p].kind = "none" THEN NoFile ELSE [raw[p] EXCEPT !.old = TRUE]]
<1>1. /\ server \in [version : [AllPaths -> Nat], recent : [AllPaths -> SUBSET Nat], dated : BOOLEAN]
      /\ \A r \in AllPaths : server.version[r] \in server.recent[r] /\ server.recent[r] \subseteq Versions(r)
  BY DEF AnswerInv, WorldOK
<1>2. server' = [server EXCEPT !.recent = recent]
  BY DEF FiveMinutesPass
<1>3. recent \in [AllPaths -> SUBSET Nat] /\ \A r \in AllPaths : recent[r] = {server.version[r]}
  BY <1>1
<1> HIDE DEF recent
<1>4. /\ server'.version = server.version /\ server'.recent = recent
      /\ server' \in [version : [AllPaths -> Nat], recent : [AllPaths -> SUBSET Nat], dated : BOOLEAN]
  BY <1>1, <1>2, <1>3
<1>5. WorldOK(server')
  BY <1>1, <1>3, <1>4 DEF WorldOK
<1>6. /\ folders' = [f \in DOMAIN folders |-> [folders[f] EXCEPT !.raw = Aged(@)]]
      /\ result' = NoResult
  BY DEF FiveMinutesPass
<1>7. ASSUME NEW f \in DOMAIN folders PROVE FolderOK([folders[f] EXCEPT !.raw = Aged(@)], server')
  <2> DEFINE folder == folders[f]
             raw == Aged(folder.raw)
             after == [folders[f] EXCEPT !.raw = Aged(@)]
  <2>1. FolderOK(folder, server)
    BY DEF AnswerInv
  <2>2. NoFile \in FileRecord /\ NoFile.kind = "none"
    BY DEF NoFile, FileRecord
  <2>3. \A file \in FileRecord : [file EXCEPT !.old = TRUE] \in FileRecord /\ [file EXCEPT !.old = TRUE].old
    BY DEF FileRecord
  <2>4. folder.raw \in [AllPaths -> FileRecord]
    BY <2>1 DEF FolderOK, RawOK
  <2>5. \A p \in AllPaths : raw[p] \in FileRecord /\ (raw[p].kind = "none" \/ raw[p].old)
    BY <2>2, <2>3, <2>4
  <2>6. RawOK(raw, server')
    <3>1. raw \in [AllPaths -> FileRecord]
      BY <2>5
    <3> HIDE DEF raw
    <3>2. QED
      BY <2>5, <3>1 DEF RawOK, Fresh
  <2>7. /\ DOMAIN after = FolderFields /\ after.raw = raw /\ after.asked = folder.asked
        /\ after.store = folder.store /\ after.due = folder.due /\ after.spoiled = folder.spoiled
    <3>1. DOMAIN folder = FolderFields
      BY <2>1 DEF FolderOK
    <3> HIDE DEF Aged
    <3>2. QED
      BY <3>1 DEF FolderFields
  <2> HIDE DEF after, raw, folder
  <2>8. FolderOK(after, server')
    BY <2>1, <2>6, <2>7 DEF FolderOK
  <2>9. QED
    BY <2>8 DEF after
<1>8. \A f \in DOMAIN folders' : FolderOK(folders'[f], server')
  <2> HIDE DEF Aged
  <2>1. QED
    BY <1>6, <1>7
<1>9. AnswersAreDue'
  BY <1>6 DEF NoResult, AnswersAreDue
<1>10. QED
  BY <1>5, <1>8, <1>9 DEF AnswerInv

LEMMA NextAnswers == HostInv /\ AnswerInv /\ [Next]_vars => AnswerInv'
<1> SUFFICES ASSUME HostInv, AnswerInv, [Next]_vars PROVE AnswerInv'
  OBVIOUS
<1>1. ASSUME server' = server, result'.kind # "answer", folders' = folders
      PROVE  AnswerInv'
  BY <1>1, AnswersKept
<1>2. NoResult.kind # "answer"
  BY DEF NoResult
<1>3. ASSUME NEW f, server' = server, result' = NoResult, folders' = Without(f)
      PROVE  AnswerInv'
  <2>1. \A g \in DOMAIN folders' : g \in DOMAIN folders /\ folders'[g] = folders[g]
    BY <1>3 DEF Without, Restrict
  <2>2. QED
    BY <1>2, <1>3, <2>1, AnswersKept
<1>4. ASSUME NEW s \in Sessions, Create(s) PROVE AnswerInv'
  <2>1. PICK f \in Folders : folders' = With(f)
    BY <1>4 DEF Create
  <2>2. \A g \in DOMAIN folders' : (g \in DOMAIN folders /\ folders'[g] = folders[g]) \/ folders'[g] = NewFolder
    BY <2>1 DEF With
  <2>3. server' = server /\ result' = NoResult
    BY <1>4 DEF Create
  <2>4. QED
    BY <1>2, <2>2, <2>3, AnswersKept
<1>5. ASSUME NEW s \in Sessions, Unlink(s) \/ Link(s) \/ Start(s) \/ Swept(s) \/ Crash(s)
      PROVE  AnswerInv'
  BY <1>1, <1>2, <1>5 DEF Unlink, Link, Start, Swept, Crash
<1>6. ASSUME NEW s \in Sessions, NotEntered(s) PROVE AnswerInv'
  BY <1>1, <1>6 DEF NotEntered, Executes
<1>7. ASSUME NEW s \in Sessions, Apply(s) PROVE AnswerInv'
  <2>1. server' = server /\ folders' = folders
    BY <1>7 DEF Apply, Executes
  <2>2. result'.kind # "answer"
    BY <1>7 DEF Apply
  <2>3. QED
    BY <1>1, <2>1, <2>2
<1>8. ASSUME NEW s \in Sessions, Close(s) PROVE AnswerInv'
  <2>1. server' = server /\ result' = NoResult /\ (folders' = folders \/ folders' = Without(Folder(s)))
    BY <1>8 DEF Close
  <2>2. QED
    BY <1>1, <1>2, <1>3, <2>1
<1>9. ASSUME NEW s \in Sessions, Sweep(s) PROVE AnswerInv'
  <2>1. server' = server /\ result' = NoResult
        /\ (folders' = folders \/ folders' = Without(Head(sessions[s].todo)))
    BY <1>9 DEF Sweep
  <2>2. QED
    BY <1>1, <1>2, <1>3, <2>1
<1>10. CASE UNCHANGED vars
  BY <1>10 DEF vars, AnswerInv, AnswersAreDue
<1>11. ASSUME NEW s \in Sessions, Get(s) PROVE AnswerInv'
  BY <1>11, GetAnswers
<1>12. QED
  BY <1>4, <1>5, <1>6, <1>7, <1>8, <1>9, <1>10, <1>11, ChangesAnswers, TimeAnswers DEF Next

\* Whatever queries have failed before, whatever was downloaded before and
\* however often the sources have changed: an answer is what a reader of all the
\* data paths gets, unless a failure that does not clean up, a download that is
\* not whole or another limit has spoiled it.
THEOREM AnswersDue == Spec => []AnswersAreDue
<1>1. AnswerInv => AnswersAreDue
  BY DEF AnswerInv
<1>2. QED
  BY <1>1, InitAnswers, NextAnswers, HostInvariant, PTL DEF Spec
=============================================================================
