------------------------ MODULE CommentComposer_proofs ------------------------
(***************************************************************************)
(* Proof that the box of a comment loses nothing, sends nothing twice and  *)
(* sends everything to its thread, but for the named exceptions, for every *)
(* number of threads, words, files, objects of the class and comments.     *)
(*                                                                         *)
(* What is not settled (sent, being sent, removed, forgone) is in the      *)
(* stored draft of its thread (StoreHasIt), and whatever may replace that  *)
(* draft has it too: the box (BoxHasIt) and the draft that an upload of    *)
(* the mounted object starts from (UploadHasIt). What is settled is in no  *)
(* other call and no draft, unless it came back (SentOnce). Every handler  *)
(* is first brought to one of eight shapes (Step), and the invariant is    *)
(* proved shape by shape.                                                  *)
(***************************************************************************)
EXTENDS CommentComposer, TLAPS

WrittenTerms == {w \in Terms : written[w] # "nowhere"}
WrittenFiles == {f \in Attachments : written[f] # "nowhere"}
Written == WrittenTerms \cup WrittenFiles

Texts  == [words : SUBSET WrittenTerms, files : SUBSET WrittenFiles, up : SUBSET WrittenFiles]
Stored == Texts \cup {NoReply}

Screens  == [object : 1..ReplyMounts, thread : Threads, draft : Texts, invalid : BOOLEAN,
             recalled : SUBSET WrittenTerms]
Requests == [file : WrittenFiles, thread : Threads, object : 1..reply.object]
Submissions ==
  [kind : {"message", "command"}, stage : {"message", "command", "execution", "answer"},
   object : 1..reply.object, thread : Threads, words : SUBSET WrittenTerms,
   files : SUBSET WrittenFiles, shown : Texts]
Answers == [to : Threads, words : SUBSET WrittenTerms, files : SUBSET WrittenFiles]

CommentTypes ==
  /\ reply \in Screens
  /\ lastThread \in [1..ReplyMounts -> Threads]
  /\ replyDrafts \in [Threads -> Stored]
  /\ draftsForPost \in [1..ReplyMounts -> [Threads -> Stored]]
  /\ attaching \subseteq Requests
  /\ calls \subseteq Submissions
  /\ replies \in Seq(Answers)
  /\ written \in [Terms \cup Attachments -> Threads \cup {"nowhere"}]

\* An upload under way starts from a draft.
Remembered == \A u \in attaching : draftsForPost[u.object][u.thread] # NoReply

\* Written in the thread, or brought there by an unknown command.
In(tokens, c) == \A t \in tokens : written[t] = c \/ t \in misplaced

Located ==
  /\ misplaced \subseteq forgone \cap resurfaced
  /\ In(Parts(reply.draft), reply.thread)
  /\ \A c \in Threads : In(Parts(replyDrafts[c]), c)
  /\ \A o \in 1..ReplyMounts, c \in Threads : In(Parts(draftsForPost[o][c]), c)
  /\ \A u \in attaching : written[u.file] = u.thread
  /\ \A s \in calls : In(s.words \cup s.files \cup Parts(s.shown), s.thread)

CallParts(s) == s.words \cup s.files
InCalls   == {t \in Terms \cup Attachments : \E s \in calls : t \in CallParts(s)}
InReplies == {t \in Terms \cup Attachments : \E p \in ToSet(replies) : t \in p.words \cup p.files}
Sending   == InCalls \cup InReplies

\* Only a command has the first two stages, its files are given up, and what
\* waits for the answer of the server was handed over.
CommandsMeanIt ==
  \A s \in calls : /\ s.stage \in {"command", "execution"} => s.kind = "command"
                   /\ s.kind = "command" => s.files \subseteq forgone
                   /\ s.stage = "answer" => CallParts(s) \subseteq InReplies

FilesOf(d) == IF d = NoReply THEN {} ELSE d.files

\* The files that something has, other than their upload.
FilesHad ==
  {f \in Attachments :
     \/ f \in Sending \cup reply.draft.files
     \/ \E c \in Threads : f \in FilesOf(replyDrafts[c])
     \/ \E o \in 1..ReplyMounts, c \in Threads : f \in FilesOf(draftsForPost[o][c])
     \/ \E s \in calls : f \in s.shown.files}

OneUpload ==
  /\ \A u, v \in attaching : u.file = v.file => u = v
  /\ \A u \in attaching : u.file \notin FilesHad

\* The call is a command that the box may still show.
OnScreen(s) == s.kind = "command" /\ s.object = reply.object

ShownCalls == {t \in Terms \cup Attachments : \E s \in calls : OnScreen(s) /\ t \in CallParts(s)}

\* What is being sent, or was, is in no other call and in no draft that can
\* come to the box or to the store, unless it came back.
SentOnce ==
  /\ \A s, v \in calls : s # v => CallParts(s) \cap CallParts(v) \subseteq resurfaced
  /\ \A s \in calls : s.stage # "answer" => CallParts(s) \cap InReplies \subseteq resurfaced
  /\ \A c \in Threads : Parts(replyDrafts[c]) \cap Sending \subseteq resurfaced
  /\ \A u \in attaching :
        u.object = reply.object =>
          Parts(draftsForPost[u.object][u.thread]) \cap Sending \subseteq resurfaced
  /\ Parts(reply.draft) \cap Sending \subseteq resurfaced \cup ShownCalls

\* What is not only in a draft or an upload.
Settled == removed \cup forgone \cup Sending

Held(d) == IF d = NoReply THEN {} ELSE d.words \cup d.files

\* The draft of its thread has what is written, and so have the box that shows
\* the thread and the draft that an upload of the mounted object starts from.
StoreHasIt  == \A t \in Written \ Settled : (\E u \in attaching : u.file = t)
                                            \/ t \in Held(replyDrafts[written[t]])
BoxHasIt    == Held(replyDrafts[reply.thread]) \ Settled \subseteq Held(reply.draft)
UploadHasIt ==
  \A u \in attaching :
     u.object = reply.object =>
       Held(replyDrafts[u.thread]) \ Settled \subseteq Held(draftsForPost[u.object][u.thread])

CommentInv ==
  /\ CommentTypes /\ Remembered /\ CommandsMeanIt /\ Located /\ OneUpload /\ SentOnce
  /\ StoreHasIt /\ BoxHasIt /\ UploadHasIt
  /\ RepliedOnce /\ RightThread

----------------------------------------------------------------------------
(* Types.                                                                  *)

\* What has been written stays written, so the types only grow.
WrittenGrows ==
  /\ written' \in [Terms \cup Attachments -> Threads \cup {"nowhere"}]
  /\ \A t \in Terms \cup Attachments : written[t] # "nowhere" => written'[t] = written[t]

LEMMA TypesGrow ==
  ASSUME CommentTypes, WrittenGrows
  PROVE  /\ WrittenTerms \subseteq WrittenTerms' /\ WrittenFiles \subseteq WrittenFiles'
         /\ Texts \subseteq Texts' /\ Stored \subseteq Stored' /\ Screens \subseteq Screens'
         /\ Answers \subseteq Answers' /\ [Threads -> Stored] \subseteq [Threads -> Stored']
<1>1. WrittenTerms \subseteq WrittenTerms' /\ WrittenFiles \subseteq WrittenFiles'
  BY DEF WrittenTerms, WrittenFiles, WrittenGrows
<1>2. Texts \subseteq Texts'
  BY <1>1 DEF Texts
<1> QED
  BY <1>1, <1>2 DEF Stored, Answers, Screens

LEMMA TypesStep ==
  ASSUME CommentTypes, WrittenGrows,
         reply' \in Screens', reply.object <= reply'.object,
         lastThread' \in [1..ReplyMounts -> Threads],
         replyDrafts' = replyDrafts \/ replyDrafts' \in [Threads -> Stored'],
         draftsForPost' = draftsForPost \/ draftsForPost' \in [1..ReplyMounts -> [Threads -> Stored']],
         \A u \in attaching' : u \in attaching \/ u \in Requests',
         \A s \in calls' : s \in calls \/ s \in Submissions',
         replies' = replies \/ \E p \in Answers' : replies' = Append(replies, p)
  PROVE  CommentTypes'
<1>1. 1..reply.object \subseteq 1..reply'.object
  BY DEF CommentTypes, Screens
<1>2. Submissions \subseteq Submissions' /\ Requests \subseteq Requests'
  BY <1>1, TypesGrow DEF Submissions, Requests
<1>3. Seq(Answers) \subseteq Seq(Answers')
  BY TypesGrow
<1>4. replies' \in Seq(Answers')
  BY <1>3 DEF CommentTypes
<1>5. replyDrafts' \in [Threads -> Stored'] /\ draftsForPost' \in [1..ReplyMounts -> [Threads -> Stored']]
  BY TypesGrow DEF CommentTypes
<1> QED
  BY <1>2, <1>4, <1>5 DEF CommentTypes, WrittenGrows

LEMMA TextFacts ==
  ASSUME CommentTypes
  PROVE  /\ NoText \in Texts /\ NoReply \in Stored /\ NoReply \notin Texts /\ Texts \subseteq Stored
         /\ \A d \in Stored : d # NoReply => d \in Texts
         /\ \A d \in Texts : /\ d.words \subseteq WrittenTerms /\ d.files \subseteq WrittenFiles
                             /\ d.up \subseteq WrittenFiles
                             /\ Parts(d) = d.words \cup d.files \cup d.up
                             /\ Held(d) = d.words \cup d.files /\ FilesOf(d) = d.files
                             /\ [d EXCEPT !.up = {}] \in Texts
         /\ Parts(NoReply) = {} /\ Held(NoReply) = {} /\ FilesOf(NoReply) = {}
<1>1. NoReply \notin Texts
  BY CommentAssumption DEF NoReply, Texts, WrittenTerms
<1> QED
  BY <1>1 DEF Texts, Stored, NoText, Parts, Held, FilesOf

LEMMA ScreenTypes ==
  ASSUME CommentTypes
  PROVE  /\ reply.thread \in Threads /\ reply.object \in 1..ReplyMounts /\ reply.draft \in Texts
         /\ reply.invalid \in BOOLEAN /\ reply.recalled \subseteq WrittenTerms
         /\ reply = [object |-> reply.object, thread |-> reply.thread, draft |-> reply.draft,
                     invalid |-> reply.invalid, recalled |-> reply.recalled]
         /\ \A c \in Threads : ReplyDraft(c) \in Texts /\ Shown(c) \in Texts
                               /\ replyDrafts[c] \in Stored
<1>1. \A c \in Threads : ReplyDraft(c) \in Texts
  BY TextFacts DEF CommentTypes, ReplyDraft
<1> QED
  BY <1>1, TextFacts DEF CommentTypes, Screens, Shown

\* What an object shows after a step that changes these fields.
LEMMA ScreenStep ==
  ASSUME CommentTypes, NEW c \in Threads, NEW d \in Texts, NEW i \in BOOLEAN,
         NEW r \in SUBSET WrittenTerms,
         reply' = [object |-> reply.object, thread |-> c, draft |-> d, invalid |-> i, recalled |-> r]
  PROVE  reply' \in Screens /\ reply.object <= reply'.object
BY ScreenTypes DEF Screens

LEMMA MemoryAfter ==
  ASSUME CommentTypes, NEW o \in 1..ReplyMounts, NEW c \in Threads, NEW draft,
         draftsForPost' = [draftsForPost EXCEPT ![o][c] = draft],
         NEW p \in 1..ReplyMounts, NEW q \in Threads
  PROVE  draftsForPost'[p][q] = IF p = o /\ q = c THEN draft ELSE draftsForPost[p][q]
BY DEF CommentTypes

LEMMA StoreAfter ==
  ASSUME CommentTypes, NEW c \in Threads, NEW draft,
         replyDrafts' = [replyDrafts EXCEPT ![c] = draft], NEW q \in Threads
  PROVE  replyDrafts'[q] = IF q = c THEN draft ELSE replyDrafts[q]
BY DEF CommentTypes

LEMMA SameWritten ==
  ASSUME CommentTypes, UNCHANGED written
  PROVE  /\ WrittenGrows /\ Texts' = Texts /\ Stored' = Stored /\ WrittenTerms' = WrittenTerms
         /\ WrittenFiles' = WrittenFiles /\ Screens' = Screens /\ Answers' = Answers
BY DEF WrittenGrows, CommentTypes, Texts, Stored, WrittenTerms, WrittenFiles, Screens, Answers

LEMMA EntryTypes ==
  ASSUME CommentTypes, NEW t \in Terms \cup Attachments, written[t] = "nowhere",
         written' = [written EXCEPT ![t] = reply.thread]
  PROVE  WrittenGrows /\ (t \in Terms => t \in WrittenTerms') /\ (t \in Attachments => t \in WrittenFiles')
BY ScreenTypes, CommentAssumption DEF WrittenGrows, CommentTypes, WrittenTerms, WrittenFiles

LEMMA RequestOf ==
  ASSUME CommentTypes, NEW u \in attaching
  PROVE  /\ u.object \in 1..ReplyMounts /\ u.object \in 1..reply.object /\ u.thread \in Threads
         /\ u.file \in WrittenFiles /\ draftsForPost[u.object][u.thread] \in Stored
         /\ u = [file |-> u.file, thread |-> u.thread, object |-> u.object]
<1>1. 1..reply.object \subseteq 1..ReplyMounts
  BY ScreenTypes, CommentAssumption
<1>2. u.object \in 1..ReplyMounts /\ u.thread \in Threads
  BY <1>1 DEF CommentTypes, Requests
<1> QED
  BY <1>2 DEF CommentTypes, Requests

LEMMA CallOf ==
  ASSUME CommentTypes, NEW s \in calls
  PROVE  /\ s \in Submissions /\ s.object \in 1..ReplyMounts /\ s.object \in 1..reply.object
         /\ s.thread \in Threads /\ lastThread[s.object] \in Threads
         /\ s.words \subseteq WrittenTerms /\ s.files \subseteq WrittenFiles /\ s.shown \in Texts
         /\ s.stage \in {"message", "command", "execution", "answer"} /\ s.kind \in {"message", "command"}
<1>1. 1..reply.object \subseteq 1..ReplyMounts
  BY ScreenTypes, CommentAssumption
<1>2. s \in Submissions
  BY DEF CommentTypes
<1> QED
  BY <1>1, <1>2 DEF CommentTypes, Submissions


----------------------------------------------------------------------------
(* What the steps do, in the terms that the proofs use.                    *)

\* The user writes: a draft, from the one on the screen or in the store and
\* something new, is stored and shown.
Wrote(draft, source, new) ==
  /\ draft \in Texts' /\ source \in {reply.draft, ReplyDraft(reply.thread)}
  /\ replyDrafts' = [replyDrafts EXCEPT ![reply.thread] = draft]
  /\ reply' \in Screens' /\ reply'.object = reply.object /\ reply'.thread = reply.thread
  /\ reply'.draft = draft
  /\ \/ draftsForPost' = [draftsForPost EXCEPT ![reply.object][reply.thread] = draft]
     \/ UNCHANGED <<draftsForPost, attaching>> /\ (Attaching(reply.thread) => new \subseteq forgone')
  /\ new \subseteq Terms \cup Attachments /\ WrittenGrows
  /\ \A t \in new : written[t] = "nowhere" /\ written'[t] = reply.thread
  /\ \A t \in Terms \cup Attachments : t \notin new => written'[t] = written[t]
  /\ Parts(draft) \subseteq Parts(source) \cup new /\ draft.files \subseteq source.files
  /\ new \subseteq Held(draft) \cup {t \in Attachments : \E u \in attaching' : u.file = t}
  /\ Held(source) \ (removed' \cup forgone') \subseteq Held(draft)
  /\ Held(draft) \subseteq Held(source) \cup new
  /\ \A u \in attaching' : \/ u \in attaching
                           \/ u.file \in new \cap Attachments
                              /\ u = [file |-> u.file, thread |-> reply.thread, object |-> reply.object]
                              /\ draftsForPost' = [draftsForPost EXCEPT ![reply.object][reply.thread] = draft]
  /\ \A u, v \in attaching' : u \notin attaching /\ v \notin attaching => u = v
  /\ \A u \in attaching \ attaching' : u.file \in removed'
  /\ source = ReplyDraft(reply.thread) \/ Parts(draft) \cap InCommands \subseteq resurfaced'
  /\ removed \subseteq removed' /\ forgone \subseteq forgone' /\ resurfaced \subseteq resurfaced'
  /\ UNCHANGED <<lastThread, calls, replies, misplaced>>

\* A word is added to the draft on the screen, which is stored and shown.
LEMMA WordWritten ==
  ASSUME CommentTypes, NEW w \in Terms, TypeReply(w) \/ PasteReply(w)
  PROVE  \E draft, source : Wrote(draft, source, {w})
<1>1. /\ reply.draft \in Texts /\ ReplyDraft(reply.thread) \in Texts /\ reply.thread \in Threads
      /\ reply = [object |-> reply.object, thread |-> reply.thread, draft |-> reply.draft,
                  invalid |-> reply.invalid, recalled |-> reply.recalled]
  BY ScreenTypes
<1>2. written[w] = "nowhere" /\ written' = [written EXCEPT ![w] = reply.thread]
  BY DEF TypeReply, PasteReply
<1>3. /\ written'[w] = reply.thread
      /\ \A t \in Terms \cup Attachments : t # w => written'[t] = written[t]
  BY <1>2 DEF CommentTypes
<1>4. ASSUME NEW source \in Texts, NEW draft, NEW i \in BOOLEAN, NEW r \in SUBSET WrittenTerms,
             draft = [source EXCEPT !.words = @ \cup {w}],
             reply' = [object |-> reply.object, thread |-> reply.thread, draft |-> draft,
                       invalid |-> i, recalled |-> r]
      PROVE  /\ draft \in Texts' /\ WrittenGrows
             /\ Parts(draft) \subseteq Parts(source) \cup {w} /\ draft.files \subseteq source.files
             /\ Held(source) \cup {w} \subseteq Held(draft) /\ Held(draft) \subseteq Held(source) \cup {w}
             /\ reply' \in Screens' /\ reply'.object = reply.object /\ reply'.thread = reply.thread
             /\ reply'.draft = draft
  <2>1. WrittenGrows /\ w \in WrittenTerms'
    BY <1>2, EntryTypes
  <2>2. source \in Texts'
    BY <2>1, TypesGrow
  <2>3. draft = [words |-> source.words \cup {w}, files |-> source.files, up |-> source.up]
    BY <1>4 DEF Texts
  <2>4. draft \in Texts'
    BY <2>1, <2>2, <2>3 DEF Texts
  <2>5. draft # NoReply /\ source # NoReply
    BY <2>3, TextFacts, CommentAssumption DEF NoReply, Texts, WrittenTerms
  <2>6. /\ Parts(draft) \subseteq Parts(source) \cup {w} /\ draft.files \subseteq source.files
        /\ Held(source) \cup {w} \subseteq Held(draft) /\ Held(draft) \subseteq Held(source) \cup {w}
    BY <2>3, <2>5 DEF Parts, Held
  <2>7. reply' \in Screens' /\ reply'.object = reply.object /\ reply'.thread = reply.thread
        /\ reply'.draft = draft
    BY <1>4, <2>1, <2>4, ScreenTypes, TypesGrow DEF Screens
  <2> QED
    BY <2>1, <2>4, <2>6, <2>7
<1>5. CASE TypeReply(w)
  <2> DEFINE draft == [reply.draft EXCEPT !.words = @ \cup {w}]
  <2>1. PICK keep \in {FALSE, reply.invalid} : reply' = [reply EXCEPT !.draft = draft, !.invalid = keep]
    BY <1>5 DEF TypeReply
  <2>2. /\ Write(draft) /\ Resurfaces(draft)
        /\ UNCHANGED <<lastThread, attaching, calls, replies, removed, forgone, misplaced>>
    BY <1>5 DEF TypeReply
  <2>3. draft = [reply.draft EXCEPT !.words = @ \cup {w}]
    OBVIOUS
  <2> HIDE DEF draft
  <2>4. reply' = [object |-> reply.object, thread |-> reply.thread, draft |-> draft,
                  invalid |-> keep, recalled |-> reply.recalled] /\ keep \in BOOLEAN
        /\ reply.recalled \in SUBSET WrittenTerms
    BY <1>1, <2>1, ScreenTypes
  <2>5. /\ draft \in Texts' /\ WrittenGrows
        /\ Parts(draft) \subseteq Parts(reply.draft) \cup {w} /\ draft.files \subseteq reply.draft.files
        /\ Held(reply.draft) \cup {w} \subseteq Held(draft)
        /\ Held(draft) \subseteq Held(reply.draft) \cup {w}
        /\ reply' \in Screens' /\ reply'.object = reply.object /\ reply'.thread = reply.thread
        /\ reply'.draft = draft
    BY <1>1, <1>4, <2>3, <2>4
  <2> QED
    BY <1>2, <1>3, <2>2, <2>5 DEF Wrote, Write, Resurfaces
<1>6. CASE PasteReply(w)
  <2> DEFINE draft == [reply.draft EXCEPT !.words = @ \cup {w}]
  <2>1. reply' = [reply EXCEPT !.draft = draft]
    BY <1>6 DEF PasteReply
  <2>2. /\ replyDrafts' = [replyDrafts EXCEPT ![reply.thread] = draft] /\ Resurfaces(draft)
        /\ forgone' = IF Attaching(reply.thread) THEN forgone \cup {w} ELSE forgone
        /\ UNCHANGED <<lastThread, draftsForPost, attaching, calls, replies, removed, misplaced>>
    BY <1>6 DEF PasteReply
  <2>3. draft = [reply.draft EXCEPT !.words = @ \cup {w}]
    OBVIOUS
  <2> HIDE DEF draft
  <2>4. reply' = [object |-> reply.object, thread |-> reply.thread, draft |-> draft,
                  invalid |-> reply.invalid, recalled |-> reply.recalled]
        /\ reply.recalled \in SUBSET WrittenTerms /\ reply.invalid \in BOOLEAN
    BY <1>1, <2>1, ScreenTypes
  <2>5. /\ draft \in Texts' /\ WrittenGrows
        /\ Parts(draft) \subseteq Parts(reply.draft) \cup {w} /\ draft.files \subseteq reply.draft.files
        /\ Held(reply.draft) \cup {w} \subseteq Held(draft)
        /\ Held(draft) \subseteq Held(reply.draft) \cup {w}
        /\ reply' \in Screens' /\ reply'.object = reply.object /\ reply'.thread = reply.thread
        /\ reply'.draft = draft
    BY <1>1, <1>4, <2>3, <2>4
  <2> QED
    BY <1>2, <1>3, <2>2, <2>5 DEF Wrote, Resurfaces
<1> QED
  BY <1>5, <1>6

\* Another message of the history, or none, takes the place of the stored one.
LEMMA RecallWrites ==
  ASSUME CommentTypes, NEW words \in SUBSET Terms, RecallReply(words)
  PROVE  \E draft : Wrote(draft, ReplyDraft(reply.thread), words)
<1> DEFINE source == ReplyDraft(reply.thread)
           draft == [source EXCEPT !.words = words]
<1>1. /\ \A w \in words : written[w] = "nowhere"
      /\ replyDrafts' = [replyDrafts EXCEPT ![reply.thread] = draft]
      /\ reply' = [reply EXCEPT !.draft = draft, !.recalled = words]
      /\ written' = [t \in DOMAIN written |-> IF t \in words THEN reply.thread ELSE written[t]]
      /\ forgone' = forgone \cup source.words \cup (IF Attaching(reply.thread) THEN words ELSE {})
      /\ UNCHANGED <<lastThread, draftsForPost, attaching, calls, replies, removed, misplaced,
                     resurfaced>>
  BY DEF RecallReply
<1>2. source \in Texts /\ reply.thread \in Threads
  BY ScreenTypes
<1>3. WrittenGrows /\ words \subseteq WrittenTerms'
  BY <1>1, <1>2, CommentAssumption DEF WrittenGrows, CommentTypes, WrittenTerms
<1>4. /\ \A t \in words : written'[t] = reply.thread
      /\ \A t \in Terms \cup Attachments : t \notin words => written'[t] = written[t]
  BY <1>1 DEF CommentTypes
<1>5. source \in Texts'
  BY <1>2, <1>3, TypesGrow
<1>6. draft = [words |-> words, files |-> source.files, up |-> source.up]
  BY <1>2 DEF Texts
<1>7. source = ReplyDraft(reply.thread)
  OBVIOUS
<1> HIDE DEF draft, source
<1>8. draft \in Texts'
  BY <1>3, <1>5, <1>6 DEF Texts
<1>9. draft # NoReply /\ source # NoReply
  BY <1>2, <1>6, TextFacts, CommentAssumption DEF NoReply
<1>10. /\ Parts(draft) \subseteq Parts(source) \cup words /\ draft.files = source.files
       /\ words \subseteq Held(draft) /\ Held(source) \ source.words \subseteq Held(draft)
       /\ Held(draft) \subseteq Held(source) \cup words
  BY <1>6, <1>9 DEF Parts, Held
<1>11. reply' = [object |-> reply.object, thread |-> reply.thread, draft |-> draft,
                 invalid |-> reply.invalid, recalled |-> words]
  BY <1>1, ScreenTypes
<1>12. reply' \in Screens' /\ reply'.object = reply.object /\ reply'.thread = reply.thread
       /\ reply'.draft = draft
  BY <1>3, <1>8, <1>11, ScreenTypes DEF Screens
<1>13. Attaching(reply.thread) => words \subseteq forgone'
  BY <1>1
<1>14. source.words \subseteq forgone' /\ forgone \subseteq forgone'
  BY <1>1
<1>15. Wrote(draft, source, words)
  BY <1>1, <1>3, <1>4, <1>7, <1>8, <1>10, <1>12, <1>13, <1>14 DEF Wrote
<1> QED
  BY <1>7, <1>15


LEMMA AttachWrites ==
  ASSUME CommentTypes, NEW f \in Attachments, Attach(f)
  PROVE  \E draft : Wrote(draft, reply.draft, {f})
<1> DEFINE source == reply.draft
           draft == [reply.draft EXCEPT !.up = @ \cup {f}]
           request == [file |-> f, thread |-> reply.thread, object |-> reply.object]
<1>1. /\ written[f] = "nowhere" /\ written' = [written EXCEPT ![f] = reply.thread]
      /\ attaching' = attaching \cup {request} /\ Write(draft) /\ Resurfaces(draft)
      /\ reply' = [reply EXCEPT !.draft = draft, !.invalid = FALSE]
      /\ UNCHANGED <<lastThread, calls, replies, removed, forgone, misplaced>>
  BY DEF Attach
<1>2. source \in Texts /\ source = reply.draft
  BY ScreenTypes
<1>3. draft = [words |-> source.words, files |-> source.files, up |-> source.up \cup {f}]
  BY <1>2 DEF Texts
<1>4. WrittenGrows /\ f \in WrittenFiles'
  BY <1>1, EntryTypes
<1>5. source \in Texts'
  BY <1>2, <1>4, TypesGrow
<1>6. draft \in Texts'
  BY <1>3, <1>4, <1>5 DEF Texts
<1>7. draft # NoReply /\ source # NoReply
  BY <1>2, <1>3, TextFacts, CommentAssumption DEF NoReply, Texts, WrittenTerms
<1>8. Parts(draft) \subseteq Parts(source) \cup {f} /\ draft.files = source.files
      /\ Held(source) = Held(draft)
  BY <1>3, <1>7 DEF Parts, Held
<1>9. /\ written'[f] = reply.thread
      /\ \A t \in Terms \cup Attachments : t # f => written'[t] = written[t]
  BY <1>1 DEF CommentTypes
<1> HIDE DEF draft, source
<1>10. reply' = [object |-> reply.object, thread |-> reply.thread, draft |-> draft,
                 invalid |-> FALSE, recalled |-> reply.recalled] /\ reply.recalled \subseteq WrittenTerms
  BY <1>1, ScreenTypes
<1>11. reply' \in Screens' /\ reply'.object = reply.object /\ reply'.thread = reply.thread
       /\ reply'.draft = draft
  BY <1>4, <1>6, <1>10, ScreenTypes, TypesGrow DEF Screens
<1>12. /\ request.file = f /\ request = [file |-> request.file, thread |-> reply.thread, object |-> reply.object]
       /\ request \in attaching'
  BY <1>1
<1> HIDE DEF request
<1>13. Wrote(draft, source, {f})
  BY <1>1, <1>2, <1>4, <1>6, <1>8, <1>9, <1>11, <1>12 DEF Wrote, Write, Resurfaces
<1> QED
  BY <1>2, <1>13

LEMMA RemoveWrites ==
  ASSUME CommentTypes, NEW f \in Attachments, RemoveAttachment(f)
  PROVE  \E draft : Wrote(draft, reply.draft, {})
<1> DEFINE source == reply.draft
           draft == IF f \in reply.draft.files THEN [reply.draft EXCEPT !.files = @ \ {f}]
                                               ELSE [reply.draft EXCEPT !.up = @ \ {f}]
<1>1. /\ Write(draft) /\ Resurfaces(draft) /\ removed' = removed \cup {f}
      /\ reply' = [reply EXCEPT !.draft = draft, !.invalid = FALSE]
      /\ attaching' \subseteq attaching /\ \A u \in attaching \ attaching' : u.file = f
      /\ UNCHANGED <<lastThread, calls, replies, written, forgone, misplaced>>
  BY DEF RemoveAttachment
<1>2. source \in Texts /\ source = reply.draft
  BY ScreenTypes
<1>3. \E fs, up : /\ draft = [words |-> source.words, files |-> fs, up |-> up]
                  /\ fs \subseteq source.files /\ source.files \ {f} \subseteq fs /\ up \subseteq source.up
  BY <1>2 DEF Texts
<1>4. WrittenGrows /\ Texts' = Texts /\ Screens' = Screens
  BY <1>1, SameWritten
<1> HIDE DEF draft, source
<1>5. draft \in Texts
  BY <1>2, <1>3 DEF Texts
<1>6. draft # NoReply /\ source # NoReply
  BY <1>2, <1>5, TextFacts
<1>7. /\ Parts(draft) \subseteq Parts(source) /\ draft.files \subseteq source.files
      /\ Held(source) \ {f} \subseteq Held(draft) /\ Held(draft) \subseteq Held(source)
  BY <1>3, <1>6 DEF Parts, Held
<1>8. reply' = [object |-> reply.object, thread |-> reply.thread, draft |-> draft,
                invalid |-> FALSE, recalled |-> reply.recalled] /\ reply.recalled \subseteq WrittenTerms
  BY <1>1, ScreenTypes
<1>9. reply' \in Screens /\ reply'.object = reply.object /\ reply'.thread = reply.thread
      /\ reply'.draft = draft
  BY <1>5, <1>8, ScreenTypes DEF Screens
<1>10. Wrote(draft, source, {})
  BY <1>1, <1>2, <1>4, <1>5, <1>7, <1>9 DEF Wrote, Write, Resurfaces
<1> QED
  BY <1>2, <1>10

LEMMA WroteTypes ==
  ASSUME CommentTypes, Remembered, NEW draft, NEW source, NEW new, Wrote(draft, source, new)
  PROVE  CommentTypes' /\ Remembered'
<1>1. draft \in Texts' /\ draft \in Stored'
  BY DEF Wrote, Stored
<1>2. replyDrafts \in [Threads -> Stored'] /\ draftsForPost \in [1..ReplyMounts -> [Threads -> Stored']]
  BY TypesGrow DEF CommentTypes, Wrote
<1>3. replyDrafts' \in [Threads -> Stored']
  BY <1>1, <1>2 DEF Wrote
<1>4. draftsForPost' = draftsForPost \/ draftsForPost' \in [1..ReplyMounts -> [Threads -> Stored']]
  BY <1>1, <1>2 DEF Wrote
<1>5. WrittenGrows
  BY DEF Wrote
<1>6. ASSUME NEW u \in attaching'
      PROVE  u \in attaching \/ u \in Requests'
  <2>1. CASE u \notin attaching
    <3>1. u.file \in new \cap Attachments
          /\ u = [file |-> u.file, thread |-> reply.thread, object |-> reply.object]
      BY <2>1 DEF Wrote
    <3>2. u.file \in WrittenFiles'
      BY <3>1, ScreenTypes, CommentAssumption DEF Wrote, WrittenFiles
    <3> QED
      BY <3>1, <3>2, ScreenTypes DEF Wrote, Requests
  <2> QED
    BY <2>1
<1>7. reply' \in Screens' /\ reply.object <= reply'.object
  BY ScreenTypes DEF Wrote
<1>8. CommentTypes'
  BY <1>3, <1>4, <1>5, <1>6, <1>7, TypesStep DEF Wrote, CommentTypes
<1>9. Remembered'
  <2> SUFFICES ASSUME NEW u \in attaching'
               PROVE  draftsForPost'[u.object][u.thread] # NoReply
    BY DEF Remembered
  <2>1. draft # NoReply
    BY <1>1, CommentAssumption DEF NoReply, Texts, WrittenTerms
  <2>2. CASE u \in attaching
    <3>1. draftsForPost[u.object][u.thread] # NoReply
      BY <2>2 DEF Remembered
    <3>2. u.object \in 1..ReplyMounts /\ u.thread \in Threads
      BY <2>2, RequestOf
    <3>3. \/ draftsForPost' = draftsForPost
          \/ draftsForPost' = [draftsForPost EXCEPT ![reply.object][reply.thread] = draft]
      BY DEF Wrote
    <3> QED
      BY <2>1, <3>1, <3>2, <3>3, ScreenTypes, MemoryAfter
  <2>3. CASE u \notin attaching
    <3>1. /\ u = [file |-> u.file, thread |-> reply.thread, object |-> reply.object]
          /\ draftsForPost' = [draftsForPost EXCEPT ![reply.object][reply.thread] = draft]
      BY <2>3 DEF Wrote
    <3>2. u.object = reply.object /\ u.thread = reply.thread
      BY <3>1
    <3> QED
      BY <2>1, <3>1, <3>2, ScreenTypes DEF CommentTypes
  <2> QED
    BY <2>2, <2>3
<1> QED
  BY <1>8, <1>9


\* Another thread, or another object: nothing is written.
Turned(c) ==
  /\ reply' \in Screens /\ reply.object <= reply'.object /\ reply'.thread = c
  /\ reply'.draft = Shown(c)
  /\ replyDrafts' \in [Threads -> Stored]
  /\ \A q \in Threads : Parts(replyDrafts'[q]) \subseteq Parts(replyDrafts[q])
                        /\ Held(replyDrafts'[q]) = Held(replyDrafts[q])
                        /\ FilesOf(replyDrafts'[q]) = FilesOf(replyDrafts[q])
  /\ lastThread' \in [1..ReplyMounts -> Threads]
  /\ UNCHANGED <<draftsForPost, attaching, calls, replies, written, removed, forgone,
                 misplaced, resurfaced>>

LEMMA SelectTurns ==
  ASSUME CommentTypes, NEW c \in Threads, SelectThread(c)
  PROVE  Turned(c)
<1>1. /\ reply' = [reply EXCEPT !.thread = c, !.draft = Shown(c)]
      /\ lastThread' = [lastThread EXCEPT ![reply.object] = c]
      /\ UNCHANGED <<replyDrafts, draftsForPost, attaching, calls, replies, written, removed,
                     forgone, misplaced, resurfaced>>
  BY DEF SelectThread
<1>2. Shown(c) \in Texts
  BY ScreenTypes
<1>3. reply' = [object |-> reply.object, thread |-> c, draft |-> Shown(c),
                invalid |-> reply.invalid, recalled |-> reply.recalled]
  BY <1>1, ScreenTypes
<1>4. reply' \in Screens /\ reply.object <= reply'.object
  BY <1>2, <1>3, ScreenTypes, ScreenStep
<1> QED
  BY <1>1, <1>3, <1>4 DEF Turned, CommentTypes

LEMMA ReopenTurns ==
  ASSUME CommentTypes, NEW c \in Threads, Reopen(c)
  PROVE  Turned(c) /\ reply'.object = reply.object + 1
<1> DEFINE stored == [r \in Threads |-> IF replyDrafts[r] = NoReply THEN NoReply
                                        ELSE [replyDrafts[r] EXCEPT !.up = {}]]
<1>1. /\ reply.object < ReplyMounts /\ replyDrafts' = stored
      /\ reply' = [object |-> reply.object + 1, thread |-> c, draft |-> Shown(c),
                   invalid |-> FALSE, recalled |-> {}]
      /\ lastThread' = [lastThread EXCEPT ![reply.object + 1] = c]
      /\ UNCHANGED <<draftsForPost, attaching, calls, replies, written, removed, forgone,
                     misplaced, resurfaced>>
  BY DEF Reopen
<1>2. ASSUME NEW q \in Threads
      PROVE  /\ stored[q] \in Stored /\ Parts(stored[q]) \subseteq Parts(replyDrafts[q])
             /\ Held(stored[q]) = Held(replyDrafts[q]) /\ FilesOf(stored[q]) = FilesOf(replyDrafts[q])
  <2>1. CASE replyDrafts[q] = NoReply
    BY <2>1, TextFacts
  <2>2. CASE replyDrafts[q] # NoReply
    <3> DEFINE d == replyDrafts[q]
               e == [d EXCEPT !.up = {}]
    <3>1. d \in Texts
      BY <2>2, ScreenTypes, TextFacts
    <3>2. e \in Texts
      BY <3>1, TextFacts
    <3>3. e.words = d.words /\ e.files = d.files /\ e.up = {}
      BY <3>1 DEF Texts
    <3>4. stored[q] = e
      BY <2>2
    <3> HIDE DEF e
    <3>5. /\ Parts(e) = e.words \cup e.files \cup e.up /\ Held(e) = e.words \cup e.files
          /\ FilesOf(e) = e.files /\ e \in Stored
      BY <3>2, TextFacts
    <3>6. /\ Parts(d) = d.words \cup d.files \cup d.up /\ Held(d) = d.words \cup d.files
          /\ FilesOf(d) = d.files
      BY <3>1, TextFacts
    <3> HIDE DEF stored
    <3> QED
      BY <3>3, <3>4, <3>5, <3>6
  <2> QED
    BY <2>1, <2>2
<1>3. stored \in [Threads -> Stored]
  BY <1>2
<1> HIDE DEF stored
<1>4. Shown(c) \in Texts
  BY ScreenTypes
<1>5. reply.object + 1 \in 1..ReplyMounts
  BY <1>1, ScreenTypes, CommentAssumption
<1>6. reply' \in Screens /\ reply.object <= reply'.object
  BY <1>1, <1>4, <1>5, ScreenTypes DEF Screens
<1>7. lastThread' \in [1..ReplyMounts -> Threads]
  BY <1>1 DEF CommentTypes
<1> QED
  BY <1>1, <1>2, <1>3, <1>6, <1>7 DEF Turned

LEMMA TurnedTypes ==
  ASSUME CommentTypes, Remembered, NEW c \in Threads, Turned(c)
  PROVE  CommentTypes' /\ Remembered'
<1>1. WrittenGrows /\ Screens' = Screens /\ Stored' = Stored
  BY SameWritten DEF Turned
<1>2. CommentTypes'
  BY <1>1, TypesStep DEF Turned
<1>3. Remembered'
  BY DEF Turned, Remembered
<1> QED
  BY <1>2, <1>3

\* The box shows the thread of the upload.
ShownBy(u) == u.object = reply.object /\ u.thread = reply.thread

\* An upload of an object that is gone replaces what was written since.
Overwrite(u, draft) ==
  LET gone == u.object # reply.object
  IN  /\ attaching' = attaching \ {u}
      /\ replyDrafts' = [replyDrafts EXCEPT ![u.thread] = draft]
      /\ draftsForPost' = [draftsForPost EXCEPT ![u.object][u.thread] = draft]
      /\ forgone' = IF gone THEN forgone \cup Parts(replyDrafts[u.thread]) \cup {u.file} ELSE forgone
      /\ resurfaced' = IF gone THEN resurfaced \cup Parts(draft) ELSE resurfaced

\* An upload ends and leaves its object with a draft.
Came(u, draft) ==
  /\ draft \in Texts /\ reply' \in Screens
  /\ reply'.object = reply.object /\ reply'.thread = reply.thread
  /\ reply'.draft = IF ShownBy(u) THEN draft ELSE reply.draft
  /\ Parts(draft) \subseteq Parts(draftsForPost[u.object][u.thread]) \cup {u.file}
  /\ draft.files \subseteq FilesOf(draftsForPost[u.object][u.thread]) \cup {u.file}
  /\ Held(draftsForPost[u.object][u.thread]) \subseteq Held(draft)
  /\ Held(draft) \subseteq Held(draftsForPost[u.object][u.thread]) \cup {u.file}
  /\ u.file \in Held(draft)
  /\ Overwrite(u, draft)
  /\ UNCHANGED <<lastThread, calls, replies, written, removed, misplaced>>

LEMMA UploadComes ==
  ASSUME CommentTypes, Remembered, NEW u \in attaching, AttachComplete(u)
  PROVE  \E draft : Came(u, draft)
<1> DEFINE d == draftsForPost[u.object][u.thread]
           e == Attached(u)
<1>1. d \in Texts /\ u.file \in WrittenFiles
  BY RequestOf, TextFacts DEF Remembered
<1>2. Held(d) = d.words \cup d.files /\ Parts(d) = d.words \cup d.files \cup d.up /\ FilesOf(d) = d.files
  BY <1>1, TextFacts
<1>3. e = [words |-> d.words, files |-> d.files \cup {u.file}, up |-> d.up \ {u.file}]
  <2>1. e = [d EXCEPT !.up = @ \ {u.file}, !.files = @ \cup {u.file}]
    BY DEF Attached
  <2> HIDE DEF d, e
  <2> QED
    BY <1>1, <2>1 DEF Texts
<1>4. /\ Overwrite(u, e) /\ reply' = IF ShownBy(u) THEN [reply EXCEPT !.draft = e] ELSE reply
      /\ UNCHANGED <<lastThread, calls, replies, written, removed, misplaced>>
  BY DEF AttachComplete, Overwrite, ShownBy
<1> HIDE DEF e
<1>5. e \in Texts
  BY <1>1, <1>3 DEF Texts
<1>6. Held(e) = e.words \cup e.files /\ Parts(e) = e.words \cup e.files \cup e.up
  BY <1>5, TextFacts
<1>7. /\ reply' \in Screens /\ reply'.object = reply.object /\ reply'.thread = reply.thread
      /\ reply'.draft = IF ShownBy(u) THEN e ELSE reply.draft
  <2>1. CASE ShownBy(u)
    <3>1. reply' = [object |-> reply.object, thread |-> reply.thread, draft |-> e,
                    invalid |-> reply.invalid, recalled |-> reply.recalled]
      BY <1>4, <2>1, ScreenTypes
    <3> QED
      BY <1>5, <2>1, <3>1, ScreenTypes DEF Screens
  <2>2. CASE ~ShownBy(u)
    BY <1>4, <2>2 DEF CommentTypes
  <2> QED
    BY <2>1, <2>2
<1> HIDE DEF d
<1>8. /\ Parts(e) \subseteq Parts(d) \cup {u.file} /\ e.files \subseteq FilesOf(d) \cup {u.file}
      /\ Held(d) \subseteq Held(e) /\ u.file \in Held(e) /\ Held(e) \subseteq Held(d) \cup {u.file}
  BY <1>2, <1>3, <1>6
<1> QED
  BY <1>4, <1>5, <1>7, <1>8 DEF Came, d

LEMMA CameTypes ==
  ASSUME CommentTypes, Remembered, NEW u \in attaching, NEW draft, Came(u, draft)
  PROVE  CommentTypes' /\ Remembered'
<1>1. WrittenGrows /\ Screens' = Screens /\ Stored' = Stored /\ draft \in Stored
  BY SameWritten DEF Came, Stored
<1>2. /\ u.object \in 1..ReplyMounts /\ u.thread \in Threads
  BY RequestOf
<1>3. /\ attaching' = attaching \ {u}
      /\ replyDrafts' = [replyDrafts EXCEPT ![u.thread] = draft]
      /\ draftsForPost' = [draftsForPost EXCEPT ![u.object][u.thread] = draft]
  BY DEF Came, Overwrite
<1>4. replyDrafts' \in [Threads -> Stored] /\ draftsForPost' \in [1..ReplyMounts -> [Threads -> Stored]]
  BY <1>1, <1>2, <1>3 DEF CommentTypes
<1>5. reply' \in Screens' /\ reply.object <= reply'.object
  BY <1>1, ScreenTypes DEF Came
<1>6. CommentTypes'
  BY <1>1, <1>3, <1>4, <1>5, TypesStep DEF Came, CommentTypes
<1>7. Remembered'
  <2> SUFFICES ASSUME NEW v \in attaching'
               PROVE  draftsForPost'[v.object][v.thread] # NoReply
    BY DEF Remembered
  <2>1. v \in attaching /\ draftsForPost[v.object][v.thread] # NoReply
    BY <1>3 DEF Remembered
  <2>2. draft # NoReply
    BY TextFacts DEF Came
  <2> QED
    BY <1>2, <1>3, <2>1, <2>2, RequestOf, MemoryAfter
<1> QED
  BY <1>6, <1>7

\* An upload fails: nothing but the request goes.
Failed(u) ==
  /\ attaching' = attaching \ {u}
  /\ removed' = removed \cup {u.file}
  /\ UNCHANGED <<reply, lastThread, replyDrafts, draftsForPost, calls, replies, written, forgone,
                 misplaced, resurfaced>>

LEMMA FailedTypes ==
  ASSUME CommentTypes, Remembered, NEW u \in attaching, Failed(u)
  PROVE  CommentTypes' /\ Remembered'
<1>1. WrittenGrows /\ Screens' = Screens
  BY SameWritten DEF Failed
<1>2. reply' \in Screens' /\ reply.object <= reply'.object
  BY <1>1, ScreenTypes DEF Failed, CommentTypes
<1>3. CommentTypes'
  BY <1>1, <1>2, TypesStep DEF Failed, CommentTypes
<1>4. Remembered'
  BY DEF Failed, Remembered
<1> QED
  BY <1>3, <1>4


\* The stored draft is sent, or waits to be.
Submitted(kind) ==
  /\ LET d == ReplyDraft(reply.thread)
     IN  /\ \/ calls' = calls \cup {Submission(kind)} /\ UNCHANGED replies
            \/ /\ kind = "command" /\ UNCHANGED calls
               /\ replies' = Append(replies, [to |-> reply.thread, words |-> d.words, files |-> {}])
         /\ kind = "command" => d.files \subseteq forgone'
  /\ reply' \in Screens /\ reply'.object = reply.object /\ reply'.thread = reply.thread
  /\ \/ reply'.draft = NoText
     \/ reply'.draft = reply.draft /\ calls' = calls \cup {Submission("command")} /\ UNCHANGED replies
  /\ kind \in {"message", "command"}
  /\ Clear
  /\ forgone \subseteq forgone'
  /\ UNCHANGED <<lastThread, draftsForPost, attaching, written, removed, misplaced>>

LEMMA SubmitSubmits ==
  ASSUME CommentTypes, SubmitReply \/ SubmitReplyCommand \/ ReactInThread
  PROVE  \E kind : Submitted(kind)
<1>0. EmptyBox \in Screens /\ EmptyBox.object = reply.object /\ EmptyBox.thread = reply.thread
      /\ EmptyBox.draft = NoText
  BY TextFacts DEF CommentTypes, Screens, EmptyBox
<1>1. CASE SubmitReply
  <2>3. Submitted("message")
    BY <1>0, <1>1 DEF SubmitReply, Submitted
  <2> QED
    BY <2>3
<1>2. CASE ReactInThread
  <2>3. Submitted("command")
    BY <1>0, <1>2 DEF ReactInThread, Submitted
  <2> QED
    BY <2>3
<1>3. CASE SubmitReplyCommand
  <2> DEFINE show == IF reply.recalled # {} THEN NoText ELSE reply.draft
  <2>1. reply' = [reply EXCEPT !.draft = show, !.recalled = {}]
    BY <1>3 DEF SubmitReplyCommand
  <2>2. show \in Texts /\ (show = NoText \/ show = reply.draft)
    BY ScreenTypes, TextFacts
  <2> HIDE DEF show
  <2>3. reply' = [object |-> reply.object, thread |-> reply.thread, draft |-> show,
                  invalid |-> reply.invalid, recalled |-> {}]
    BY <2>1, ScreenTypes
  <2>4. reply' \in Screens /\ reply'.object = reply.object /\ reply'.thread = reply.thread
        /\ reply'.draft = show
    BY <2>2, <2>3, ScreenTypes DEF Screens
  <2>5. Submitted("command")
    BY <1>3, <2>2, <2>4 DEF SubmitReplyCommand, Submitted
  <2> QED
    BY <2>5
<1> QED
  BY <1>1, <1>2, <1>3

LEMMA SubmittedTypes ==
  ASSUME CommentTypes, Remembered, NEW kind, Submitted(kind)
  PROVE  CommentTypes' /\ Remembered'
<1> DEFINE d == ReplyDraft(reply.thread)
<1>1. WrittenGrows /\ Screens' = Screens /\ Stored' = Stored /\ Answers' = Answers /\ Texts' = Texts
      /\ WrittenTerms' = WrittenTerms /\ WrittenFiles' = WrittenFiles
  BY SameWritten DEF Submitted
<1>2. d \in Texts /\ d.words \subseteq WrittenTerms /\ d.files \subseteq WrittenFiles
  BY ScreenTypes, TextFacts
<1>3. Submission(kind) \in Submissions'
  <2>1. reply'.object = reply.object /\ reply.object \in 1..reply.object
    BY ScreenTypes DEF Submitted
  <2> QED
    BY <1>1, <1>2, <2>1, ScreenTypes DEF Submission, Submissions, Submitted
<1>4. [to |-> reply.thread, words |-> d.words, files |-> {}] \in Answers
  BY <1>2, ScreenTypes DEF Answers
<1>5. replyDrafts' \in [Threads -> Stored]
  BY ScreenTypes, TextFacts DEF Submitted, Clear, CommentTypes
<1>6. reply' \in Screens' /\ reply.object <= reply'.object
  BY <1>1, ScreenTypes DEF Submitted
<1>7. CommentTypes'
  BY <1>1, <1>3, <1>4, <1>5, <1>6, TypesStep DEF Submitted, CommentTypes
<1>8. Remembered'
  BY DEF Submitted, Remembered
<1> QED
  BY <1>7, <1>8

\* A call ends: what it left in the store, on the screen and with the server.
Ended(s) ==
  /\ calls' = calls \ {s}
  /\ reply' \in Screens /\ reply'.object = reply.object /\ reply'.thread = reply.thread
  /\ forgone \subseteq forgone' /\ resurfaced \subseteq resurfaced'
  /\ UNCHANGED <<lastThread, draftsForPost, attaching, written, removed>>

\* Sent, executed or refused: the box may turn to what is stored.
Closed(s) ==
  /\ Ended(s)
  /\ \/ reply'.draft = reply.draft /\ (s.kind = "command" => s.object # reply.object)
     \/ reply'.draft = NoText /\ replyDrafts'[reply.thread] = NoReply
     \/ reply'.draft = Shown(reply.thread) /\ UNCHANGED replyDrafts
     \/ /\ reply'.draft = Shown(reply.thread) /\ s.thread # reply.thread
        /\ replyDrafts' = [replyDrafts EXCEPT ![s.thread] = NoReply]
  /\ \/ UNCHANGED replyDrafts
     \/ /\ replyDrafts' = [replyDrafts EXCEPT ![s.thread] = NoReply]
        /\ Parts(replyDrafts[s.thread]) \subseteq forgone'
  /\ \/ /\ s.stage # "answer"
        /\ \E files \in {s.files, {}} :
             /\ replies' = Append(replies, [to |-> s.thread, words |-> s.words, files |-> files])
             /\ files = {} => s.kind = "command" \/ s.files = {}
     \/ UNCHANGED replies /\ s.words \cup s.files \subseteq forgone'
     \/ UNCHANGED replies /\ CallParts(s) \subseteq InReplies
  /\ UNCHANGED <<misplaced, resurfaced>>

LEMMA ResumeShows ==
  ASSUME CommentTypes, NEW s \in calls, NEW show \in Texts, Resume(s, show)
  PROVE  /\ calls' = calls \ {s}
         /\ reply' \in Screens /\ reply'.object = reply.object /\ reply'.thread = reply.thread
         /\ \/ reply'.draft = reply.draft /\ (s.kind = "command" => s.object # reply.object)
            \/ reply'.draft = show
         /\ UNCHANGED <<lastThread, draftsForPost, attaching, written, removed, misplaced, resurfaced>>
<1>1. calls' = calls \ {s}
      /\ UNCHANGED <<lastThread, draftsForPost, attaching, written, removed, misplaced, resurfaced>>
  BY DEF Resume
<1>2. CASE s.kind = "command" /\ s.object = reply.object
  <2>1. reply' = [object |-> reply.object, thread |-> reply.thread, draft |-> show,
                  invalid |-> FALSE, recalled |-> reply.recalled]
    BY <1>2, ScreenTypes DEF Resume
  <2> QED
    BY <1>1, <2>1, ScreenTypes DEF Screens
<1>3. CASE ~(s.kind = "command" /\ s.object = reply.object)
  BY <1>1, <1>3 DEF Resume, CommentTypes
<1> QED
  BY <1>2, <1>3

LEMMA CallCloses ==
  ASSUME CommentTypes, CommandsMeanIt, NEW s \in calls,
         ReplySent(s) \/ ReplyCreated(s) \/ ReplyCommandDone(s) \/ ReplyRefused(s)
  PROVE  Closed(s)
<1>1. NoText \in Texts /\ Shown(reply.thread) \in Texts /\ s.thread \in Threads
  BY TextFacts, ScreenTypes, CallOf
<1>2. CASE ReplySent(s) \/ ReplyCreated(s)
  <2> DEFINE show == IF s.thread = reply.thread THEN NoText ELSE Shown(reply.thread)
  <2>1. /\ replyDrafts' = [replyDrafts EXCEPT ![s.thread] = NoReply]
        /\ forgone' = forgone \cup Parts(replyDrafts[s.thread])
        /\ Resume(s, show)
    BY <1>2 DEF ReplySent, ReplyCreated, Created
  <2>2. show \in Texts
    BY <1>1
  <2>3. s.thread = reply.thread => replyDrafts'[reply.thread] = NoReply
    BY <1>1, <2>1 DEF CommentTypes
  <2>4. \/ show = NoText /\ s.thread = reply.thread
        \/ show = Shown(reply.thread) /\ s.thread # reply.thread
    OBVIOUS
  <2> HIDE DEF show
  <2>5. /\ calls' = calls \ {s}
        /\ reply' \in Screens /\ reply'.object = reply.object /\ reply'.thread = reply.thread
        /\ \/ reply'.draft = reply.draft /\ (s.kind = "command" => s.object # reply.object)
           \/ reply'.draft = show
        /\ UNCHANGED <<lastThread, draftsForPost, attaching, written, removed, misplaced, resurfaced>>
    BY <2>1, <2>2, ResumeShows
  <2>6. \/ /\ s.stage # "answer"
           /\ replies' = Append(replies, [to |-> s.thread, words |-> s.words, files |-> s.files])
        \/ UNCHANGED replies /\ CallParts(s) \subseteq InReplies
    BY <1>2 DEF ReplySent, ReplyCreated, HandOver, CommandsMeanIt
  <2> QED
    BY <2>1, <2>3, <2>4, <2>5, <2>6 DEF Closed, Ended
<1>3. CASE ReplyCommandDone(s)
  <2>1. /\ replies' = Append(replies, [to |-> s.thread, words |-> s.words, files |-> {}])
        /\ s.stage \in {"command", "execution"} /\ Resume(s, Shown(reply.thread))
        /\ UNCHANGED <<replyDrafts, forgone>>
    BY <1>3 DEF ReplyCommandDone
  <2>2. s.kind = "command"
    BY <2>1 DEF CommandsMeanIt
  <2>3. /\ calls' = calls \ {s}
        /\ reply' \in Screens /\ reply'.object = reply.object /\ reply'.thread = reply.thread
        /\ \/ reply'.draft = reply.draft /\ (s.kind = "command" => s.object # reply.object)
           \/ reply'.draft = Shown(reply.thread)
        /\ UNCHANGED <<lastThread, draftsForPost, attaching, written, removed, misplaced, resurfaced>>
    BY <1>1, <2>1, ResumeShows
  <2> QED
    BY <2>1, <2>2, <2>3 DEF Closed, Ended
<1>4. CASE ReplyRefused(s)
  <2>1. /\ forgone' = forgone \cup s.words \cup s.files
        /\ Resume(s, Shown(reply.thread)) /\ UNCHANGED <<replyDrafts, replies>>
    BY <1>4 DEF ReplyRefused
  <2>2. /\ calls' = calls \ {s}
        /\ reply' \in Screens /\ reply'.object = reply.object /\ reply'.thread = reply.thread
        /\ \/ reply'.draft = reply.draft /\ (s.kind = "command" => s.object # reply.object)
           \/ reply'.draft = Shown(reply.thread)
        /\ UNCHANGED <<lastThread, draftsForPost, attaching, written, removed, misplaced, resurfaced>>
    BY <1>1, <2>1, ResumeShows
  <2> QED
    BY <2>1, <2>2 DEF Closed, Ended
<1> QED
  BY <1>2, <1>3, <1>4


LEMMA FailedCloses ==
  ASSUME CommentTypes, NEW s \in calls, ReplyCommandFailed(s)
  PROVE  /\ Ended(s) /\ reply'.draft = reply.draft /\ s.words \cup s.files \subseteq forgone'
         /\ s.stage # "answer" /\ UNCHANGED <<replyDrafts, replies, misplaced>>
<1>1. /\ calls' = calls \ {s} /\ forgone' = forgone \cup s.words \cup s.files
      /\ s.stage = "execution"
      /\ reply' = IF s.object = reply.object THEN [reply EXCEPT !.invalid = FALSE] ELSE reply
      /\ UNCHANGED <<lastThread, replyDrafts, draftsForPost, attaching, replies, written, removed,
                     misplaced, resurfaced>>
  BY DEF ReplyCommandFailed
<1>2. reply' \in Screens /\ reply'.object = reply.object /\ reply'.thread = reply.thread
      /\ reply'.draft = reply.draft
  BY <1>1 DEF CommentTypes, Screens
<1> QED
  BY <1>1, <1>2 DEF Ended

\* The draft of an unknown command comes back, in the thread that its object
\* shows or showed last.
Returned(s, t) ==
  /\ Ended(s) /\ t \in Threads
  /\ reply'.draft = reply.draft
  /\ replyDrafts' = [replyDrafts EXCEPT ![t] = s.shown]
  /\ Parts(replyDrafts[t]) \subseteq forgone'
  /\ \/ BackInBox(s, t) /\ UNCHANGED misplaced
     \/ ~BackInBox(s, t) /\ s.words \cup Parts(s.shown) \subseteq forgone'
        /\ misplaced' \subseteq misplaced \cup Parts(s.shown)
  /\ t = s.thread \/ Parts(s.shown) \subseteq misplaced'
  /\ misplaced \subseteq misplaced'
  /\ Parts(s.shown) \subseteq resurfaced'
  /\ s.kind = "command" /\ s.stage # "answer"
  /\ UNCHANGED replies

LEMMA UnknownReturns ==
  ASSUME CommentTypes, CommandsMeanIt, NEW s \in calls, ReplyCommandUnknown(s)
  PROVE  Returned(s, lastThread[s.object])
<1> DEFINE t == lastThread[s.object]
<1>1. /\ s.stage = "execution"
      /\ calls' = calls \ {s}
      /\ replyDrafts' = [replyDrafts EXCEPT ![t] = s.shown]
      /\ forgone' = forgone \cup Parts(replyDrafts[t])
                    \cup (IF BackInBox(s, t) THEN {} ELSE s.words \cup Parts(s.shown))
      /\ misplaced' = IF t # s.thread THEN misplaced \cup Parts(s.shown) ELSE misplaced
      /\ reply' = IF s.object = reply.object THEN [reply EXCEPT !.invalid = TRUE] ELSE reply
      /\ resurfaced' = resurfaced \cup Parts(s.shown)
      /\ UNCHANGED <<lastThread, draftsForPost, attaching, replies, written, removed, replySpent>>
  BY DEF ReplyCommandUnknown
<1>2. t \in Threads /\ s.kind = "command"
  BY <1>1, CallOf DEF CommandsMeanIt
<1>3. reply' \in Screens /\ reply'.object = reply.object /\ reply'.thread = reply.thread
      /\ reply'.draft = reply.draft
  BY <1>1 DEF CommentTypes, Screens
<1>4. BackInBox(s, t) => t = s.thread
  BY DEF BackInBox
<1> HIDE DEF t
<1>5. Ended(s)
  BY <1>1, <1>3 DEF Ended
<1>6. Returned(s, t)
  BY <1>1, <1>2, <1>3, <1>4, <1>5 DEF Returned
<1> QED
  BY <1>6 DEF t

\* A command goes to its next stage, or what is sent waits for the server.
Advanced(s, e) ==
  /\ s.stage # "answer" /\ e \in Submissions /\ calls' = (calls \ {s}) \cup {e}
  /\ e.kind = s.kind /\ e.object = s.object /\ e.thread = s.thread /\ e.words = s.words
  /\ e.files = s.files /\ e.shown = s.shown
  /\ \/ s.kind = "command" /\ e.stage # "answer" /\ UNCHANGED replies
     \/ /\ e.stage = "answer"
        /\ replies' = Append(replies, [to |-> s.thread, words |-> s.words, files |-> s.files])
  /\ UNCHANGED <<reply, lastThread, replyDrafts, draftsForPost, attaching, written, removed,
                 forgone, misplaced, resurfaced>>

LEMMA NextStage ==
  ASSUME CommentTypes, NEW s \in calls, NEW to \in {"execution", "message", "answer"}, NEW e,
         e = [s EXCEPT !.stage = to]
  PROVE  /\ e \in Submissions /\ e.kind = s.kind /\ e.object = s.object /\ e.thread = s.thread
         /\ e.words = s.words /\ e.files = s.files /\ e.shown = s.shown /\ e.stage = to
BY CallOf DEF Submissions

LEMMA CommandAdvances ==
  ASSUME CommentTypes, NEW s \in calls,
         ReplyCommandAllowed(s) \/ ReplyCommandAsMessage(s) \/ ReplyHandedOver(s)
  PROVE  \E e : Advanced(s, e)
<1>1. ASSUME NEW from \in {"command", "execution"}, NEW to \in {"execution", "message"},
             Advance(s, from, to)
      PROVE  \E e : Advanced(s, e)
  <2>1. PICK e : e = [s EXCEPT !.stage = to]
    OBVIOUS
  <2>2. /\ e \in Submissions /\ e.kind = s.kind /\ e.object = s.object /\ e.thread = s.thread
        /\ e.words = s.words /\ e.files = s.files /\ e.shown = s.shown /\ e.stage = to
    BY <2>1, NextStage
  <2>3. /\ s.kind = "command" /\ s.stage = from /\ calls' = (calls \ {s}) \cup {e}
        /\ UNCHANGED <<reply, lastThread, replyDrafts, draftsForPost, attaching, replies, written,
                       removed, forgone, misplaced, resurfaced>>
    BY <1>1, <2>1 DEF Advance
  <2>4. Advanced(s, e)
    BY <2>2, <2>3 DEF Advanced
  <2> QED
    BY <2>4
<1>2. CASE ReplyHandedOver(s)
  <2>1. PICK e : e = [s EXCEPT !.stage = "answer"]
    OBVIOUS
  <2>2. /\ e \in Submissions /\ e.kind = s.kind /\ e.object = s.object /\ e.thread = s.thread
        /\ e.words = s.words /\ e.files = s.files /\ e.shown = s.shown /\ e.stage = "answer"
    BY <2>1, NextStage
  <2>3. /\ s.stage = "message" /\ calls' = (calls \ {s}) \cup {e}
        /\ replies' = Append(replies, [to |-> s.thread, words |-> s.words, files |-> s.files])
        /\ UNCHANGED <<reply, lastThread, replyDrafts, draftsForPost, attaching, written, removed,
                       forgone, misplaced, resurfaced>>
    BY <1>2, <2>1 DEF ReplyHandedOver, HandOver
  <2>4. Advanced(s, e)
    BY <2>2, <2>3 DEF Advanced
  <2> QED
    BY <2>4
<1> QED
  BY <1>1, <1>2 DEF ReplyCommandAllowed, ReplyCommandAsMessage

LEMMA CallStepTypes ==
  ASSUME CommentTypes, Remembered, NEW s \in calls, NEW e, NEW t,
         \/ Closed(s) \/ Returned(s, t) \/ Advanced(s, e)
         \/ Ended(s) /\ UNCHANGED <<replyDrafts, replies>>
  PROVE  CommentTypes' /\ Remembered'
<1>1. UNCHANGED written
  BY DEF Closed, Returned, Advanced, Ended
<1>2. WrittenGrows /\ Screens' = Screens /\ Stored' = Stored /\ Answers' = Answers /\ Texts' = Texts
      /\ WrittenTerms' = WrittenTerms /\ WrittenFiles' = WrittenFiles
  BY <1>1, SameWritten
<1>3. reply' \in Screens' /\ reply.object = reply'.object
  BY <1>2 DEF Closed, Returned, Advanced, Ended, CommentTypes
<1>4. replyDrafts' = replyDrafts \/ replyDrafts' \in [Threads -> Stored']
  <2>1. \/ replyDrafts' = replyDrafts
        \/ \E q \in Threads, d \in Stored : replyDrafts' = [replyDrafts EXCEPT ![q] = d]
    BY CallOf, TextFacts DEF Closed, Returned, Advanced, Ended
  <2> QED
    BY <1>2, <2>1 DEF CommentTypes
<1>5. replies' = replies \/ \E p \in Answers' : replies' = Append(replies, p)
  <2>1. ASSUME NEW files \in {s.files, {}}
        PROVE  [to |-> s.thread, words |-> s.words, files |-> files] \in Answers
    BY CallOf DEF Answers
  <2> QED
    BY <1>2, <2>1 DEF Closed, Returned, Advanced
<1>6. \A c \in calls' : c \in calls \/ c \in Submissions'
  <2>1. Submissions' = Submissions
    BY <1>2, <1>3 DEF Submissions
  <2> QED
    BY <2>1 DEF Closed, Returned, Advanced, Ended
<1>7. UNCHANGED <<lastThread, draftsForPost, attaching>>
  BY DEF Closed, Returned, Advanced, Ended
<1>8. reply.object <= reply'.object
  BY <1>3, ScreenTypes
<1>9. CommentTypes'
  BY <1>2, <1>3, <1>4, <1>5, <1>6, <1>7, <1>8, TypesStep DEF CommentTypes
<1> QED
  BY <1>7, <1>9 DEF Remembered


\* A command fails: the box goes on showing it.
Dropped(s) == /\ Ended(s) /\ reply'.draft = reply.draft /\ s.words \cup s.files \subseteq forgone'
              /\ s.stage # "answer"
              /\ UNCHANGED <<replyDrafts, replies, misplaced>>

\* Every step has one of these shapes.
Step ==
  \/ \E draft, source, new : Wrote(draft, source, new)
  \/ \E c \in Threads : Turned(c)
  \/ \E u \in attaching : \E draft : Came(u, draft)
  \/ \E u \in attaching : Failed(u)
  \/ \E kind : Submitted(kind)
  \/ \E s \in calls : Closed(s) \/ Dropped(s)
  \/ \E s \in calls : \E t : Returned(s, t)
  \/ \E s \in calls : \E e : Advanced(s, e)

LEMMA NextIsStep ==
  ASSUME CommentTypes, Remembered, CommandsMeanIt, CommentNext
  PROVE  Step
<1>1. CASE \E w \in Terms : TypeReply(w) \/ PasteReply(w)
  BY <1>1, WordWritten DEF Step
<1>2. CASE \E c \in Threads : SelectThread(c) \/ Reopen(c)
  BY <1>2, SelectTurns, ReopenTurns DEF Step
<1>3. CASE \E f \in Attachments : Attach(f) \/ RemoveAttachment(f)
  BY <1>3, AttachWrites, RemoveWrites DEF Step
<1>4. CASE \E u \in attaching : AttachComplete(u)
  BY <1>4, UploadComes DEF Step
<1>5. CASE SubmitReply \/ SubmitReplyCommand \/ ReactInThread
  BY <1>5, SubmitSubmits DEF Step
<1>6. CASE \E s \in calls : \/ ReplySent(s) \/ ReplyCreated(s)
                              \/ ReplyCommandDone(s) \/ ReplyRefused(s)
  BY <1>6, CallCloses DEF Step
<1>7. CASE \E s \in calls : ReplyCommandUnknown(s)
  BY <1>7, UnknownReturns DEF Step
<1>8. CASE \E s \in calls : ReplyCommandFailed(s)
  BY <1>8, FailedCloses DEF Step, Dropped
<1>9. CASE \E s \in calls : \/ ReplyCommandAllowed(s) \/ ReplyCommandAsMessage(s)
                              \/ ReplyHandedOver(s)
  BY <1>9, CommandAdvances DEF Step
<1>10. CASE \E words \in SUBSET Terms : RecallReply(words)
  BY <1>10, RecallWrites DEF Step
<1>11. CASE \E u \in attaching : AttachFailed(u)
  BY <1>11 DEF Step, AttachFailed, Failed
<1> QED
  BY <1>1, <1>2, <1>3, <1>4, <1>5, <1>6, <1>7, <1>8, <1>9, <1>10, <1>11 DEF CommentNext

LEMMA StepTypes ==
  ASSUME CommentTypes, Remembered, Step
  PROVE  CommentTypes' /\ Remembered'
BY WroteTypes, TurnedTypes, CameTypes, FailedTypes, SubmittedTypes, CallStepTypes DEF Step, Dropped

LEMMA StepGrows ==
  ASSUME CommentTypes, Step
  PROVE  /\ WrittenGrows /\ removed \subseteq removed' /\ forgone \subseteq forgone'
         /\ misplaced \subseteq misplaced' /\ resurfaced \subseteq resurfaced'
<1>1. ASSUME UNCHANGED written
      PROVE  WrittenGrows
  BY <1>1, SameWritten
<1>2. ASSUME NEW draft, NEW source, NEW new, Wrote(draft, source, new)
      PROVE  /\ WrittenGrows /\ removed \subseteq removed' /\ forgone \subseteq forgone'
             /\ misplaced \subseteq misplaced' /\ resurfaced \subseteq resurfaced'
  BY <1>2 DEF Wrote
<1>3. ASSUME NEW c \in Threads, Turned(c)
      PROVE  UNCHANGED <<written, removed, forgone, misplaced, resurfaced>>
  BY <1>3 DEF Turned
<1>4. ASSUME NEW u, NEW draft, Came(u, draft)
      PROVE  /\ UNCHANGED <<written, misplaced>> /\ removed \subseteq removed'
             /\ forgone \subseteq forgone' /\ resurfaced \subseteq resurfaced'
  BY <1>4 DEF Came, Overwrite
<1>5. ASSUME NEW kind, Submitted(kind)
      PROVE  /\ UNCHANGED <<written, removed, misplaced>>
             /\ forgone \subseteq forgone' /\ resurfaced \subseteq resurfaced'
  BY <1>5 DEF Submitted, Clear
<1>6. ASSUME NEW s, NEW e, NEW t, Closed(s) \/ Dropped(s) \/ Returned(s, t) \/ Advanced(s, e)
      PROVE  /\ UNCHANGED <<written, removed>> /\ misplaced \subseteq misplaced'
             /\ forgone \subseteq forgone' /\ resurfaced \subseteq resurfaced'
  BY <1>6 DEF Closed, Dropped, Returned, Advanced, Ended
<1>7. ASSUME NEW u, Failed(u)
      PROVE  /\ UNCHANGED <<written, misplaced, forgone, resurfaced>> /\ removed \subseteq removed'
  BY <1>7 DEF Failed
<1> QED
  BY <1>1, <1>2, <1>3, <1>4, <1>5, <1>6, <1>7 DEF Step

----------------------------------------------------------------------------
(* What is being sent.                                                     *)

LEMMA SendingTypes ==
  ASSUME CommentTypes
  PROVE  /\ Sending \subseteq Written
         /\ \A s \in calls : CallParts(s) \subseteq InCalls
         /\ \A p \in ToSet(replies) : p \in Answers /\ p.words \cup p.files \subseteq InReplies
<1>1. ASSUME NEW s \in calls
      PROVE  CallParts(s) \subseteq Written /\ CallParts(s) \subseteq Terms \cup Attachments
  BY CallOf DEF CallParts, Written, WrittenTerms, WrittenFiles
<1>2. ASSUME NEW p \in ToSet(replies)
      PROVE  /\ p \in Answers /\ p.words \cup p.files \subseteq Written
             /\ p.words \cup p.files \subseteq Terms \cup Attachments
  <2>1. p \in Answers
    BY DEF CommentTypes, ToSet
  <2> QED
    BY <2>1 DEF Answers, Written, WrittenTerms, WrittenFiles
<1> QED
  BY <1>1, <1>2 DEF Sending, InCalls, InReplies

LEMMA RepliesGrow ==
  ASSUME CommentTypes, NEW p \in Answers, replies' = Append(replies, p)
  PROVE  InReplies' = InReplies \cup p.words \cup p.files
<1>1. replies \in Seq(Answers)
  BY DEF CommentTypes
<1>2. ToSet(replies') = ToSet(replies) \cup {p}
  BY <1>1 DEF ToSet
<1>3. p.words \cup p.files \subseteq Terms \cup Attachments
  BY DEF Answers, WrittenTerms, WrittenFiles
<1> QED
  BY <1>2, <1>3 DEF InReplies

LEMMA SameReplies ==
  ASSUME UNCHANGED replies
  PROVE  InReplies' = InReplies
BY DEF InReplies

LEMMA SubmittedSends ==
  ASSUME CommentTypes, NEW kind, Submitted(kind)
  PROVE  LET d == ReplyDraft(reply.thread)
         IN  /\ \/ /\ calls' = calls \cup {Submission(kind)} /\ InReplies' = InReplies
                   /\ CallParts(Submission(kind)) = Held(d)
                   /\ InCalls' = InCalls \cup Held(d)
                \/ /\ calls' = calls /\ InCalls' = InCalls /\ InReplies' = InReplies \cup d.words
                   /\ kind = "command"
             /\ Sending \subseteq Sending' /\ Sending' \subseteq Sending \cup Held(d)
             /\ Held(d) \subseteq Sending' \cup forgone'
             /\ Held(d) = Held(replyDrafts[reply.thread]) /\ Held(d) \subseteq Parts(replyDrafts[reply.thread])
             /\ d.files \subseteq FilesOf(replyDrafts[reply.thread])
<1> DEFINE d == ReplyDraft(reply.thread)
<1>1. d \in Texts /\ Held(d) = d.words \cup d.files /\ d.words \subseteq Written /\ d.files \subseteq Written
      /\ Held(d) \subseteq Terms \cup Attachments
  BY ScreenTypes, TextFacts DEF Written, WrittenTerms, WrittenFiles
<1>2. /\ Held(d) = Held(replyDrafts[reply.thread]) /\ Held(d) \subseteq Parts(replyDrafts[reply.thread])
      /\ d.files \subseteq FilesOf(replyDrafts[reply.thread])
  <2>1. CASE replyDrafts[reply.thread] = NoReply
    BY <2>1, TextFacts DEF ReplyDraft, Held, NoText, FilesOf
  <2>2. CASE replyDrafts[reply.thread] # NoReply
    BY <1>1, <2>2, TextFacts DEF ReplyDraft
  <2> QED
    BY <2>1, <2>2
<1>3. CASE calls' = calls \cup {Submission(kind)} /\ UNCHANGED replies
  <2>1. CallParts(Submission(kind)) = Held(d)
    BY <1>1 DEF CallParts, Submission
  <2>2. InCalls' = InCalls \cup Held(d)
    BY <1>1, <1>3, <2>1 DEF InCalls, CallParts
  <2> QED
    BY <1>2, <1>3, <2>1, <2>2, SameReplies DEF Sending
<1>4. CASE /\ kind = "command" /\ UNCHANGED calls
           /\ replies' = Append(replies, [to |-> reply.thread, words |-> d.words, files |-> {}])
  <2>1. [to |-> reply.thread, words |-> d.words, files |-> {}] \in Answers
    BY <1>1, ScreenTypes, TextFacts DEF Answers
  <2>2. InReplies' = InReplies \cup d.words
    BY <1>4, <2>1, RepliesGrow
  <2>3. InCalls' = InCalls
    BY <1>4 DEF InCalls
  <2>4. d.files \subseteq forgone'
    BY <1>4 DEF Submitted
  <2> HIDE DEF d
  <2> QED
    BY <1>1, <1>2, <1>4, <2>2, <2>3, <2>4 DEF Sending, d
<1> QED
  BY <1>3, <1>4 DEF Submitted

LEMMA ClosedSends ==
  ASSUME CommentTypes, CommandsMeanIt, NEW s \in calls, Closed(s) \/ Dropped(s)
  PROVE  /\ calls' = calls \ {s} /\ InCalls' \subseteq InCalls
         /\ InReplies' \subseteq InReplies \cup CallParts(s) /\ InReplies \subseteq InReplies'
         /\ Sending' \subseteq Sending /\ Sending \subseteq Sending' \cup forgone'
<1>1. calls' = calls \ {s} /\ forgone \subseteq forgone'
  BY DEF Closed, Dropped, Ended
<1>2. /\ InCalls' \subseteq InCalls /\ InCalls \subseteq InCalls' \cup CallParts(s)
      /\ CallParts(s) \subseteq InCalls
  BY <1>1, SendingTypes DEF InCalls
<1>3. /\ InReplies' \subseteq InReplies \cup CallParts(s) /\ InReplies \subseteq InReplies'
      /\ CallParts(s) \subseteq InReplies' \cup forgone'
  <2>1. CASE UNCHANGED replies
    BY <2>1, SameReplies, SendingTypes DEF Closed, Dropped, CallParts
  <2>2. ASSUME NEW files \in {s.files, {}},
               replies' = Append(replies, [to |-> s.thread, words |-> s.words, files |-> files]),
               files = {} => s.kind = "command" \/ s.files = {}
        PROVE  /\ InReplies' \subseteq InReplies \cup CallParts(s) /\ InReplies \subseteq InReplies'
               /\ CallParts(s) \subseteq InReplies' \cup forgone'
    <3>1. [to |-> s.thread, words |-> s.words, files |-> files] \in Answers
      BY CallOf DEF Answers
    <3>2. InReplies' = InReplies \cup s.words \cup files
      BY <2>2, <3>1, RepliesGrow
    <3>3. files = {} => s.files \subseteq forgone
      BY <2>2 DEF CommandsMeanIt
    <3> QED
      BY <1>1, <3>2, <3>3 DEF CallParts
  <2> QED
    BY <2>1, <2>2 DEF Closed, Dropped
<1> QED
  BY <1>1, <1>2, <1>3 DEF Sending

LEMMA ReturnedSends ==
  ASSUME CommentTypes, CommandsMeanIt, NEW s \in calls, NEW t, Returned(s, t)
  PROVE  /\ calls' = calls \ {s} /\ InCalls' \subseteq InCalls /\ InReplies' = InReplies
         /\ Sending' \subseteq Sending /\ Sending \subseteq Sending' \cup s.words \cup forgone
<1>1. calls' = calls \ {s} /\ UNCHANGED replies
  BY DEF Returned, Ended
<1>2. s.files \subseteq forgone
  BY DEF CommandsMeanIt, Returned
<1>3. /\ InCalls' \subseteq InCalls /\ InCalls \subseteq InCalls' \cup CallParts(s)
  BY <1>1 DEF InCalls
<1> QED
  BY <1>1, <1>2, <1>3, SameReplies DEF Sending, CallParts

LEMMA AdvancedSends ==
  ASSUME CommentTypes, NEW s \in calls, NEW e, Advanced(s, e)
  PROVE  /\ InCalls' = InCalls /\ Sending' = Sending /\ InReplies \subseteq InReplies'
         /\ InReplies' \subseteq InReplies \cup CallParts(s)
         /\ \/ e.stage = "answer" /\ CallParts(e) \subseteq InReplies'
            \/ e.stage # "answer" /\ s.kind = "command" /\ InReplies' = InReplies
<1>1. calls' = (calls \ {s}) \cup {e} /\ CallParts(e) = CallParts(s)
  BY DEF Advanced, CallParts
<1>2. InCalls' = InCalls /\ CallParts(s) \subseteq InCalls
  BY <1>1, SendingTypes DEF InCalls, CallParts
<1>3. CASE s.kind = "command" /\ e.stage # "answer" /\ UNCHANGED replies
  BY <1>2, <1>3, SameReplies DEF Sending
<1>4. CASE /\ e.stage = "answer"
           /\ replies' = Append(replies, [to |-> s.thread, words |-> s.words, files |-> s.files])
  <2>1. [to |-> s.thread, words |-> s.words, files |-> s.files] \in Answers
    BY CallOf DEF Answers
  <2>2. InReplies' = InReplies \cup s.words \cup s.files
    BY <1>4, <2>1, RepliesGrow
  <2>3. CallParts(s) = s.words \cup s.files
    BY DEF CallParts
  <2> QED
    BY <1>1, <1>2, <1>4, <2>2, <2>3 DEF Sending
<1> QED
  BY <1>3, <1>4 DEF Advanced

LEMMA SameCalls ==
  ASSUME UNCHANGED <<calls, replies>>
  PROVE  InCalls' = InCalls /\ InReplies' = InReplies /\ Sending' = Sending
BY DEF InCalls, InReplies, Sending

LEMMA RepliesStay ==
  ASSUME CommentTypes, CommandsMeanIt, Step
  PROVE  InReplies \subseteq InReplies'
<1>1. ASSUME NEW kind, Submitted(kind)
      PROVE  InReplies \subseteq InReplies'
  BY <1>1, SubmittedSends
<1>2. ASSUME NEW s \in calls, Closed(s) \/ Dropped(s)
      PROVE  InReplies \subseteq InReplies'
  BY <1>2, ClosedSends
<1>3. ASSUME NEW s \in calls, NEW e, Advanced(s, e)
      PROVE  InReplies \subseteq InReplies'
  BY <1>3, AdvancedSends
<1>4. \/ UNCHANGED replies
      \/ \E kind : Submitted(kind)
      \/ \E s \in calls : Closed(s) \/ Dropped(s)
      \/ \E s \in calls : \E e : Advanced(s, e)
  BY DEF Step, Wrote, Turned, Came, Failed, Returned
<1> QED
  BY <1>1, <1>2, <1>3, <1>4, SameReplies

LEMMA StepCommandsMeanIt ==
  ASSUME CommentTypes, CommandsMeanIt, Step
  PROVE  CommandsMeanIt'
<1>1. forgone \subseteq forgone' /\ InReplies \subseteq InReplies'
  BY StepGrows, RepliesStay
<1>2. \A s : CallParts(s)' = CallParts(s)
  BY DEF CallParts
<1>3. ASSUME NEW kind, Submitted(kind)
      PROVE  CommandsMeanIt'
  <2>1. \A s \in calls' : s \in calls \/ s = Submission(kind)
    BY <1>3 DEF Submitted
  <2>2. /\ Submission(kind).kind = kind /\ Submission(kind).stage = kind
        /\ Submission(kind).files = ReplyDraft(reply.thread).files
    BY DEF Submission
  <2>3. kind = "command" => ReplyDraft(reply.thread).files \subseteq forgone'
    BY <1>3 DEF Submitted
  <2>4. kind \in {"message", "command"}
    BY <1>3 DEF Submitted
  <2> QED
    BY <1>1, <1>2, <2>1, <2>2, <2>3, <2>4 DEF CommandsMeanIt
<1>4. ASSUME NEW s \in calls, NEW e, Advanced(s, e)
      PROVE  CommandsMeanIt'
  <2>1. /\ \A c \in calls' : c \in calls \/ c = e
        /\ e.kind = s.kind /\ e.files = s.files
    BY <1>4 DEF Advanced
  <2>2. \/ e.stage = "answer" /\ CallParts(e) \subseteq InReplies'
        \/ e.stage # "answer" /\ s.kind = "command"
    BY <1>4, AdvancedSends
  <2> QED
    BY <1>1, <1>2, <2>1, <2>2 DEF CommandsMeanIt
<1>5. ASSUME calls' \subseteq calls
      PROVE  CommandsMeanIt'
  BY <1>1, <1>2, <1>5 DEF CommandsMeanIt
<1>6. \/ calls' \subseteq calls
      \/ \E kind : Submitted(kind)
      \/ \E s \in calls : \E e : Advanced(s, e)
  BY DEF Step, Wrote, Turned, Came, Failed, Closed, Dropped, Returned, Ended
<1> QED
  BY <1>3, <1>4, <1>5, <1>6


----------------------------------------------------------------------------
(* Where what is written is.                                               *)

NextIn(tokens, c) == \A t \in tokens : written'[t] = c \/ t \in misplaced'

LEMMA PartsTypes ==
  ASSUME CommentTypes
  PROVE  /\ \A d \in Stored : Parts(d) \subseteq Written /\ Held(d) \subseteq Parts(d)
         /\ Written \subseteq Terms \cup Attachments
         /\ \A c \in Threads : /\ Parts(ReplyDraft(c)) = Parts(replyDrafts[c])
                               /\ Held(ReplyDraft(c)) = Held(replyDrafts[c])
                               /\ ReplyDraft(c).files = FilesOf(replyDrafts[c])
                               /\ Parts(Shown(c)) \subseteq Parts(replyDrafts[c])
                               /\ Held(Shown(c)) = Held(replyDrafts[c])
                               /\ Shown(c).files = FilesOf(replyDrafts[c])
         /\ Parts(NoText) = {} /\ Held(NoText) = {} /\ NoText.files = {}
<1>1. \A d \in Texts : Parts(d) \subseteq Written /\ Held(d) \subseteq Parts(d)
  BY TextFacts DEF Written
<1>2. \A d \in Stored : Parts(d) \subseteq Written /\ Held(d) \subseteq Parts(d)
  BY <1>1, TextFacts
<1>3. Written \subseteq Terms \cup Attachments
  BY DEF Written, WrittenTerms, WrittenFiles
<1>4. Parts(NoText) = {} /\ Held(NoText) = {} /\ NoText.files = {}
  BY TextFacts DEF NoText
<1>5. ASSUME NEW c \in Threads
      PROVE  /\ Parts(ReplyDraft(c)) = Parts(replyDrafts[c]) /\ Held(ReplyDraft(c)) = Held(replyDrafts[c])
             /\ ReplyDraft(c).files = FilesOf(replyDrafts[c])
  <2>1. CASE replyDrafts[c] = NoReply
    <3>1. ReplyDraft(c) = NoText
      BY <2>1 DEF ReplyDraft
    <3> QED
      BY <1>4, <2>1, <3>1, TextFacts
  <2>2. CASE replyDrafts[c] # NoReply
    <3>1. ReplyDraft(c) = replyDrafts[c]
      BY <2>2 DEF ReplyDraft
    <3> QED
      BY <2>2, <3>1 DEF FilesOf
  <2> QED
    BY <2>1, <2>2
<1>6. ASSUME NEW c \in Threads
      PROVE  /\ Parts(Shown(c)) \subseteq Parts(ReplyDraft(c)) /\ Held(Shown(c)) = Held(ReplyDraft(c))
             /\ Shown(c).files = ReplyDraft(c).files
  <2> DEFINE d == ReplyDraft(c)
             e == Shown(c)
  <2>1. d \in Texts /\ e \in Texts
    BY ScreenTypes
  <2>2. e = [d EXCEPT !.up = {}]
    BY DEF Shown
  <2> HIDE DEF d, e
  <2>3. e.words = d.words /\ e.files = d.files /\ e.up = {}
    BY <2>1, <2>2 DEF Texts
  <2>4. /\ Parts(d) = d.words \cup d.files \cup d.up /\ Held(d) = d.words \cup d.files
        /\ Parts(e) = e.words \cup e.files \cup e.up /\ Held(e) = e.words \cup e.files
    BY <2>1, TextFacts
  <2>5. Parts(e) \subseteq Parts(d) /\ Held(e) = Held(d) /\ e.files = d.files
    BY <2>3, <2>4
  <2> QED
    BY <2>5 DEF d, e
<1> QED
  BY <1>2, <1>3, <1>4, <1>5, <1>6

LEMMA StaysIn ==
  ASSUME CommentTypes, WrittenGrows, misplaced \subseteq misplaced',
         NEW tokens \in SUBSET Written, NEW c, In(tokens, c)
  PROVE  NextIn(tokens, c)
BY DEF In, NextIn, Written, WrittenTerms, WrittenFiles, WrittenGrows

LEMMA LocatedStep ==
  ASSUME CommentTypes, Located, WrittenGrows, misplaced \subseteq misplaced',
         misplaced' \subseteq forgone' \cap resurfaced',
         NextIn(Parts(reply'.draft), reply'.thread),
         \A c \in Threads : \/ NextIn(Parts(replyDrafts'[c]), c)
                            \/ Parts(replyDrafts'[c]) \subseteq Parts(replyDrafts[c]),
         \A o \in 1..ReplyMounts, c \in Threads :
            draftsForPost'[o][c] = draftsForPost[o][c] \/ NextIn(Parts(draftsForPost'[o][c]), c),
         \A u \in attaching' : u \in attaching \/ written'[u.file] = u.thread,
         \A s \in calls' : s \in calls \/ NextIn(s.words \cup s.files \cup Parts(s.shown), s.thread)
  PROVE  Located'
<1>1. ASSUME NEW c \in Threads
      PROVE  NextIn(Parts(replyDrafts'[c]), c)
  <2>1. Parts(replyDrafts[c]) \subseteq Written
    BY PartsTypes, ScreenTypes
  <2>2. NextIn(Parts(replyDrafts[c]), c)
    BY <2>1, StaysIn DEF Located
  <2> QED
    BY <2>2 DEF NextIn
<1>2. ASSUME NEW o \in 1..ReplyMounts, NEW c \in Threads
      PROVE  NextIn(Parts(draftsForPost'[o][c]), c)
  <2>1. Parts(draftsForPost[o][c]) \subseteq Written
    BY PartsTypes DEF CommentTypes
  <2>2. NextIn(Parts(draftsForPost[o][c]), c)
    BY <2>1, StaysIn DEF Located
  <2> QED
    BY <2>2
<1>3. ASSUME NEW u \in attaching'
      PROVE  written'[u.file] = u.thread
  <2>1. CASE u \in attaching
    BY <2>1, RequestOf, CommentAssumption DEF Located, WrittenGrows, WrittenFiles
  <2> QED
    BY <2>1
<1>4. ASSUME NEW s \in calls'
      PROVE  NextIn(s.words \cup s.files \cup Parts(s.shown), s.thread)
  <2>1. CASE s \in calls
    <3>1. s.words \cup s.files \cup Parts(s.shown) \subseteq Written
      BY <2>1, CallOf, PartsTypes, TextFacts DEF Written
    <3> QED
      BY <2>1, <3>1, StaysIn DEF Located
  <2> QED
    BY <2>1
<1> QED
  BY <1>1, <1>2, <1>3, <1>4 DEF Located, In, NextIn

LEMMA StepLocated ==
  ASSUME CommentTypes, Located, Step
  PROVE  Located'
<1>1. /\ WrittenGrows /\ misplaced \subseteq misplaced' /\ forgone \subseteq forgone'
      /\ resurfaced \subseteq resurfaced'
  BY StepGrows
<1>2. misplaced \subseteq forgone' \cap resurfaced'
  BY <1>1 DEF Located
<1>3. ASSUME NEW c \in Threads
      PROVE  NextIn(Parts(replyDrafts[c]), c) /\ NextIn(Parts(Shown(c)), c)
             /\ NextIn(Parts(ReplyDraft(c)), c)
  <2>1. Parts(replyDrafts[c]) \subseteq Written
    BY PartsTypes, ScreenTypes
  <2>2. NextIn(Parts(replyDrafts[c]), c)
    BY <1>1, <2>1, StaysIn DEF Located
  <2> QED
    BY <2>2, PartsTypes DEF NextIn
<1>4. NextIn(Parts(reply.draft), reply.thread)
  <2>1. Parts(reply.draft) \subseteq Written
    BY PartsTypes, ScreenTypes, TextFacts
  <2> QED
    BY <1>1, <2>1, StaysIn DEF Located
<1>5. reply.thread \in Threads
  BY ScreenTypes
<1>6. CASE \E draft, source, new : Wrote(draft, source, new)
  <2>1. PICK draft, source, new : Wrote(draft, source, new)
    BY <1>6
  <2>2. NextIn(Parts(source), reply.thread)
    BY <1>3, <1>4, <1>5, <2>1 DEF Wrote
  <2>3. NextIn(Parts(draft), reply.thread)
    BY <2>1, <2>2 DEF Wrote, NextIn
  <2>4. /\ reply'.draft = draft /\ reply'.thread = reply.thread /\ UNCHANGED <<calls, misplaced>>
        /\ replyDrafts' = [replyDrafts EXCEPT ![reply.thread] = draft]
        /\ \/ draftsForPost' = [draftsForPost EXCEPT ![reply.object][reply.thread] = draft]
           \/ UNCHANGED draftsForPost
    BY <2>1 DEF Wrote
  <2>5. \A c \in Threads : NextIn(Parts(replyDrafts'[c]), c)
    BY <1>3, <1>5, <2>3, <2>4, StoreAfter
  <2>6. \A o \in 1..ReplyMounts, c \in Threads :
            draftsForPost'[o][c] = draftsForPost[o][c] \/ NextIn(Parts(draftsForPost'[o][c]), c)
    BY <1>5, <2>3, <2>4, ScreenTypes, MemoryAfter
  <2>7. \A u \in attaching' : u \in attaching \/ written'[u.file] = u.thread
    <3>1. ASSUME NEW u \in attaching', u \notin attaching
          PROVE  u.file \in new /\ u = [file |-> u.file, thread |-> reply.thread, object |-> reply.object]
      BY <2>1, <3>1 DEF Wrote
    <3>2. \A t \in new : written'[t] = reply.thread
      BY <2>1 DEF Wrote
    <3> QED
      BY <3>1, <3>2
  <2> QED
    BY <1>1, <1>2, <2>3, <2>4, <2>5, <2>6, <2>7, LocatedStep
<1>7. ASSUME NEW c \in Threads, Turned(c)
      PROVE  Located'
  <2>1. /\ reply'.draft = Shown(c) /\ reply'.thread = c
        /\ UNCHANGED <<draftsForPost, attaching, calls, misplaced>>
        /\ \A q \in Threads : Parts(replyDrafts'[q]) \subseteq Parts(replyDrafts[q])
    BY <1>7 DEF Turned
  <2> QED
    BY <1>1, <1>2, <1>3, <2>1, LocatedStep
<1>8. ASSUME NEW u \in attaching, NEW draft, Came(u, draft)
      PROVE  Located'
  <2> DEFINE d == draftsForPost[u.object][u.thread]
  <2>1. /\ reply'.draft = (IF ShownBy(u) THEN draft ELSE reply.draft) /\ reply'.thread = reply.thread
        /\ replyDrafts' = [replyDrafts EXCEPT ![u.thread] = draft]
        /\ draftsForPost' = [draftsForPost EXCEPT ![u.object][u.thread] = draft]
        /\ attaching' = attaching \ {u} /\ UNCHANGED <<calls, misplaced>>
        /\ Parts(draft) \subseteq Parts(d) \cup {u.file}
    BY <1>8 DEF Came, Overwrite
  <2>2. u.object \in 1..ReplyMounts /\ u.thread \in Threads /\ d \in Stored /\ u.file \in Written
    BY RequestOf DEF Written
  <2>3. NextIn(Parts(d) \cup {u.file}, u.thread)
    <3>1. In(Parts(d) \cup {u.file}, u.thread)
      BY <2>2 DEF Located, In
    <3>2. Parts(d) \cup {u.file} \subseteq Written
      BY <2>2, PartsTypes
    <3> HIDE DEF d
    <3> QED
      BY <1>1, <3>1, <3>2, StaysIn
  <2>4. NextIn(Parts(draft), u.thread)
    BY <2>1, <2>3 DEF NextIn
  <2>5. NextIn(Parts(reply'.draft), reply'.thread)
    BY <1>4, <2>1, <2>4 DEF ShownBy
  <2>6. \A c \in Threads : NextIn(Parts(replyDrafts'[c]), c)
    BY <1>3, <2>1, <2>2, <2>4, StoreAfter
  <2>7. \A o \in 1..ReplyMounts, c \in Threads :
            draftsForPost'[o][c] = draftsForPost[o][c] \/ NextIn(Parts(draftsForPost'[o][c]), c)
    BY <2>1, <2>2, <2>4, MemoryAfter
  <2> QED
    BY <1>1, <1>2, <2>1, <2>5, <2>6, <2>7, LocatedStep
<1>9. ASSUME NEW kind, Submitted(kind)
      PROVE  Located'
  <2>1. /\ \A s \in calls' : s \in calls \/ s = Submission(kind)
        /\ reply'.draft = NoText \/ reply'.draft = reply.draft
        /\ reply'.thread = reply.thread
        /\ replyDrafts' = [replyDrafts EXCEPT ![reply.thread] = NoReply]
        /\ UNCHANGED <<draftsForPost, attaching, misplaced>>
    BY <1>9 DEF Submitted, Clear
  <2>2. \A c \in Threads : Parts(replyDrafts'[c]) \subseteq Parts(replyDrafts[c])
    BY <1>5, <2>1, TextFacts DEF CommentTypes
  <2>3. NextIn(Parts(reply'.draft), reply'.thread)
    BY <1>4, <2>1, PartsTypes DEF NextIn
  <2>4. NextIn(Submission(kind).words \cup Submission(kind).files \cup Parts(Submission(kind).shown),
               Submission(kind).thread)
    <3> DEFINE d == ReplyDraft(reply.thread)
    <3>1. /\ Submission(kind).words = d.words /\ Submission(kind).files = d.files
          /\ Submission(kind).shown = reply.draft /\ Submission(kind).thread = reply.thread
      BY DEF Submission
    <3>2. Parts(d) = d.words \cup d.files \cup d.up
      BY ScreenTypes, TextFacts
    <3>3. NextIn(Parts(d), reply.thread)
      BY <1>3, <1>5
    <3> HIDE DEF d
    <3> QED
      BY <1>4, <3>1, <3>2, <3>3 DEF NextIn
  <2> QED
    BY <1>1, <1>2, <2>1, <2>2, <2>3, <2>4, LocatedStep
<1>10. ASSUME NEW s \in calls, Closed(s) \/ Dropped(s)
       PROVE  Located'
  <2>1. /\ calls' \subseteq calls /\ reply'.thread = reply.thread
        /\ UNCHANGED <<draftsForPost, attaching, misplaced>>
        /\ reply'.draft \in {reply.draft, NoText, Shown(reply.thread)}
        /\ \/ UNCHANGED replyDrafts
           \/ replyDrafts' = [replyDrafts EXCEPT ![s.thread] = NoReply]
    BY <1>10 DEF Closed, Dropped, Ended
  <2>2. \A c \in Threads : Parts(replyDrafts'[c]) \subseteq Parts(replyDrafts[c])
    BY <2>1, TextFacts DEF CommentTypes
  <2>3. NextIn(Parts(reply'.draft), reply'.thread)
    BY <1>3, <1>4, <1>5, <2>1, PartsTypes DEF NextIn
  <2> QED
    BY <1>1, <1>2, <2>1, <2>2, <2>3, LocatedStep
<1>11. ASSUME NEW s \in calls, NEW t, Returned(s, t)
       PROVE  Located'
  <2>1. /\ calls' \subseteq calls /\ reply'.thread = reply.thread /\ reply'.draft = reply.draft
        /\ UNCHANGED <<draftsForPost, attaching>>
        /\ replyDrafts' = [replyDrafts EXCEPT ![t] = s.shown] /\ t \in Threads
        /\ t = s.thread \/ Parts(s.shown) \subseteq misplaced'
    BY <1>11 DEF Returned, Ended
  <2>2. misplaced' \subseteq forgone' \cap resurfaced'
    BY <1>2, <1>11 DEF Returned
  <2>3. NextIn(Parts(s.shown), t)
    <3>1. Parts(s.shown) \subseteq Written
      BY CallOf, PartsTypes, TextFacts
    <3>2. In(Parts(s.shown), s.thread)
      BY DEF Located, In
    <3> QED
      BY <1>1, <2>1, <3>1, <3>2, StaysIn DEF NextIn
  <2>4. \A c \in Threads : NextIn(Parts(replyDrafts'[c]), c)
    BY <1>3, <2>1, <2>3, StoreAfter
  <2> QED
    BY <1>1, <1>4, <2>1, <2>2, <2>4, LocatedStep
<1>12. ASSUME NEW s \in calls, NEW e, Advanced(s, e)
       PROVE  Located'
  <2>1. /\ UNCHANGED <<reply, replyDrafts, draftsForPost, attaching, written, misplaced>>
        /\ calls' = (calls \ {s}) \cup {e} /\ e.words = s.words /\ e.files = s.files
        /\ e.shown = s.shown /\ e.thread = s.thread
    BY <1>12 DEF Advanced
  <2>2. NextIn(e.words \cup e.files \cup Parts(e.shown), e.thread)
    BY <2>1 DEF Located, In, NextIn
  <2> QED
    BY <1>1, <1>2, <1>4, <2>1, <2>2, LocatedStep
<1>13. ASSUME NEW u \in attaching, Failed(u)
       PROVE  Located'
  <2>1. /\ UNCHANGED <<reply, replyDrafts, draftsForPost, calls, written, misplaced>>
        /\ attaching' \subseteq attaching
    BY <1>13 DEF Failed
  <2> QED
    BY <1>1, <1>2, <1>4, <2>1, LocatedStep
<1> QED
  BY <1>6, <1>7, <1>8, <1>9, <1>10, <1>11, <1>12, <1>13 DEF Step


----------------------------------------------------------------------------
(* A file under way is nowhere else.                                       *)

LEMMA FilesHadHas ==
  ASSUME CommentTypes
  PROVE  /\ FilesHad \subseteq WrittenFiles
         /\ \A f \in Attachments : f \in Sending => f \in FilesHad
         /\ reply.draft.files \subseteq FilesHad
         /\ \A c \in Threads : FilesOf(replyDrafts[c]) \subseteq FilesHad
         /\ \A o \in 1..ReplyMounts, c \in Threads : FilesOf(draftsForPost[o][c]) \subseteq FilesHad
         /\ \A s \in calls : s.shown.files \subseteq FilesHad
<1>1. \A d \in Stored : FilesOf(d) \subseteq WrittenFiles
  BY TextFacts
<1>2. WrittenFiles \subseteq Attachments
  BY DEF WrittenFiles
<1>3. reply.draft.files \subseteq WrittenFiles
  BY ScreenTypes, TextFacts
<1>4. \A c \in Threads : FilesOf(replyDrafts[c]) \subseteq WrittenFiles
  BY <1>1, ScreenTypes
<1>5. \A o \in 1..ReplyMounts, c \in Threads : FilesOf(draftsForPost[o][c]) \subseteq WrittenFiles
  BY <1>1 DEF CommentTypes
<1>6. \A s \in calls : s.shown.files \subseteq WrittenFiles
  BY CallOf, TextFacts
<1>7. \A f \in Attachments : f \in Sending => f \in WrittenFiles
  BY SendingTypes, CommentAssumption DEF Written, WrittenTerms
<1> QED
  BY <1>2, <1>3, <1>4, <1>5, <1>6, <1>7 DEF FilesHad

LEMMA FilesHadStep ==
  ASSUME NEW extra,
         \A f \in Attachments : f \in Sending' => f \in FilesHad \cup extra,
         reply'.draft.files \subseteq FilesHad \cup extra,
         \A c \in Threads : FilesOf(replyDrafts'[c]) \subseteq FilesHad \cup extra,
         \A o \in 1..ReplyMounts, c \in Threads :
            FilesOf(draftsForPost'[o][c]) \subseteq FilesHad \cup extra,
         \A s \in calls' : s.shown.files \subseteq FilesHad \cup extra
  PROVE  FilesHad' \subseteq FilesHad \cup extra
BY DEF FilesHad

LEMMA SameUploads ==
  ASSUME OneUpload, UNCHANGED attaching, FilesHad' \subseteq FilesHad
  PROVE  OneUpload'
BY DEF OneUpload

LEMMA WroteOneUpload ==
  ASSUME CommentTypes, OneUpload, NEW draft, NEW source, NEW new, Wrote(draft, source, new)
  PROVE  OneUpload'
<1>1. /\ reply'.draft = draft /\ replyDrafts' = [replyDrafts EXCEPT ![reply.thread] = draft]
      /\ \/ draftsForPost' = [draftsForPost EXCEPT ![reply.object][reply.thread] = draft]
         \/ UNCHANGED draftsForPost
      /\ UNCHANGED <<calls, replies>> /\ draft.files \subseteq source.files
      /\ source \in {reply.draft, ReplyDraft(reply.thread)} /\ draft \in Texts'
  BY DEF Wrote
<1>2. reply.thread \in Threads /\ reply.object \in 1..ReplyMounts
  BY ScreenTypes
<1>3. draft.files \subseteq FilesHad
  BY <1>1, <1>2, FilesHadHas, PartsTypes
<1>4. FilesOf(draft) \subseteq FilesHad
  BY <1>3 DEF FilesOf
<1>5. \A c \in Threads : FilesOf(replyDrafts'[c]) \subseteq FilesHad
  BY <1>1, <1>2, <1>4, FilesHadHas, StoreAfter
<1>6. \A o \in 1..ReplyMounts, c \in Threads : FilesOf(draftsForPost'[o][c]) \subseteq FilesHad
  <2>1. \A o \in 1..ReplyMounts, c \in Threads : FilesOf(draftsForPost[o][c]) \subseteq FilesHad
    BY FilesHadHas
  <2>2. CASE draftsForPost' = [draftsForPost EXCEPT ![reply.object][reply.thread] = draft]
    BY <1>2, <1>4, <2>1, <2>2, MemoryAfter
  <2>3. CASE draftsForPost' = draftsForPost
    BY <2>1, <2>3
  <2> QED
    BY <1>1, <2>2, <2>3
<1>7. FilesHad' \subseteq FilesHad \cup {}
  BY <1>1, <1>3, <1>5, <1>6, FilesHadHas, FilesHadStep, SameCalls
<1>8. ASSUME NEW u \in attaching', u \notin attaching
      PROVE  u.file \notin WrittenFiles
  BY <1>8 DEF Wrote, WrittenFiles
<1>9. \A u \in attaching : u.file \in WrittenFiles
  BY RequestOf
<1>10. \A u, v \in attaching' : u \notin attaching /\ v \notin attaching => u = v
  BY DEF Wrote
<1> QED
  BY <1>7, <1>8, <1>9, <1>10, FilesHadHas DEF OneUpload

LEMMA CameOneUpload ==
  ASSUME CommentTypes, OneUpload, NEW u \in attaching, NEW draft, Came(u, draft)
  PROVE  OneUpload'
<1>1. /\ reply'.draft = (IF ShownBy(u) THEN draft ELSE reply.draft)
      /\ replyDrafts' = [replyDrafts EXCEPT ![u.thread] = draft]
      /\ draftsForPost' = [draftsForPost EXCEPT ![u.object][u.thread] = draft]
      /\ attaching' = attaching \ {u} /\ UNCHANGED <<calls, replies>>
      /\ draft.files \subseteq FilesOf(draftsForPost[u.object][u.thread]) \cup {u.file}
  BY DEF Came, Overwrite
<1>2. u.object \in 1..ReplyMounts /\ u.thread \in Threads
  BY RequestOf
<1>3. draft.files \subseteq FilesHad \cup {u.file} /\ FilesOf(draft) \subseteq FilesHad \cup {u.file}
  BY <1>1, <1>2, FilesHadHas DEF FilesOf
<1>4. \A c \in Threads : FilesOf(replyDrafts'[c]) \subseteq FilesHad \cup {u.file}
  BY <1>1, <1>2, <1>3, FilesHadHas, StoreAfter
<1>5. \A o \in 1..ReplyMounts, c \in Threads : FilesOf(draftsForPost'[o][c]) \subseteq FilesHad \cup {u.file}
  BY <1>1, <1>2, <1>3, FilesHadHas, MemoryAfter
<1>6. FilesHad' \subseteq FilesHad \cup {u.file}
  BY <1>1, <1>3, <1>4, <1>5, FilesHadHas, FilesHadStep, SameCalls
<1> QED
  BY <1>1, <1>6 DEF OneUpload

LEMMA FailedOneUpload ==
  ASSUME CommentTypes, OneUpload, NEW u \in attaching, Failed(u)
  PROVE  OneUpload'
<1>1. /\ attaching' \subseteq attaching
      /\ UNCHANGED <<reply, replyDrafts, draftsForPost, calls, replies>>
  BY DEF Failed
<1>2. FilesHad' \subseteq FilesHad \cup {}
  BY <1>1, FilesHadHas, FilesHadStep, SameCalls
<1> QED
  BY <1>1, <1>2 DEF OneUpload

LEMMA SubmittedOneUpload ==
  ASSUME CommentTypes, OneUpload, NEW kind, Submitted(kind)
  PROVE  OneUpload'
<1>1. /\ \A s \in calls' : s \in calls \/ s = Submission(kind)
      /\ reply'.draft = NoText \/ reply'.draft = reply.draft
      /\ replyDrafts' = [replyDrafts EXCEPT ![reply.thread] = NoReply]
      /\ UNCHANGED <<draftsForPost, attaching>>
  BY DEF Submitted, Clear
<1>2. reply.thread \in Threads
  BY ScreenTypes
<1>3. \A f \in Attachments : f \in Sending' => f \in FilesHad
  <2> DEFINE d == ReplyDraft(reply.thread)
  <2>1. Sending' \subseteq Sending \cup Held(d)
    BY SubmittedSends
  <2>2. d \in Texts /\ d.words \cap Attachments = {} /\ Held(d) = d.words \cup d.files
    BY <1>2, ScreenTypes, TextFacts, CommentAssumption DEF WrittenTerms
  <2>3. d.files \subseteq FilesHad
    BY <1>2, PartsTypes, FilesHadHas
  <2> HIDE DEF d
  <2> QED
    BY <2>1, <2>2, <2>3, FilesHadHas
<1>4. \A c \in Threads : FilesOf(replyDrafts'[c]) \subseteq FilesHad
  BY <1>1, <1>2, FilesHadHas, TextFacts DEF CommentTypes
<1>5. \A s \in calls' : s.shown.files \subseteq FilesHad
  BY <1>1, FilesHadHas DEF Submission
<1>6. reply'.draft.files \subseteq FilesHad
  BY <1>1, FilesHadHas, PartsTypes
<1>7. \A o \in 1..ReplyMounts, c \in Threads : FilesOf(draftsForPost'[o][c]) \subseteq FilesHad
  <2>1. \A o \in 1..ReplyMounts, c \in Threads : FilesOf(draftsForPost[o][c]) \subseteq FilesHad
    BY FilesHadHas
  <2>2. draftsForPost' = draftsForPost
    BY <1>1
  <2> QED
    BY <2>1, <2>2
<1>8. FilesHad' \subseteq FilesHad \cup {}
  BY <1>3, <1>4, <1>5, <1>6, <1>7, FilesHadStep
<1> QED
  BY <1>1, <1>8, SameUploads

LEMMA TurnedOneUpload ==
  ASSUME CommentTypes, OneUpload, NEW c \in Threads, Turned(c)
  PROVE  OneUpload'
<1>1. /\ reply'.draft = Shown(c) /\ UNCHANGED <<draftsForPost, attaching, calls, replies>>
      /\ \A q \in Threads : FilesOf(replyDrafts'[q]) = FilesOf(replyDrafts[q])
  BY DEF Turned
<1>2. reply'.draft.files \subseteq FilesHad
  BY <1>1, FilesHadHas, PartsTypes
<1>3. FilesHad' \subseteq FilesHad \cup {}
  BY <1>1, <1>2, FilesHadHas, FilesHadStep, SameCalls
<1> QED
  BY <1>1, <1>3, SameUploads

LEMMA CallOneUpload ==
  ASSUME CommentTypes, CommandsMeanIt, OneUpload, NEW s \in calls, NEW e, NEW t,
         Closed(s) \/ Dropped(s) \/ Returned(s, t) \/ Advanced(s, e)
  PROVE  OneUpload'
<1>1. /\ \A c \in calls' : \E q \in calls : c.shown = q.shown
      /\ reply'.draft \in {reply.draft, NoText, Shown(reply.thread)}
      /\ UNCHANGED <<draftsForPost, attaching>>
  BY DEF Closed, Dropped, Returned, Advanced, Ended
<1>2. \/ UNCHANGED replyDrafts
      \/ replyDrafts' = [replyDrafts EXCEPT ![s.thread] = NoReply]
      \/ replyDrafts' = [replyDrafts EXCEPT ![t] = s.shown]
  BY DEF Closed, Dropped, Returned, Advanced
<1>3. Sending' \subseteq Sending
  BY ClosedSends, ReturnedSends, AdvancedSends
<1>4. \A c \in Threads : FilesOf(replyDrafts'[c]) \subseteq FilesHad
  <2>1. FilesOf(s.shown) \subseteq FilesHad
    BY FilesHadHas DEF FilesOf
  <2> QED
    BY <1>2, <2>1, FilesHadHas, TextFacts DEF CommentTypes
<1>5. reply'.draft.files \subseteq FilesHad
  BY <1>1, FilesHadHas, PartsTypes, ScreenTypes
<1>6. \A o \in 1..ReplyMounts, c \in Threads : FilesOf(draftsForPost'[o][c]) \subseteq FilesHad
  <2>1. \A o \in 1..ReplyMounts, c \in Threads : FilesOf(draftsForPost[o][c]) \subseteq FilesHad
    BY FilesHadHas
  <2>2. draftsForPost' = draftsForPost
    BY <1>1
  <2> QED
    BY <2>1, <2>2
<1>7. \A c \in calls' : c.shown.files \subseteq FilesHad
  BY <1>1, FilesHadHas
<1>8. FilesHad' \subseteq FilesHad \cup {}
  BY <1>3, <1>4, <1>5, <1>6, <1>7, FilesHadHas, FilesHadStep
<1> QED
  BY <1>1, <1>8, SameUploads

LEMMA StepOneUpload ==
  ASSUME CommentTypes, CommandsMeanIt, OneUpload, Step
  PROVE  OneUpload'
BY WroteOneUpload, TurnedOneUpload, CameOneUpload, FailedOneUpload, SubmittedOneUpload, CallOneUpload
   DEF Step


----------------------------------------------------------------------------
(* Nothing is sent twice.                                                  *)

\* What stays behind when a thread is cleared is not what was in its draft.
LEMMA Elsewhere ==
  ASSUME CommentTypes, Located, NEW c \in Threads, NEW q \in Threads, c # q,
         NEW tokens, In(tokens, q)
  PROVE  Parts(replyDrafts[c]) \cap tokens \subseteq resurfaced
BY DEF Located, In

LEMMA ReachTypes ==
  ASSUME CommentTypes
  PROVE  /\ \A c \in Threads : Parts(replyDrafts[c]) \subseteq Written
         /\ \A u \in attaching : Parts(draftsForPost[u.object][u.thread]) \subseteq Written
         /\ Parts(reply.draft) \subseteq Written
BY ScreenTypes, RequestOf, PartsTypes, TextFacts

\* What is new is neither sent nor on its way.
LEMMA NewIsUnsent ==
  ASSUME CommentTypes, NEW t \in Terms \cup Attachments, written[t] = "nowhere"
  PROVE  /\ t \notin Sending /\ t \notin InReplies /\ \A s \in calls : t \notin CallParts(s)
BY SendingTypes DEF Written, WrittenTerms, WrittenFiles, Sending

LEMMA WroteSentOnce ==
  ASSUME CommentTypes, SentOnce, NEW draft, NEW source, NEW new, Wrote(draft, source, new)
  PROVE  SentOnce'
<1>1. /\ reply'.draft = draft /\ reply'.object = reply.object
      /\ replyDrafts' = [replyDrafts EXCEPT ![reply.thread] = draft]
      /\ \/ draftsForPost' = [draftsForPost EXCEPT ![reply.object][reply.thread] = draft]
         \/ UNCHANGED <<draftsForPost, attaching>>
      /\ resurfaced \subseteq resurfaced' /\ UNCHANGED <<calls, replies>>
  BY DEF Wrote
<1>2. InCalls' = InCalls /\ InReplies' = InReplies /\ Sending' = Sending
  BY <1>1, SameCalls
<1>3. reply.thread \in Threads /\ reply.object \in 1..ReplyMounts
  BY ScreenTypes
<1>4. Parts(draft) \cap Sending \subseteq resurfaced'
  <2> SUFFICES ASSUME NEW t \in Parts(draft), t \in Sending
               PROVE  t \in resurfaced'
    OBVIOUS
  <2>1. t \in Parts(source)
    <3>1. t \notin new
      BY NewIsUnsent DEF Wrote
    <3> QED
      BY <3>1 DEF Wrote
  <2>2. CASE source = ReplyDraft(reply.thread)
    BY <1>1, <1>3, <2>1, <2>2, PartsTypes DEF SentOnce
  <2>3. CASE source = reply.draft /\ source # ReplyDraft(reply.thread)
    <3>1. t \in resurfaced \/ t \in ShownCalls
      BY <2>1, <2>3 DEF SentOnce
    <3>2. CASE t \in ShownCalls
      <4>1. PICK s \in calls : OnScreen(s) /\ t \in CallParts(s)
        BY <3>2 DEF ShownCalls
      <4>2. t \in InCommands
        BY <4>1 DEF OnScreen, InCommands, CallParts
      <4> QED
        BY <2>3, <4>2 DEF Wrote
    <3> QED
      BY <1>1, <3>1, <3>2
  <2> QED
    BY <2>2, <2>3 DEF Wrote
<1>5. ASSUME NEW c \in Threads
      PROVE  Parts(replyDrafts'[c]) \cap Sending \subseteq resurfaced'
  <2>1. replyDrafts'[c] = draft \/ replyDrafts'[c] = replyDrafts[c]
    BY <1>1, <1>3, StoreAfter
  <2> QED
    BY <1>1, <1>4, <2>1 DEF SentOnce
<1>6. ASSUME NEW u \in attaching', u.object = reply.object
      PROVE  Parts(draftsForPost'[u.object][u.thread]) \cap Sending \subseteq resurfaced'
  <2>1. CASE u \in attaching
    <3>1. \/ draftsForPost'[u.object][u.thread] = draft
          \/ draftsForPost'[u.object][u.thread] = draftsForPost[u.object][u.thread]
      <4>1. u.object \in 1..ReplyMounts /\ u.thread \in Threads
        BY <2>1, RequestOf
      <4>2. CASE draftsForPost' = [draftsForPost EXCEPT ![reply.object][reply.thread] = draft]
        BY <1>3, <4>1, <4>2, MemoryAfter
      <4>3. CASE draftsForPost' = draftsForPost
        BY <4>3
      <4> QED
        BY <1>1, <4>2, <4>3
    <3> QED
      BY <1>1, <1>4, <1>6, <2>1, <3>1 DEF SentOnce
  <2>2. CASE u \notin attaching
    <3>1. /\ u = [file |-> u.file, thread |-> reply.thread, object |-> reply.object]
          /\ draftsForPost' = [draftsForPost EXCEPT ![reply.object][reply.thread] = draft]
      BY <2>2 DEF Wrote
    <3>2. u.object = reply.object /\ u.thread = reply.thread
      BY <3>1
    <3>3. draftsForPost'[u.object][u.thread] = draft
      BY <1>3, <3>1, <3>2 DEF CommentTypes
    <3> QED
      BY <1>4, <3>3
  <2> QED
    BY <2>1, <2>2
<1>7. /\ \A s, v \in calls : s # v => CallParts(s) \cap CallParts(v) \subseteq resurfaced'
      /\ \A s \in calls : s.stage # "answer" => CallParts(s) \cap InReplies \subseteq resurfaced'
  BY <1>1 DEF SentOnce
<1> QED
  BY <1>1, <1>2, <1>4, <1>5, <1>6, <1>7 DEF SentOnce, CallParts

LEMMA TurnedSentOnce ==
  ASSUME CommentTypes, SentOnce, NEW c \in Threads, Turned(c)
  PROVE  SentOnce'
<1>1. /\ reply'.draft = Shown(c) /\ UNCHANGED <<draftsForPost, attaching, calls, replies, resurfaced>>
      /\ \A q \in Threads : Parts(replyDrafts'[q]) \subseteq Parts(replyDrafts[q])
      /\ reply' \in Screens /\ reply.object <= reply'.object
  BY DEF Turned
<1>2. InCalls' = InCalls /\ InReplies' = InReplies /\ Sending' = Sending
  BY <1>1, SameCalls
<1>3. \A u \in attaching : u.object = reply'.object => u.object = reply.object
  <2>1. reply'.object \in Nat /\ reply.object \in Nat
    BY <1>1, ScreenTypes, CommentAssumption DEF Screens
  <2> QED
    BY <1>1, <2>1, RequestOf
<1>4. Parts(reply'.draft) \cap Sending \subseteq resurfaced
  BY <1>1, PartsTypes DEF SentOnce
<1>6. \A q \in Threads : Parts(replyDrafts'[q]) \cap Sending \subseteq resurfaced
  BY <1>1 DEF SentOnce
<1>7. \A u \in attaching : u.object = reply'.object =>
        Parts(draftsForPost[u.object][u.thread]) \cap Sending \subseteq resurfaced
  BY <1>3 DEF SentOnce
<1>8. /\ \A s, v \in calls : s # v => CallParts(s) \cap CallParts(v) \subseteq resurfaced
      /\ \A s \in calls : s.stage # "answer" => CallParts(s) \cap InReplies \subseteq resurfaced
  BY DEF SentOnce
<1> QED
  BY <1>1, <1>2, <1>4, <1>6, <1>7, <1>8 DEF SentOnce, CallParts

LEMMA CameSentOnce ==
  ASSUME CommentTypes, OneUpload, SentOnce, NEW u \in attaching, NEW draft, Came(u, draft)
  PROVE  SentOnce'
<1>1. /\ reply'.draft = (IF ShownBy(u) THEN draft ELSE reply.draft) /\ reply'.object = reply.object
      /\ replyDrafts' = [replyDrafts EXCEPT ![u.thread] = draft]
      /\ draftsForPost' = [draftsForPost EXCEPT ![u.object][u.thread] = draft]
      /\ attaching' = attaching \ {u} /\ UNCHANGED <<calls, replies>>
      /\ Parts(draft) \subseteq Parts(draftsForPost[u.object][u.thread]) \cup {u.file}
      /\ resurfaced' = IF u.object # reply.object THEN resurfaced \cup Parts(draft) ELSE resurfaced
  BY DEF Came, Overwrite
<1>2. InCalls' = InCalls /\ InReplies' = InReplies /\ Sending' = Sending
  BY <1>1, SameCalls
<1>3. u.object \in 1..ReplyMounts /\ u.thread \in Threads /\ resurfaced \subseteq resurfaced'
  BY <1>1, RequestOf
<1>4. Parts(draft) \cap Sending \subseteq resurfaced'
  <2>1. u.file \notin Sending
    BY RequestOf, FilesHadHas DEF OneUpload, WrittenFiles
  <2>2. CASE u.object = reply.object
    BY <1>1, <2>1, <2>2 DEF SentOnce
  <2>3. CASE u.object # reply.object
    BY <1>1, <2>3
  <2> QED
    BY <2>2, <2>3
<1>5. ASSUME NEW c \in Threads
      PROVE  Parts(replyDrafts'[c]) \cap Sending \subseteq resurfaced'
  <2>1. replyDrafts'[c] = draft \/ replyDrafts'[c] = replyDrafts[c]
    BY <1>1, <1>3, StoreAfter
  <2> QED
    BY <1>3, <1>4, <2>1 DEF SentOnce
<1>6. ASSUME NEW v \in attaching', v.object = reply.object
      PROVE  Parts(draftsForPost'[v.object][v.thread]) \cap Sending \subseteq resurfaced'
  <2>1. v \in attaching
    BY <1>1
  <2>2. \/ draftsForPost'[v.object][v.thread] = draft
        \/ draftsForPost'[v.object][v.thread] = draftsForPost[v.object][v.thread]
    BY <1>1, <1>3, <2>1, RequestOf, MemoryAfter
  <2> QED
    BY <1>3, <1>4, <1>6, <2>1, <2>2 DEF SentOnce
<1>7. ShownCalls' = ShownCalls
  BY <1>1 DEF ShownCalls, OnScreen, CallParts
<1>8. Parts(reply'.draft) \cap Sending \subseteq resurfaced' \cup ShownCalls
  BY <1>1, <1>3, <1>4 DEF SentOnce
<1>9. /\ \A s, v \in calls : s # v => CallParts(s) \cap CallParts(v) \subseteq resurfaced'
      /\ \A s \in calls : s.stage # "answer" => CallParts(s) \cap InReplies \subseteq resurfaced'
  BY <1>3 DEF SentOnce
<1> QED
  BY <1>1, <1>2, <1>5, <1>6, <1>7, <1>8, <1>9 DEF SentOnce, CallParts

LEMMA FailedSentOnce ==
  ASSUME SentOnce, NEW u \in attaching, Failed(u)
  PROVE  SentOnce'
<1>1. /\ attaching' \subseteq attaching
      /\ UNCHANGED <<reply, replyDrafts, draftsForPost, calls, replies, resurfaced>>
  BY DEF Failed
<1>2. InReplies' = InReplies /\ Sending' = Sending /\ ShownCalls' = ShownCalls
  BY <1>1, SameCalls DEF ShownCalls, OnScreen, CallParts
<1> QED
  BY <1>1, <1>2 DEF SentOnce, CallParts


LEMMA SubmittedSentOnce ==
  ASSUME CommentTypes, Located, OneUpload, SentOnce, NEW kind, Submitted(kind)
  PROVE  SentOnce'
<1> DEFINE d == Held(ReplyDraft(reply.thread))
<1>1. /\ reply'.object = reply.object
      /\ \/ reply'.draft = NoText
         \/ /\ reply'.draft = reply.draft /\ UNCHANGED replies
            /\ calls' = calls \cup {Submission("command")}
      /\ replyDrafts' = [replyDrafts EXCEPT ![reply.thread] = NoReply]
      /\ resurfaced' = IF Attaching(reply.thread)
                       THEN resurfaced \cup Content(ReplyDraft(reply.thread)) ELSE resurfaced
      /\ UNCHANGED <<draftsForPost, attaching>>
  BY DEF Submitted, Clear
<1>2. reply.thread \in Threads /\ resurfaced \subseteq resurfaced'
  BY <1>1, ScreenTypes
<1>3. /\ Sending' \subseteq Sending \cup d /\ d \subseteq Parts(replyDrafts[reply.thread])
      /\ d = Held(replyDrafts[reply.thread])
  BY SubmittedSends
<1>4. Attaching(reply.thread) => d \subseteq resurfaced'
  BY <1>1, <1>2, ScreenTypes, TextFacts DEF Content
<1>5. d \cap Sending \subseteq resurfaced
  BY <1>2, <1>3 DEF SentOnce
<1> HIDE DEF d
<1>6. ASSUME NEW c \in Threads
      PROVE  Parts(replyDrafts'[c]) \cap Sending' \subseteq resurfaced'
  <2>1. CASE c = reply.thread
    <3>1. replyDrafts'[c] = NoReply
      BY <1>1, <1>2, <2>1 DEF CommentTypes
    <3> QED
      BY <3>1, TextFacts
  <2>2. CASE c # reply.thread
    <3>1. replyDrafts'[c] = replyDrafts[c]
      BY <1>1, <2>2 DEF CommentTypes
    <3>2. Parts(replyDrafts[c]) \cap Parts(replyDrafts[reply.thread]) \subseteq resurfaced
      BY <1>2, <2>2, Elsewhere DEF Located
    <3>3. Parts(replyDrafts[c]) \cap Sending \subseteq resurfaced
      BY DEF SentOnce
    <3> QED
      BY <1>2, <1>3, <3>1, <3>2, <3>3
  <2> QED
    BY <2>1, <2>2
<1>7. ASSUME NEW u \in attaching, u.object = reply.object
      PROVE  Parts(draftsForPost[u.object][u.thread]) \cap Sending' \subseteq resurfaced'
  <2>1. u.object \in 1..ReplyMounts /\ u.thread \in Threads
    BY RequestOf
  <2>2. Parts(draftsForPost[u.object][u.thread]) \cap Sending \subseteq resurfaced
    BY <1>7 DEF SentOnce
  <2>3. Parts(draftsForPost[u.object][u.thread]) \cap d \subseteq resurfaced'
    <3>1. CASE u.thread = reply.thread
      BY <1>4, <3>1 DEF Attaching
    <3>2. CASE u.thread # reply.thread
      <4>1. In(Parts(draftsForPost[u.object][u.thread]), u.thread)
        BY <2>1 DEF Located
      <4>2. Parts(replyDrafts[reply.thread]) \cap Parts(draftsForPost[u.object][u.thread]) \subseteq resurfaced
        BY <1>2, <2>1, <3>2, <4>1, Elsewhere
      <4> QED
        BY <1>2, <1>3, <4>2
    <3> QED
      BY <3>1, <3>2
  <2> QED
    BY <1>2, <1>3, <2>2, <2>3
<1>8. ASSUME NEW s \in calls
      PROVE  CallParts(s) \cap d \subseteq resurfaced'
  BY <1>2, <1>5, SendingTypes DEF Sending
<1>9. \/ /\ calls' = calls \cup {Submission(kind)} /\ InReplies' = InReplies
         /\ CallParts(Submission(kind)) = d /\ InCalls' = InCalls \cup d
      \/ calls' = calls /\ InCalls' = InCalls /\ InReplies' \subseteq InReplies \cup d
  <2>1. Held(ReplyDraft(reply.thread)) = ReplyDraft(reply.thread).words \cup ReplyDraft(reply.thread).files
    BY ScreenTypes, TextFacts
  <2> QED
    BY <2>1, SubmittedSends DEF d
<1>10. \A s, v \in calls' : s # v => CallParts(s) \cap CallParts(v) \subseteq resurfaced'
  <2>1. \A s, v \in calls : s # v => CallParts(s) \cap CallParts(v) \subseteq resurfaced'
    BY <1>2 DEF SentOnce
  <2> QED
    BY <1>8, <1>9, <2>1
<1>11. ASSUME NEW s \in calls', s.stage # "answer"
       PROVE  CallParts(s) \cap InReplies' \subseteq resurfaced'
  <2>1. CASE s \in calls
    <3>1. CallParts(s) \cap InReplies \subseteq resurfaced
      BY <1>11, <2>1 DEF SentOnce
    <3> QED
      BY <1>2, <1>8, <1>9, <2>1, <3>1
  <2>2. CASE s \notin calls
    <3>1. CallParts(s) = d /\ InReplies' = InReplies
      BY <1>9, <2>2
    <3> QED
      BY <1>2, <1>5, <3>1 DEF Sending
  <2> QED
    BY <2>1, <2>2
<1>12. Parts(reply'.draft) \cap Sending' \subseteq resurfaced' \cup ShownCalls'
  <2>1. CASE reply'.draft = NoText
    BY <2>1, PartsTypes
  <2>2. CASE /\ reply'.draft = reply.draft /\ UNCHANGED replies
             /\ calls' = calls \cup {Submission("command")}
    <3>1. /\ Submission("command").kind = "command" /\ Submission("command").object = reply.object
          /\ CallParts(Submission("command")) = d
      <4>1. Held(ReplyDraft(reply.thread))
            = ReplyDraft(reply.thread).words \cup ReplyDraft(reply.thread).files
        BY ScreenTypes, TextFacts
      <4> QED
        BY <4>1 DEF Submission, CallParts, d
    <3>2. ShownCalls \subseteq ShownCalls'
      BY <1>1, <2>2 DEF ShownCalls, OnScreen, CallParts
    <3>3. d \subseteq Terms \cup Attachments
      BY <1>2, <1>3, ReachTypes DEF Written, WrittenTerms, WrittenFiles
    <3>4. d \subseteq ShownCalls'
      BY <1>1, <2>2, <3>1, <3>3 DEF ShownCalls, OnScreen, CallParts
    <3>5. Parts(reply.draft) \cap Sending \subseteq resurfaced \cup ShownCalls
      BY DEF SentOnce
    <3> QED
      BY <1>2, <1>3, <2>2, <3>2, <3>4, <3>5
  <2> QED
    BY <1>1, <2>1, <2>2
<1>13. \A s \in calls' : CallParts(s)' = CallParts(s)
  BY DEF CallParts
<1> QED
  BY <1>1, <1>6, <1>7, <1>10, <1>11, <1>12, <1>13 DEF SentOnce


\* The box goes on showing a draft when a call ends: what the call had is on
\* its way no more, or came back.
LEMMA CallEnds ==
  ASSUME CommentTypes, SentOnce, NEW s \in calls, calls' = calls \ {s}, Sending' \subseteq Sending,
         reply'.object = reply.object, ~OnScreen(s) \/ (s.stage # "answer" /\ UNCHANGED replies)
  PROVE  Parts(reply.draft) \cap Sending' \subseteq resurfaced \cup ShownCalls'
<1> SUFFICES ASSUME NEW x \in Parts(reply.draft), x \in Sending', x \notin resurfaced
             PROVE  x \in ShownCalls'
  OBVIOUS
<1>1. x \in ShownCalls
  BY DEF SentOnce
<1>2. PICK v \in calls : OnScreen(v) /\ x \in CallParts(v)
  BY <1>1 DEF ShownCalls
<1>3. CASE v # s
  <2>1. v \in calls' /\ OnScreen(v)' /\ x \in CallParts(v)' /\ x \in Terms \cup Attachments
    BY <1>1, <1>2, <1>3 DEF OnScreen, CallParts, ShownCalls
  <2> QED
    BY <2>1 DEF ShownCalls
<1>4. CASE v = s
  <2>1. s.stage # "answer" /\ UNCHANGED replies
    BY <1>2, <1>4
  <2>2. x \notin InReplies
    BY <1>2, <1>4, <2>1 DEF SentOnce
  <2>3. x \in InCalls'
    BY <2>1, <2>2, SameReplies DEF Sending
  <2>4. PICK w \in calls' : x \in CallParts(w)
    BY <2>3 DEF InCalls, CallParts
  <2> QED
    BY <1>2, <1>4, <2>4 DEF SentOnce
<1> QED
  BY <1>3, <1>4

LEMMA ClosedSentOnce ==
  ASSUME CommentTypes, CommandsMeanIt, SentOnce, NEW s \in calls, Closed(s) \/ Dropped(s)
  PROVE  SentOnce'
<1>1. /\ calls' = calls \ {s} /\ InCalls' \subseteq InCalls
      /\ InReplies' \subseteq InReplies \cup CallParts(s) /\ Sending' \subseteq Sending
  BY ClosedSends
<1>2. /\ reply'.object = reply.object /\ UNCHANGED <<draftsForPost, attaching>>
      /\ resurfaced \subseteq resurfaced'
      /\ \/ UNCHANGED replyDrafts
         \/ replyDrafts' = [replyDrafts EXCEPT ![s.thread] = NoReply]
  BY DEF Closed, Dropped, Ended
<1>3. \/ reply'.draft = reply.draft /\ ~OnScreen(s)
      \/ reply'.draft = reply.draft /\ s.stage # "answer" /\ UNCHANGED replies
      \/ reply'.draft \in {NoText, Shown(reply.thread)}
  BY DEF Closed, Dropped, OnScreen
<1>4. \A c \in Threads : Parts(replyDrafts'[c]) \cap Sending' \subseteq resurfaced'
  BY <1>1, <1>2, TextFacts DEF SentOnce, CommentTypes
<1>5. \A u \in attaching : u.object = reply.object =>
         Parts(draftsForPost[u.object][u.thread]) \cap Sending' \subseteq resurfaced'
  BY <1>1, <1>2 DEF SentOnce
<1>6. \A p, v \in calls' : p # v => CallParts(p) \cap CallParts(v) \subseteq resurfaced'
  BY <1>1, <1>2 DEF SentOnce
<1>7. ASSUME NEW v \in calls', v.stage # "answer"
      PROVE  CallParts(v) \cap InReplies' \subseteq resurfaced'
  <2>1. v \in calls /\ v # s
    BY <1>1
  <2>2. CallParts(v) \cap InReplies \subseteq resurfaced
    BY <1>7, <2>1 DEF SentOnce
  <2>3. CallParts(v) \cap CallParts(s) \subseteq resurfaced
    BY <2>1 DEF SentOnce
  <2> QED
    BY <1>1, <1>2, <2>2, <2>3
<1>8. Parts(reply'.draft) \cap Sending' \subseteq resurfaced' \cup ShownCalls'
  <2>1. CASE /\ reply'.draft = reply.draft
             /\ ~OnScreen(s) \/ (s.stage # "answer" /\ UNCHANGED replies)
    <3>1. Parts(reply.draft) \cap Sending' \subseteq resurfaced \cup ShownCalls'
      BY <1>1, <1>2, <2>1, CallEnds
    <3> QED
      BY <1>2, <2>1, <3>1
  <2>2. CASE reply'.draft \in {NoText, Shown(reply.thread)}
    <3>1. Parts(reply'.draft) \cap Sending \subseteq resurfaced
      BY <2>2, PartsTypes, ScreenTypes DEF SentOnce
    <3> QED
      BY <1>1, <1>2, <3>1
  <2> QED
    BY <1>3, <2>1, <2>2
<1>9. \A v : CallParts(v)' = CallParts(v)
  BY DEF CallParts
<1> QED
  BY <1>2, <1>4, <1>5, <1>6, <1>7, <1>8, <1>9 DEF SentOnce

LEMMA ReturnedSentOnce ==
  ASSUME CommentTypes, CommandsMeanIt, SentOnce, NEW s \in calls, NEW t, Returned(s, t)
  PROVE  SentOnce'
<1>1. /\ calls' = calls \ {s} /\ InCalls' \subseteq InCalls
      /\ InReplies' = InReplies /\ Sending' \subseteq Sending
  BY ReturnedSends
<1>2. /\ reply'.object = reply.object /\ reply'.draft = reply.draft
      /\ UNCHANGED <<draftsForPost, attaching>> /\ resurfaced \subseteq resurfaced'
      /\ replyDrafts' = [replyDrafts EXCEPT ![t] = s.shown] /\ t \in Threads
      /\ Parts(s.shown) \subseteq resurfaced'
  BY DEF Returned, Ended
<1>3. ASSUME NEW c \in Threads
      PROVE  Parts(replyDrafts'[c]) \cap Sending' \subseteq resurfaced'
  <2>1. replyDrafts'[c] = s.shown \/ replyDrafts'[c] = replyDrafts[c]
    BY <1>2 DEF CommentTypes
  <2> QED
    BY <1>1, <1>2, <2>1 DEF SentOnce
<1>4. \A u \in attaching : u.object = reply.object =>
         Parts(draftsForPost[u.object][u.thread]) \cap Sending' \subseteq resurfaced'
  BY <1>1, <1>2 DEF SentOnce
<1>5. /\ \A p, v \in calls' : p # v => CallParts(p) \cap CallParts(v) \subseteq resurfaced'
      /\ \A v \in calls' : v.stage # "answer" => CallParts(v) \cap InReplies' \subseteq resurfaced'
  BY <1>1, <1>2 DEF SentOnce
<1>6. Parts(reply'.draft) \cap Sending' \subseteq resurfaced' \cup ShownCalls'
  <2>1. s.stage # "answer" /\ UNCHANGED replies
    BY DEF Returned
  <2>2. Parts(reply.draft) \cap Sending' \subseteq resurfaced \cup ShownCalls'
    BY <1>1, <1>2, <2>1, CallEnds
  <2> QED
    BY <1>2, <2>2
<1>7. \A v : CallParts(v)' = CallParts(v)
  BY DEF CallParts
<1> QED
  BY <1>2, <1>3, <1>4, <1>5, <1>6, <1>7 DEF SentOnce

LEMMA AdvancedSentOnce ==
  ASSUME CommentTypes, SentOnce, NEW s \in calls, NEW e, Advanced(s, e)
  PROVE  SentOnce'
<1>1. /\ Sending' = Sending /\ InReplies' \subseteq InReplies \cup CallParts(s)
      /\ e.stage # "answer" => InReplies' = InReplies
  BY AdvancedSends
<1>2. /\ UNCHANGED <<reply, replyDrafts, draftsForPost, attaching, resurfaced>>
      /\ calls' = (calls \ {s}) \cup {e} /\ CallParts(e) = CallParts(s)
      /\ (OnScreen(e) <=> OnScreen(s)) /\ s.stage # "answer"
  BY DEF Advanced, CallParts, OnScreen
<1>3. \A p, v \in calls' : p # v => CallParts(p) \cap CallParts(v) \subseteq resurfaced
  BY <1>2 DEF SentOnce
<1>4. ASSUME NEW v \in calls', v.stage # "answer"
      PROVE  CallParts(v) \cap InReplies' \subseteq resurfaced
  <2>1. CASE v = e
    BY <1>1, <1>2, <1>4, <2>1 DEF SentOnce
  <2>2. CASE v # e
    <3>1. v \in calls /\ v # s
      BY <1>2, <2>2
    <3>2. CallParts(v) \cap InReplies \subseteq resurfaced
      BY <1>4, <3>1 DEF SentOnce
    <3>3. CallParts(v) \cap CallParts(s) \subseteq resurfaced
      BY <3>1 DEF SentOnce
    <3> QED
      BY <1>1, <3>2, <3>3
  <2> QED
    BY <2>1, <2>2
<1>5. \A v : CallParts(v)' = CallParts(v) /\ (OnScreen(v)' <=> OnScreen(v))
  BY <1>2 DEF CallParts, OnScreen
<1>6. ShownCalls' = ShownCalls
  BY <1>2, <1>5 DEF ShownCalls
<1>7. /\ \A c \in Threads : Parts(replyDrafts[c]) \cap Sending \subseteq resurfaced
      /\ \A u \in attaching : u.object = reply.object =>
           Parts(draftsForPost[u.object][u.thread]) \cap Sending \subseteq resurfaced
      /\ Parts(reply.draft) \cap Sending \subseteq resurfaced \cup ShownCalls
  BY DEF SentOnce
<1> QED
  BY <1>1, <1>2, <1>3, <1>4, <1>5, <1>6, <1>7 DEF SentOnce

LEMMA StepSentOnce ==
  ASSUME CommentTypes, CommandsMeanIt, Located, OneUpload, SentOnce, Step
  PROVE  SentOnce'
BY WroteSentOnce, TurnedSentOnce, CameSentOnce, FailedSentOnce, SubmittedSentOnce, ClosedSentOnce,
   ReturnedSentOnce, AdvancedSentOnce DEF Step

\* What a step adds to the comments: what the draft of its thread or a call held.
LEMMA NewReply ==
  ASSUME CommentTypes, Located, Step, ~UNCHANGED replies
  PROVE  \E p \in Answers :
            /\ replies' = Append(replies, p) /\ In(p.words \cup p.files, p.to)
            /\ \/ p.words \cup p.files \subseteq Parts(replyDrafts[reply.thread])
               \/ \E s \in calls : s.stage # "answer" /\ p.words \cup p.files \subseteq CallParts(s)
<1>1. \/ \E kind : Submitted(kind)
      \/ \E s \in calls : Closed(s)
      \/ \E s \in calls : \E e : Advanced(s, e)
  BY DEF Step, Wrote, Turned, Came, Failed, Dropped, Returned
<1>2. ASSUME NEW kind, Submitted(kind)
      PROVE  \E p \in Answers : /\ replies' = Append(replies, p) /\ In(p.words \cup p.files, p.to)
                                /\ p.words \cup p.files \subseteq Parts(replyDrafts[reply.thread])
  <2> DEFINE d == ReplyDraft(reply.thread)
             p == [to |-> reply.thread, words |-> d.words, files |-> {}]
  <2>1. replies' = Append(replies, p)
    BY <1>2 DEF Submitted
  <2>2. d \in Texts /\ reply.thread \in Threads /\ Parts(d) = Parts(replyDrafts[reply.thread])
    BY ScreenTypes, PartsTypes
  <2>3. d.words \subseteq WrittenTerms /\ d.words \subseteq Parts(d)
    BY <2>2, TextFacts
  <2> HIDE DEF d
  <2>4. p \in Answers /\ p.to = reply.thread /\ p.words \cup p.files = d.words
    BY <2>2, <2>3 DEF Answers
  <2>5. p.words \cup p.files \subseteq Parts(replyDrafts[reply.thread])
    BY <2>2, <2>3, <2>4
  <2> HIDE DEF p
  <2>6. In(p.words \cup p.files, p.to)
    BY <2>2, <2>4, <2>5 DEF Located, In
  <2> QED
    BY <2>1, <2>4, <2>5, <2>6
<1>3. ASSUME NEW s \in calls, NEW e, Closed(s) \/ Advanced(s, e)
      PROVE  /\ s.stage # "answer"
             /\ \E p \in Answers : /\ replies' = Append(replies, p) /\ In(p.words \cup p.files, p.to)
                                   /\ p.words \cup p.files \subseteq CallParts(s)
  <2>1. PICK files \in {s.files, {}} :
          /\ s.stage # "answer"
          /\ replies' = Append(replies, [to |-> s.thread, words |-> s.words, files |-> files])
    BY <1>3 DEF Closed, Advanced
  <2> DEFINE p == [to |-> s.thread, words |-> s.words, files |-> files]
  <2>2. p \in Answers /\ p.to = s.thread /\ p.words \cup p.files \subseteq CallParts(s)
    BY CallOf DEF Answers, CallParts
  <2>3. replies' = Append(replies, p)
    BY <2>1
  <2> HIDE DEF p
  <2>4. In(p.words \cup p.files, p.to)
    BY <2>2 DEF Located, In, CallParts
  <2> QED
    BY <2>1, <2>2, <2>3, <2>4
<1> QED
  BY <1>1, <1>2, <1>3

LEMMA StepRepliedOnce ==
  ASSUME CommentTypes, Located, SentOnce, RepliedOnce, Step
  PROVE  RepliedOnce'
<1>1. resurfaced \subseteq resurfaced'
  BY StepGrows
<1>2. CASE UNCHANGED replies
  BY <1>1, <1>2 DEF RepliedOnce
<1>3. CASE ~UNCHANGED replies
  <2>1. PICK p \in Answers :
            /\ replies' = Append(replies, p)
            /\ \/ p.words \cup p.files \subseteq Parts(replyDrafts[reply.thread])
               \/ \E s \in calls : s.stage # "answer" /\ p.words \cup p.files \subseteq CallParts(s)
    BY <1>3, NewReply
  <2>2. (p.words \cup p.files) \cap InReplies \subseteq resurfaced
    BY <2>1, SendingTypes, ScreenTypes DEF SentOnce, Sending
  <2>3. replies \in Seq(Answers)
    BY DEF CommentTypes
  <2>4. /\ Len(replies') = Len(replies) + 1 /\ replies'[Len(replies) + 1] = p
        /\ \A i \in 1..Len(replies) : replies'[i] = replies[i]
        /\ Len(replies) \in Nat
    BY <2>1, <2>3
  <2>5. ASSUME NEW i \in 1..Len(replies)
        PROVE  (replies[i].words \cup replies[i].files) \cap (p.words \cup p.files) \subseteq resurfaced'
    <3>1. replies[i] \in ToSet(replies)
      BY <2>3 DEF ToSet
    <3>2. replies[i].words \cup replies[i].files \subseteq InReplies
      BY <3>1, SendingTypes
    <3> QED
      BY <1>1, <2>2, <3>2
  <2>6. \A i \in 1..Len(replies') : i \in 1..Len(replies) \/ i = Len(replies) + 1
    BY <2>4
  <2> QED
    BY <1>1, <2>4, <2>5, <2>6 DEF RepliedOnce
<1> QED
  BY <1>2, <1>3

LEMMA StepRightThread ==
  ASSUME CommentTypes, Located, RightThread, Step
  PROVE  RightThread'
<1>1. WrittenGrows /\ misplaced \subseteq misplaced'
  BY StepGrows
<1>2. ASSUME NEW p \in Answers, In(p.words \cup p.files, p.to)
      PROVE  NextIn(p.words \cup p.files, p.to)
  <2>1. p.words \cup p.files \subseteq Written
    BY DEF Answers, Written
  <2> QED
    BY <1>1, <1>2, <2>1, StaysIn
<1>3. ASSUME NEW p \in ToSet(replies)
      PROVE  NextIn(p.words \cup p.files, p.to)
  BY <1>2, SendingTypes DEF RightThread, In
<1>4. ASSUME NEW p \in ToSet(replies')
      PROVE  NextIn(p.words \cup p.files, p.to)
  <2>1. CASE UNCHANGED replies
    BY <1>3, <2>1
  <2>2. CASE ~UNCHANGED replies
    <3>1. PICK q \in Answers : replies' = Append(replies, q) /\ In(q.words \cup q.files, q.to)
      BY <2>2, NewReply
    <3>2. replies \in Seq(Answers)
      BY DEF CommentTypes
    <3>3. ToSet(replies') = ToSet(replies) \cup {q}
      BY <3>1, <3>2 DEF ToSet
    <3> QED
      BY <1>2, <1>3, <3>1, <3>3
  <2> QED
    BY <2>1, <2>2
<1> QED
  BY <1>4 DEF RightThread, NextIn


----------------------------------------------------------------------------
(* Nothing is lost.                                                        *)

\* Unless settled, what a draft of the thread holds is in the stored one.
LEMMA HeldIsStored ==
  ASSUME CommentTypes, Located, StoreHasIt, OneUpload, NEW c \in Threads, NEW d \in Texts,
         In(Parts(d), c), d.files \subseteq FilesHad
  PROVE  Held(d) \ Settled \subseteq Held(replyDrafts[c])
<1> SUFFICES ASSUME NEW t \in Held(d), t \notin Settled
             PROVE  t \in Held(replyDrafts[c])
  OBVIOUS
<1>1. t \in Written /\ (t \in WrittenTerms \/ t \in d.files)
  BY TextFacts DEF Written
<1>2. written[t] = c
  <2>1. t \in Parts(d)
    BY TextFacts
  <2>2. t \notin misplaced
    BY DEF Located, Settled
  <2> QED
    BY <2>1, <2>2 DEF In
<1>3. ~ \E u \in attaching : u.file = t
  BY <1>1, RequestOf, CommentAssumption DEF OneUpload, WrittenFiles, WrittenTerms
<1> QED
  BY <1>1, <1>2, <1>3 DEF StoreHasIt

LEMMA DraftsAreStored ==
  ASSUME CommentTypes, Remembered, Located, StoreHasIt, OneUpload
  PROVE  /\ Held(reply.draft) \ Settled \subseteq Held(replyDrafts[reply.thread])
         /\ \A u \in attaching : Held(draftsForPost[u.object][u.thread]) \ Settled
                                 \subseteq Held(replyDrafts[u.thread])
         /\ \A s \in calls : Held(s.shown) \ Settled \subseteq Held(replyDrafts[s.thread])
<1>1. Held(reply.draft) \ Settled \subseteq Held(replyDrafts[reply.thread])
  BY HeldIsStored, ScreenTypes, FilesHadHas DEF Located
<1>2. ASSUME NEW u \in attaching
      PROVE  Held(draftsForPost[u.object][u.thread]) \ Settled \subseteq Held(replyDrafts[u.thread])
  <2> DEFINE d == draftsForPost[u.object][u.thread]
  <2>1. u.object \in 1..ReplyMounts /\ u.thread \in Threads
    BY RequestOf
  <2>2. d \in Texts /\ In(Parts(d), u.thread)
    BY <2>1, RequestOf, TextFacts DEF Remembered, Located
  <2>3. FilesOf(d) \subseteq FilesHad
    BY <2>1, FilesHadHas
  <2> HIDE DEF d
  <2>4. d.files \subseteq FilesHad
    BY <2>2, <2>3, TextFacts
  <2>5. Held(d) \ Settled \subseteq Held(replyDrafts[u.thread])
    BY <2>1, <2>2, <2>4, HeldIsStored
  <2> QED
    BY <2>5 DEF d
<1>3. ASSUME NEW s \in calls
      PROVE  Held(s.shown) \ Settled \subseteq Held(replyDrafts[s.thread])
  <2>1. In(Parts(s.shown), s.thread)
    BY DEF Located, In
  <2> QED
    BY <2>1, CallOf, FilesHadHas, HeldIsStored
<1> QED
  BY <1>1, <1>2, <1>3

LEMMA WroteSaves ==
  ASSUME CommentTypes, Remembered, Located, OneUpload, StoreHasIt, BoxHasIt, UploadHasIt,
         NEW draft, NEW source, NEW new, Wrote(draft, source, new)
  PROVE  StoreHasIt' /\ BoxHasIt' /\ UploadHasIt'
<1>1. /\ reply'.draft = draft /\ reply'.object = reply.object /\ reply'.thread = reply.thread
      /\ replyDrafts' = [replyDrafts EXCEPT ![reply.thread] = draft]
      /\ removed \subseteq removed' /\ forgone \subseteq forgone' /\ UNCHANGED <<calls, replies>>
  BY DEF Wrote
<1>2. Settled \subseteq Settled' /\ removed' \subseteq Settled' /\ forgone' \subseteq Settled'
  BY <1>1, SameCalls DEF Settled
<1>3. reply.thread \in Threads /\ reply.object \in 1..ReplyMounts
  BY ScreenTypes
<1>4. replyDrafts'[reply.thread] = draft
      /\ \A c \in Threads : c # reply.thread => replyDrafts'[c] = replyDrafts[c]
  BY <1>1, <1>3 DEF CommentTypes
<1>5. Held(source) \ Settled \subseteq Held(replyDrafts[reply.thread])
      /\ Held(replyDrafts[reply.thread]) \ Settled \subseteq Held(source)
  BY <1>3, DraftsAreStored, PartsTypes DEF Wrote, BoxHasIt
<1>6. StoreHasIt'
  <2> SUFFICES ASSUME NEW t \in Written', t \notin Settled'
               PROVE  (\E u \in attaching' : u.file = t) \/ t \in Held(replyDrafts'[written'[t]])
    BY DEF StoreHasIt
  <2>1. t \in Terms \cup Attachments /\ written'[t] # "nowhere"
    BY DEF Written, WrittenTerms, WrittenFiles
  <2>2. CASE t \in new
    <3>1. written'[t] = reply.thread
      BY <2>2 DEF Wrote
    <3>2. t \in Held(draft) \/ \E u \in attaching' : u.file = t
      BY <1>2, <2>2 DEF Wrote
    <3> QED
      BY <1>4, <3>1, <3>2
  <2>3. CASE t \notin new
    <3>1. written'[t] = written[t]
      BY <2>1, <2>3 DEF Wrote
    <3>2. t \in Written /\ t \notin Settled /\ t \notin removed' /\ written[t] \in Threads
      BY <1>2, <2>1, <3>1 DEF Written, WrittenTerms, WrittenFiles, CommentTypes
    <3>3. CASE \E u \in attaching : u.file = t
      BY <3>2, <3>3 DEF Wrote
    <3>4. CASE t \in Held(replyDrafts[written[t]]) /\ written[t] # reply.thread
      BY <1>4, <3>1, <3>2, <3>4
    <3>5. CASE t \in Held(replyDrafts[written[t]]) /\ written[t] = reply.thread
      <4>1. t \in Held(source)
        BY <1>5, <3>2, <3>5
      <4>2. t \in Held(draft)
        BY <1>2, <4>1 DEF Wrote
      <4> QED
        BY <1>4, <3>1, <3>5, <4>2
    <3> QED
      BY <3>2, <3>3, <3>4, <3>5 DEF StoreHasIt
  <2> QED
    BY <2>2, <2>3
<1>7. BoxHasIt'
  BY <1>1, <1>4 DEF BoxHasIt
<1>8. UploadHasIt'
  <2> SUFFICES ASSUME NEW u \in attaching', u.object = reply.object,
                      NEW t \in Held(replyDrafts'[u.thread]), t \notin Settled'
               PROVE  t \in Held(draftsForPost'[u.object][u.thread])
    BY <1>1 DEF UploadHasIt
  <2>1. CASE draftsForPost' = [draftsForPost EXCEPT ![reply.object][reply.thread] = draft]
    <3>1. CASE u.thread = reply.thread
      BY <1>3, <1>4, <2>1, <3>1 DEF CommentTypes
    <3>2. CASE u.thread # reply.thread
      <4>1. u \in attaching
        BY <3>2 DEF Wrote
      <4>2. u.object \in 1..ReplyMounts /\ u.thread \in Threads
        BY <4>1, RequestOf
      <4>3. draftsForPost'[u.object][u.thread] = draftsForPost[u.object][u.thread]
        BY <1>3, <2>1, <3>2, <4>2, MemoryAfter
      <4> QED
        BY <1>2, <1>4, <3>2, <4>1, <4>2, <4>3 DEF UploadHasIt
    <3> QED
      BY <3>1, <3>2
  <2>2. CASE UNCHANGED <<draftsForPost, attaching>> /\ (Attaching(reply.thread) => new \subseteq forgone')
    <3>1. u.thread \in Threads /\ u \in attaching
      BY <2>2, RequestOf
    <3>2. t \in Held(replyDrafts[u.thread])
      <4>1. CASE u.thread = reply.thread
        <5>1. t \in Held(source) \cup new
          BY <1>4, <4>1 DEF Wrote
        <5>2. new \subseteq forgone'
          BY <2>2, <3>1, <4>1 DEF Attaching
        <5> QED
          BY <1>2, <1>5, <4>1, <5>1, <5>2
      <4>2. CASE u.thread # reply.thread
        BY <1>4, <3>1, <4>2
      <4> QED
        BY <4>1, <4>2
    <3> QED
      BY <1>2, <2>2, <3>1, <3>2 DEF UploadHasIt
  <2> QED
    BY <2>1, <2>2 DEF Wrote
<1> QED
  BY <1>6, <1>7, <1>8

LEMMA CameSaves ==
  ASSUME CommentTypes, Remembered, Located, OneUpload, StoreHasIt, BoxHasIt, UploadHasIt,
         NEW u \in attaching, NEW draft, Came(u, draft)
  PROVE  StoreHasIt' /\ BoxHasIt' /\ UploadHasIt'
<1> DEFINE d == draftsForPost[u.object][u.thread]
<1>1. /\ reply'.draft = (IF ShownBy(u) THEN draft ELSE reply.draft) /\ reply'.object = reply.object
      /\ reply'.thread = reply.thread
      /\ replyDrafts' = [replyDrafts EXCEPT ![u.thread] = draft]
      /\ draftsForPost' = [draftsForPost EXCEPT ![u.object][u.thread] = draft]
      /\ attaching' = attaching \ {u} /\ UNCHANGED <<calls, replies, written, removed>>
      /\ Held(d) \subseteq Held(draft) /\ Held(draft) \subseteq Held(d) \cup {u.file}
      /\ u.file \in Held(draft)
      /\ forgone' = IF u.object # reply.object
                    THEN forgone \cup Parts(replyDrafts[u.thread]) \cup {u.file} ELSE forgone
  BY DEF Came, Overwrite
<1>2. Settled \subseteq Settled' /\ forgone' \subseteq Settled'
  BY <1>1, SameCalls DEF Settled
<1>3. u.object \in 1..ReplyMounts /\ u.thread \in Threads /\ u.file \in Written
  BY RequestOf DEF Written
<1>4. replyDrafts'[u.thread] = draft
      /\ \A c \in Threads : c # u.thread => replyDrafts'[c] = replyDrafts[c]
  BY <1>1, <1>3 DEF CommentTypes
<1>5. ASSUME u.object # reply.object
      PROVE  Held(draft) \subseteq Settled' /\ Held(replyDrafts[u.thread]) \subseteq Settled'
  <2>1. Held(replyDrafts[u.thread]) \subseteq Settled'
    BY <1>1, <1>2, <1>3, <1>5, ScreenTypes, PartsTypes
  <2>2. Held(d) \ Settled \subseteq Held(replyDrafts[u.thread])
    BY DraftsAreStored
  <2> QED
    BY <1>1, <1>2, <1>5, <2>1, <2>2
<1> HIDE DEF d
<1>6. StoreHasIt'
  <2> SUFFICES ASSUME NEW t \in Written, t \notin Settled'
               PROVE  (\E v \in attaching' : v.file = t) \/ t \in Held(replyDrafts'[written[t]])
    BY <1>1 DEF StoreHasIt, Written, WrittenTerms, WrittenFiles
  <2>1. t \notin Settled
    BY <1>2
  <2>2. CASE t = u.file
    <3>1. written[t] = u.thread
      BY <2>2 DEF Located
    <3> QED
      BY <1>1, <1>4, <2>1, <2>2, <3>1
  <2>3. CASE t # u.file /\ \E v \in attaching : v.file = t
    BY <1>1, <2>3
  <2>4. CASE t \in Held(replyDrafts[written[t]])
    <3>1. written[t] \in Threads
      BY DEF Written, WrittenTerms, WrittenFiles, CommentTypes
    <3>2. CASE written[t] = u.thread
      <4>1. u.object = reply.object
        BY <1>5, <2>4, <3>2
      <4>2. t \in Held(d)
        BY <2>1, <2>4, <3>2, <4>1 DEF UploadHasIt, d
      <4> QED
        BY <1>1, <1>4, <3>2, <4>2
    <3>3. CASE written[t] # u.thread
      BY <1>4, <2>4, <3>1, <3>3
    <3> QED
      BY <3>2, <3>3
  <2> QED
    BY <2>1, <2>2, <2>3, <2>4 DEF StoreHasIt
<1>7. BoxHasIt'
  <2>1. CASE reply.thread = u.thread
    BY <1>1, <1>4, <1>5, <2>1 DEF BoxHasIt, ShownBy
  <2>2. CASE reply.thread # u.thread
    BY <1>1, <1>2, <1>4, <2>2, ScreenTypes DEF BoxHasIt, ShownBy
  <2> QED
    BY <2>1, <2>2
<1>8. UploadHasIt'
  <2> SUFFICES ASSUME NEW v \in attaching, v.object = reply.object,
                      NEW t \in Held(replyDrafts'[v.thread]), t \notin Settled'
               PROVE  t \in Held(draftsForPost'[v.object][v.thread])
    BY <1>1 DEF UploadHasIt
  <2>1. v.object \in 1..ReplyMounts /\ v.thread \in Threads
    BY RequestOf
  <2>2. CASE v.thread = u.thread
    <3>1. u.object = reply.object
      BY <1>4, <1>5, <2>2
    <3>2. draftsForPost'[v.object][v.thread] = draft
      BY <1>1, <1>3, <2>2, <3>1 DEF CommentTypes
    <3> QED
      BY <1>4, <2>2, <3>2
  <2>3. CASE v.thread # u.thread
    <3>1. draftsForPost'[v.object][v.thread] = draftsForPost[v.object][v.thread]
      BY <1>1, <1>3, <2>1, <2>3, MemoryAfter
    <3> QED
      BY <1>2, <1>4, <2>1, <2>3, <3>1 DEF UploadHasIt
  <2> QED
    BY <2>2, <2>3
<1> QED
  BY <1>6, <1>7, <1>8


LEMMA FailedSaves ==
  ASSUME CommentTypes, StoreHasIt, BoxHasIt, UploadHasIt, NEW u \in attaching, Failed(u)
  PROVE  StoreHasIt' /\ BoxHasIt' /\ UploadHasIt'
<1>1. /\ attaching' = attaching \ {u} /\ removed' = removed \cup {u.file}
      /\ UNCHANGED <<reply, replyDrafts, draftsForPost, calls, replies, written, forgone>>
  BY DEF Failed
<1>2. Settled' = Settled \cup {u.file} /\ Written' = Written
  BY <1>1, SameCalls DEF Settled, Written, WrittenTerms, WrittenFiles
<1> QED
  BY <1>1, <1>2 DEF StoreHasIt, BoxHasIt, UploadHasIt

\* A step that at most clears threads whose drafts are settled by then.
LEMMA ClearingSaves ==
  ASSUME CommentTypes, StoreHasIt, UploadHasIt, Settled \subseteq Settled',
         UNCHANGED <<draftsForPost, attaching, written>>, reply'.object = reply.object,
         \A q \in Threads : \/ replyDrafts'[q] = replyDrafts[q]
                            \/ replyDrafts'[q] = NoReply /\ Held(replyDrafts[q]) \subseteq Settled'
  PROVE  StoreHasIt' /\ UploadHasIt'
<1>1. Held(NoReply) = {} /\ Written' = Written
  BY TextFacts DEF Written, WrittenTerms, WrittenFiles
<1>2. \A t \in Written : written[t] \in Threads
  BY DEF Written, WrittenTerms, WrittenFiles, CommentTypes
<1>3. \A q \in Threads : /\ Held(replyDrafts'[q]) \subseteq Held(replyDrafts[q])
                         /\ Held(replyDrafts[q]) \ Settled' \subseteq Held(replyDrafts'[q])
  BY <1>1
<1>4. StoreHasIt'
  BY <1>1, <1>2, <1>3 DEF StoreHasIt
<1>5. UploadHasIt'
  BY <1>3, RequestOf DEF UploadHasIt
<1> QED
  BY <1>4, <1>5

LEMMA SubmittedSaves ==
  ASSUME CommentTypes, StoreHasIt, UploadHasIt, NEW kind, Submitted(kind)
  PROVE  StoreHasIt' /\ BoxHasIt' /\ UploadHasIt'
<1>1. /\ replyDrafts' = [replyDrafts EXCEPT ![reply.thread] = NoReply]
      /\ reply'.object = reply.object /\ reply'.thread = reply.thread /\ forgone \subseteq forgone'
      /\ UNCHANGED <<draftsForPost, attaching, written, removed>>
  BY DEF Submitted, Clear
<1>2. Sending \subseteq Sending' /\ Held(replyDrafts[reply.thread]) \subseteq Sending' \cup forgone'
  BY SubmittedSends
<1>3. Settled \subseteq Settled' /\ Held(replyDrafts[reply.thread]) \subseteq Settled'
  BY <1>1, <1>2 DEF Settled
<1>4. replyDrafts'[reply.thread] = NoReply
      /\ \A q \in Threads : q # reply.thread => replyDrafts'[q] = replyDrafts[q]
  BY <1>1, ScreenTypes DEF CommentTypes
<1>5. StoreHasIt' /\ UploadHasIt'
  BY <1>1, <1>3, <1>4, ClearingSaves
<1>6. BoxHasIt'
  BY <1>1, <1>4, TextFacts DEF BoxHasIt
<1> QED
  BY <1>5, <1>6

LEMMA TurnedSaves ==
  ASSUME CommentTypes, StoreHasIt, UploadHasIt, NEW c \in Threads, Turned(c)
  PROVE  StoreHasIt' /\ BoxHasIt' /\ UploadHasIt'
<1>1. /\ reply'.draft = Shown(c) /\ reply'.thread = c
      /\ UNCHANGED <<draftsForPost, attaching, calls, replies, written, removed, forgone>>
      /\ \A q \in Threads : Held(replyDrafts'[q]) = Held(replyDrafts[q])
      /\ reply' \in Screens /\ reply.object <= reply'.object
  BY DEF Turned
<1>2. Settled' = Settled /\ Written' = Written
  BY <1>1, SameCalls DEF Settled, Written, WrittenTerms, WrittenFiles
<1>3. \A u \in attaching : u.object = reply'.object => u.object = reply.object
  <2>1. reply'.object \in Nat /\ reply.object \in Nat
    BY <1>1, ScreenTypes, CommentAssumption DEF Screens
  <2> QED
    BY <1>1, <2>1, RequestOf
<1>4. \A t \in Written : written[t] \in Threads
  BY DEF Written, WrittenTerms, WrittenFiles, CommentTypes
<1>5. StoreHasIt'
  BY <1>1, <1>2, <1>4 DEF StoreHasIt
<1>6. BoxHasIt'
  BY <1>1, PartsTypes DEF BoxHasIt
<1>7. UploadHasIt'
  BY <1>1, <1>2, <1>3, RequestOf DEF UploadHasIt
<1> QED
  BY <1>5, <1>6, <1>7

LEMMA ClosedSaves ==
  ASSUME CommentTypes, CommandsMeanIt, StoreHasIt, BoxHasIt, UploadHasIt,
         NEW s \in calls, Closed(s) \/ Dropped(s)
  PROVE  StoreHasIt' /\ BoxHasIt' /\ UploadHasIt'
<1>1. /\ reply'.object = reply.object /\ reply'.thread = reply.thread /\ forgone \subseteq forgone'
      /\ UNCHANGED <<draftsForPost, attaching, written, removed>>
      /\ \/ UNCHANGED replyDrafts
         \/ /\ replyDrafts' = [replyDrafts EXCEPT ![s.thread] = NoReply]
            /\ Parts(replyDrafts[s.thread]) \subseteq forgone'
  BY DEF Closed, Dropped, Ended
<1>2. Settled \subseteq Settled' /\ forgone' \subseteq Settled'
  BY <1>1, ClosedSends DEF Settled
<1>3. \A q \in Threads : \/ replyDrafts'[q] = replyDrafts[q]
                         \/ replyDrafts'[q] = NoReply /\ Held(replyDrafts[q]) \subseteq Settled'
  <2>1. CASE UNCHANGED replyDrafts
    BY <2>1
  <2>2. CASE /\ replyDrafts' = [replyDrafts EXCEPT ![s.thread] = NoReply]
             /\ Parts(replyDrafts[s.thread]) \subseteq forgone'
    <3>1. s.thread \in Threads /\ replyDrafts[s.thread] \in Stored
      BY CallOf, ScreenTypes
    <3>2. Held(replyDrafts[s.thread]) \subseteq Settled'
      BY <1>2, <2>2, <3>1, PartsTypes
    <3> QED
      BY <2>2, <3>1, <3>2 DEF CommentTypes
  <2> QED
    BY <1>1, <2>1, <2>2
<1>4. StoreHasIt' /\ UploadHasIt'
  BY <1>1, <1>2, <1>3, ClearingSaves
<1>5. \/ replyDrafts'[reply.thread] = NoReply
      \/ replyDrafts'[reply.thread] = replyDrafts[reply.thread]
         /\ reply'.draft \in {reply.draft, Shown(reply.thread)}
  <2>1. reply.thread \in Threads
    BY ScreenTypes
  <2>2. CASE s.thread # reply.thread /\ replyDrafts' = [replyDrafts EXCEPT ![s.thread] = NoReply]
    <3>1. replyDrafts'[reply.thread] = replyDrafts[reply.thread]
      BY <2>1, <2>2 DEF CommentTypes
    <3>2. CASE reply'.draft \in {reply.draft, Shown(reply.thread)}
      BY <3>1, <3>2
    <3>3. CASE reply'.draft \notin {reply.draft, Shown(reply.thread)}
      BY <3>3 DEF Closed, Dropped
    <3> QED
      BY <3>2, <3>3
  <2>3. CASE s.thread = reply.thread /\ replyDrafts' = [replyDrafts EXCEPT ![s.thread] = NoReply]
    BY <2>1, <2>3 DEF CommentTypes
  <2>4. CASE UNCHANGED replyDrafts
    BY <2>4 DEF Closed, Dropped
  <2> QED
    BY <1>1, <2>2, <2>3, <2>4
<1>6. BoxHasIt'
  <2>1. CASE replyDrafts'[reply.thread] = NoReply
    BY <1>1, <2>1, TextFacts DEF BoxHasIt
  <2>2. CASE replyDrafts'[reply.thread] = replyDrafts[reply.thread]
             /\ reply'.draft \in {reply.draft, Shown(reply.thread)}
    BY <1>1, <1>2, <2>2, PartsTypes, ScreenTypes DEF BoxHasIt
  <2> QED
    BY <1>5, <2>1, <2>2
<1> QED
  BY <1>4, <1>6


\* An unknown command is settled no more: then it is back everywhere.
LEMMA ReturnedSaves ==
  ASSUME CommentTypes, Remembered, CommandsMeanIt, Located, OneUpload,
         StoreHasIt, BoxHasIt, UploadHasIt, NEW s \in calls, NEW t, Returned(s, t)
  PROVE  StoreHasIt' /\ BoxHasIt' /\ UploadHasIt'
<1>1. /\ reply'.object = reply.object /\ reply'.thread = reply.thread /\ reply'.draft = reply.draft
      /\ forgone \subseteq forgone' /\ UNCHANGED <<draftsForPost, attaching, written, removed>>
      /\ replyDrafts' = [replyDrafts EXCEPT ![t] = s.shown] /\ t \in Threads
      /\ Parts(replyDrafts[t]) \subseteq forgone'
      /\ BackInBox(s, t) \/ s.words \cup Parts(s.shown) \subseteq forgone'
  BY DEF Returned, Ended
<1>2. Settled \subseteq Settled' \cup s.words /\ forgone' \subseteq Settled'
  BY <1>1, ReturnedSends DEF Settled
<1>3. replyDrafts'[t] = s.shown /\ \A q \in Threads : q # t => replyDrafts'[q] = replyDrafts[q]
  BY <1>1 DEF CommentTypes
<1>4. /\ s.shown \in Texts /\ s.thread \in Threads /\ s.words \subseteq WrittenTerms
      /\ s.shown.words \subseteq Held(s.shown) /\ Held(s.shown) \subseteq Parts(s.shown)
      /\ reply.draft.words \subseteq Held(reply.draft)
  BY CallOf, TextFacts, ScreenTypes
<1>5. ASSUME NEW x \in Settled, x \notin Settled'
      PROVE  BackInBox(s, t) /\ x \in s.words /\ x \notin misplaced /\ written[x] = t
  <2>1. BackInBox(s, t) /\ x \in s.words
    BY <1>1, <1>2, <1>5
  <2>2. x \notin misplaced
    BY <1>1, <1>2, <1>5 DEF Located
  <2>3. t = s.thread
    BY <2>1 DEF BackInBox
  <2> QED
    BY <2>1, <2>2, <2>3 DEF Located, In
<1>6. Held(s.shown) \ Settled \subseteq Settled'
  <2>1. Held(s.shown) \ Settled \subseteq Held(replyDrafts[s.thread])
    BY DraftsAreStored
  <2>2. CASE BackInBox(s, t)
    <3>1. t = s.thread /\ Held(replyDrafts[t]) \subseteq Parts(replyDrafts[t])
      BY <1>1, <2>2, PartsTypes, ScreenTypes DEF BackInBox
    <3> QED
      BY <1>1, <1>2, <2>1, <3>1
  <2>3. CASE s.words \cup Parts(s.shown) \subseteq forgone'
    BY <1>2, <1>4, <2>3
  <2> QED
    BY <1>1, <2>2, <2>3
<1>7. StoreHasIt'
  <2> SUFFICES ASSUME NEW x \in Written, x \notin Settled'
               PROVE  (\E u \in attaching : u.file = x) \/ x \in Held(replyDrafts'[written[x]])
    BY <1>1 DEF StoreHasIt, Written, WrittenTerms, WrittenFiles
  <2>1. written[x] \in Threads
    BY DEF Written, WrittenTerms, WrittenFiles, CommentTypes
  <2>2. CASE x \in Settled
    <3>1. x \in s.shown.words /\ written[x] = t
      BY <1>5, <2>2 DEF BackInBox
    <3> QED
      BY <1>3, <1>4, <3>1
  <2>3. CASE x \notin Settled /\ written[x] = t
    <3>1. x \notin Parts(replyDrafts[t])
      BY <1>1, <1>2
    <3>2. x \notin Held(replyDrafts[t])
      BY <1>1, <3>1, PartsTypes, ScreenTypes
    <3> QED
      BY <2>3, <3>2 DEF StoreHasIt
  <2>4. CASE x \notin Settled /\ written[x] # t
    BY <1>3, <2>1, <2>4 DEF StoreHasIt
  <2> QED
    BY <2>2, <2>3, <2>4
<1>8. BoxHasIt'
  <2> SUFFICES ASSUME NEW x \in Held(replyDrafts'[reply.thread]), x \notin Settled'
               PROVE  x \in Held(reply.draft)
    BY <1>1 DEF BoxHasIt
  <2>1. CASE x \in Settled
    BY <1>4, <1>5, <2>1 DEF BackInBox
  <2>2. CASE x \notin Settled /\ reply.thread = t
    BY <1>3, <1>6, <2>2
  <2>3. CASE x \notin Settled /\ reply.thread # t
    BY <1>3, <2>3, ScreenTypes DEF BoxHasIt
  <2> QED
    BY <2>1, <2>2, <2>3
<1>9. UploadHasIt'
  <2> SUFFICES ASSUME NEW u \in attaching, u.object = reply.object,
                      NEW x \in Held(replyDrafts'[u.thread]), x \notin Settled'
               PROVE  x \in Held(draftsForPost[u.object][u.thread])
    BY <1>1 DEF UploadHasIt
  <2>1. u.thread \in Threads /\ draftsForPost[u.object][u.thread] \in Stored
    BY RequestOf
  <2>2. CASE x \in Settled
    <3>1. BackInBox(s, t) /\ x \in s.words /\ x \notin misplaced /\ written[x] = t
      BY <1>5, <2>2
    <3>2. u.thread = t
      <4>1. SUFFICES ASSUME u.thread # t
                     PROVE  FALSE
        BY <4>1
      <4>2. x \in Held(replyDrafts[u.thread])
        BY <1>3, <2>1, <4>1
      <4>3. x \in Parts(replyDrafts[u.thread])
        BY <2>1, <4>2, PartsTypes, ScreenTypes
      <4>4. written[x] = u.thread
        BY <2>1, <3>1, <4>3 DEF Located, In
      <4> QED
        BY <3>1, <4>1, <4>4
    <3>3. x \in draftsForPost[u.object][u.thread].words
      BY <3>1, <3>2 DEF BackInBox, Attaching
    <3>4. draftsForPost[u.object][u.thread] \in Texts
      BY <2>1, TextFacts DEF Remembered
    <3> QED
      BY <3>3, <3>4, TextFacts
  <2>3. CASE x \notin Settled /\ u.thread = t
    BY <1>3, <1>6, <2>3
  <2>4. CASE x \notin Settled /\ u.thread # t
    BY <1>3, <2>1, <2>4 DEF UploadHasIt
  <2> QED
    BY <2>2, <2>3, <2>4
<1> QED
  BY <1>7, <1>8, <1>9

LEMMA AdvancedSaves ==
  ASSUME CommentTypes, StoreHasIt, BoxHasIt, UploadHasIt, NEW s \in calls, NEW e, Advanced(s, e)
  PROVE  StoreHasIt' /\ BoxHasIt' /\ UploadHasIt'
<1>1. UNCHANGED <<reply, replyDrafts, draftsForPost, attaching, written, removed, forgone>>
  BY DEF Advanced
<1>2. Settled' = Settled /\ Written' = Written
  BY <1>1, AdvancedSends DEF Settled, Written, WrittenTerms, WrittenFiles
<1> QED
  BY <1>1, <1>2 DEF StoreHasIt, BoxHasIt, UploadHasIt

LEMMA StepSaves ==
  ASSUME CommentTypes, Remembered, CommandsMeanIt, Located, OneUpload,
         StoreHasIt, BoxHasIt, UploadHasIt, Step
  PROVE  StoreHasIt' /\ BoxHasIt' /\ UploadHasIt'
BY WroteSaves, TurnedSaves, CameSaves, FailedSaves, SubmittedSaves, ClosedSaves, ReturnedSaves,
   AdvancedSaves DEF Step


----------------------------------------------------------------------------
(* The theorems.                                                           *)

LEMMA CommentInitInv ==
  ASSUME CommentInit
  PROVE  CommentInv
<1>1. PICK c \in Threads : reply = [object |-> 1, thread |-> c, draft |-> NoText,
                                    invalid |-> FALSE, recalled |-> {}]
  BY DEF CommentInit
<1>2. /\ lastThread = [o \in 1..ReplyMounts |-> reply.thread]
      /\ replyDrafts = [t \in Threads |-> NoReply]
      /\ draftsForPost = [o \in 1..ReplyMounts |-> replyDrafts]
      /\ attaching = {} /\ calls = {} /\ replies = <<>>
      /\ written = [w \in Terms \cup Attachments |-> "nowhere"]
      /\ removed = {} /\ forgone = {} /\ misplaced = {} /\ resurfaced = {}
  BY DEF CommentInit
<1>3. reply.thread = c /\ reply.draft = NoText /\ reply.object = 1
  BY <1>1
<1>4. NoText \in Texts /\ NoReply \in Stored
  BY DEF Texts, Stored, NoText
<1>5. 1 \in 1..ReplyMounts
  BY CommentAssumption
<1>6. reply \in Screens
  BY <1>1, <1>4, <1>5 DEF Screens
<1>7. draftsForPost \in [1..ReplyMounts -> [Threads -> Stored]]
  BY <1>2, <1>4
<1>8. CommentTypes
  BY <1>2, <1>3, <1>4, <1>6, <1>7 DEF CommentTypes
<1>9. /\ Parts(NoText) = {} /\ Parts(NoReply) = {} /\ Held(NoReply) = {}
      /\ \A q \in Threads : replyDrafts[q] = NoReply
      /\ \A o \in 1..ReplyMounts, q \in Threads : draftsForPost[o][q] = NoReply
  BY <1>2, <1>8, PartsTypes, TextFacts
<1>10. /\ WrittenTerms = {} /\ WrittenFiles = {} /\ Written = {} /\ ToSet(replies) = {}
  BY <1>2 DEF WrittenTerms, WrittenFiles, Written, ToSet
<1>11. InCalls = {} /\ InReplies = {} /\ Sending = {}
  BY <1>2, <1>10 DEF InCalls, InReplies, Sending
<1>12. Remembered /\ CommandsMeanIt /\ Located /\ OneUpload
  BY <1>2, <1>3, <1>9 DEF Remembered, CommandsMeanIt, Located, In, OneUpload
<1>13. SentOnce
  BY <1>2, <1>3, <1>9, <1>11 DEF SentOnce
<1>14. StoreHasIt /\ BoxHasIt /\ UploadHasIt
  BY <1>2, <1>3, <1>9, <1>10 DEF StoreHasIt, BoxHasIt, UploadHasIt
<1>15. RepliedOnce /\ RightThread
  BY <1>2, <1>10 DEF RepliedOnce, RightThread
<1> QED
  BY <1>8, <1>12, <1>13, <1>14, <1>15 DEF CommentInv

LEMMA CommentStutters ==
  ASSUME CommentInv, UNCHANGED commentVars
  PROVE  CommentInv'
<1>1. UNCHANGED <<reply, lastThread, replyDrafts, draftsForPost, attaching, calls, replies,
                  written, removed, forgone, misplaced, resurfaced>>
  BY DEF commentVars
<1>2. /\ WrittenTerms' = WrittenTerms /\ WrittenFiles' = WrittenFiles /\ Written' = Written
      /\ InCalls' = InCalls /\ InReplies' = InReplies /\ Sending' = Sending
      /\ Settled' = Settled
  BY <1>1, SameCalls DEF WrittenTerms, WrittenFiles, Written, Settled
<1>3. CommentTypes' /\ Remembered'
  <2>1. Texts' = Texts /\ Stored' = Stored /\ Screens' = Screens /\ Answers' = Answers
    BY <1>1, SameWritten DEF CommentInv
  <2>2. Requests' = Requests /\ Submissions' = Submissions
    BY <1>1, <1>2, <2>1 DEF Requests, Submissions
  <2> QED
    BY <1>1, <2>1, <2>2 DEF CommentInv, CommentTypes, Remembered
<1>4. CommandsMeanIt' /\ Located'
  BY <1>1, <1>2 DEF CommentInv, CommandsMeanIt, Located, In, CallParts
<1>5. OneUpload'
  <2>1. FilesHad' = FilesHad
    BY <1>1, <1>2 DEF FilesHad
  <2> QED
    BY <1>1, <2>1 DEF CommentInv, OneUpload
<1>6. SentOnce'
  <2>1. ShownCalls' = ShownCalls
    BY <1>1 DEF ShownCalls, OnScreen, CallParts
  <2> QED
    BY <1>1, <1>2, <2>1 DEF CommentInv, SentOnce, CallParts
<1>7. StoreHasIt' /\ BoxHasIt' /\ UploadHasIt'
  BY <1>1, <1>2 DEF CommentInv, StoreHasIt, BoxHasIt, UploadHasIt
<1>8. RepliedOnce' /\ RightThread'
  BY <1>1 DEF CommentInv, RepliedOnce, RightThread
<1> QED
  BY <1>3, <1>4, <1>5, <1>6, <1>7, <1>8 DEF CommentInv

LEMMA CommentNextInv ==
  ASSUME CommentInv, [CommentNext]_commentVars
  PROVE  CommentInv'
<1>1. CASE CommentNext
  <2>1. Step
    BY <1>1, NextIsStep DEF CommentInv
  <2>2. CommentTypes' /\ Remembered' /\ CommandsMeanIt' /\ Located' /\ OneUpload' /\ SentOnce'
    BY <2>1, StepTypes, StepCommandsMeanIt, StepLocated, StepOneUpload, StepSentOnce DEF CommentInv
  <2>3. StoreHasIt' /\ BoxHasIt' /\ UploadHasIt'
    BY <2>1, StepSaves DEF CommentInv
  <2>4. RepliedOnce' /\ RightThread'
    BY <2>1, StepRepliedOnce, StepRightThread DEF CommentInv
  <2> QED
    BY <2>2, <2>3, <2>4 DEF CommentInv
<1>2. CASE UNCHANGED commentVars
  BY <1>2, CommentStutters
<1> QED
  BY <1>1, <1>2

\* The invariant that the three properties rest on: types, what a call means,
\* where things are, what can still be sent, and which drafts have what is
\* written and not settled.
THEOREM CommentInvariant == CommentSpec => []CommentInv
BY CommentInitInv, CommentNextInv, PTL DEF CommentSpec

\* What is written or attached in the box of a comment stays in the draft of
\* its thread until it is sent, removed or lost in one of the named cases, for
\* every number of threads, words, files, objects and commands
\* (create_comment.jsx, actions/views/create_comment.jsx).
THEOREM CommentsKept == CommentSpec => []ReplyKept
<1>1. ASSUME CommentInv
      PROVE  ReplyKept
  <2> USE <1>1 DEF CommentInv
  <2> SUFFICES ASSUME NEW t \in Terms \cup Attachments, written[t] # "nowhere",
                      t \notin removed \cup forgone
               PROVE  KeptReply(t)
    BY DEF ReplyKept
  <2>1. t \in Written /\ written[t] \in Threads
    BY DEF Written, WrittenTerms, WrittenFiles, CommentTypes
  <2>2. CASE t \in Sending
    BY <2>2 DEF Sending, InCalls, InReplies, CallParts, KeptReply
  <2>3. CASE t \notin Sending
    <3>1. (\E u \in attaching : u.file = t) \/ t \in Held(replyDrafts[written[t]])
      BY <2>1, <2>3 DEF StoreHasIt, Settled
    <3>2. Held(replyDrafts[written[t]]) \subseteq Parts(replyDrafts[written[t]])
      BY <2>1, PartsTypes, ScreenTypes
    <3> QED
      BY <3>1, <3>2 DEF KeptReply
  <2> QED
    BY <2>2, <2>3
<1> QED
  BY <1>1, CommentInvariant, PTL

\* Nothing is sent twice unless an upload or a command brought its draft back
\* (doSubmit of create_comment.jsx, makeOnSubmit of views/create_comment.jsx).
THEOREM CommentsSentOnce == CommentSpec => []RepliedOnce
<1>1. CommentInv => RepliedOnce
  BY DEF CommentInv
<1> QED
  BY <1>1, CommentInvariant, PTL

\* A comment goes to the thread it was written in, unless an unknown command
\* brought its text to another (doSubmit of create_comment.jsx).
THEOREM CommentsInTheirThread == CommentSpec => []RightThread
<1>1. CommentInv => RightThread
  BY DEF CommentInv
<1> QED
  BY <1>1, CommentInvariant, PTL

=============================================================================
