--------------------------- MODULE CommentComposer ---------------------------
(***************************************************************************)
(* The box in which a comment is written (components/create_comment and    *)
(* actions/views/create_comment). Other than the box of a post, it shows a *)
(* draft of its own, clears the stored one before it sends, and does not   *)
(* wait for a message, only for a command. The drafts are thus kept three  *)
(* times: on the screen, in the store, and in draftsForPost, which is what *)
(* an upload that ends starts from. In some browsers (isIosClassic) the    *)
(* comment itself waits for the server.                                    *)
(*                                                                         *)
(* A message is the set of the words typed in it; a word is typed once.    *)
(***************************************************************************)
EXTENDS Naturals, Sequences, SequencesExt

CONSTANTS
  Threads, Terms, Attachments,
  ReplyMounts,        \* bound: objects of the class, one after the other
  MaxReplies,         \* bound: submissions
  MaxThreadSwitches   \* bound: selections of another thread

ASSUME CommentAssumption == /\ ReplyMounts \in Nat \ {0}
                            /\ {MaxReplies, MaxThreadSwitches} \subseteq Nat
                            /\ Terms \cap Attachments = {} /\ "none" \notin Terms
                            /\ "nowhere" \notin Threads

VARIABLES
  reply,          \* the mounted object: its number, thread, draft, flags
  lastThread,     \* the thread in the props of every object, mounted or not
  replyDrafts,    \* the drafts of the store
  draftsForPost,  \* the drafts that every object remembers
  attaching,      \* upload requests under way: file, thread, object
  calls,          \* messages and commands that wait for plugins or the server
  replies,        \* what was handed over to the server, in order
  replyWaits,     \* createPost waits for the answer of the server
  written,        \* history: the thread in which a word or a file was entered
  removed,        \* history: files that the user removed or that failed
  forgone,        \* history: what was lost in a case named below
  misplaced,      \* history: what a command left in the thread of another
  resurfaced,     \* history: what is in a draft again while, or after, it is sent
  replySpent      \* how much of the bounds is used

commentVars == <<reply, lastThread, replyDrafts, draftsForPost, attaching, calls, replies,
                 replyWaits, written, removed, forgone, misplaced, resurfaced, replySpent>>

NoText == [words |-> {}, files |-> {}, up |-> {}]

\* null: getPostDraft takes it for an empty draft.
NoReply == [words |-> {"none"}, files |-> {}, up |-> {}]
ReplyDraft(t) == IF replyDrafts[t] = NoReply THEN NoText ELSE replyDrafts[t]

Parts(draft) == IF draft = NoReply THEN {} ELSE draft.words \cup draft.files \cup draft.up
Content(draft) == draft.words \cup draft.files

\* onUpdateCommentDraft, setState and draftsForPost, as most handlers do.
Write(draft) ==
  /\ replyDrafts' = [replyDrafts EXCEPT ![reply.thread] = draft]
  /\ draftsForPost' = [draftsForPost EXCEPT ![reply.object][reply.thread] = draft]

\* The draft on the screen is stored while a command that it still shows is
\* under way: what is being sent is in a draft again.
InCommands == UNION {s.words \cup s.files : s \in {c \in calls : c.kind = "command"}}
Resurfaces(draft) == resurfaced' = resurfaced \cup (Parts(draft) \cap InCommands)

Attaching(t) == \E u \in attaching : u.thread = t

----------------------------------------------------------------------------
(* The user writes.                                                        *)

\* handleChange; an emoji or a GIF is picked, which keeps the error shown.
TypeReply(w) ==
  LET draft == [reply.draft EXCEPT !.words = @ \cup {w}]
  IN  /\ written[w] = "nowhere"
      /\ Write(draft)
      /\ \E keep \in {FALSE, reply.invalid} : reply' = [reply EXCEPT !.draft = draft, !.invalid = keep]
      /\ written' = [written EXCEPT ![w] = reply.thread]
      /\ Resurfaces(draft)
      /\ UNCHANGED <<lastThread, attaching, calls, replies, removed, forgone, misplaced,
                     replySpent, replyWaits>>

\* pasteHandler: a table goes into the draft, but not into draftsForPost.
PasteReply(w) ==
  LET draft == [reply.draft EXCEPT !.words = @ \cup {w}]
  IN  /\ written[w] = "nowhere"
      /\ replyDrafts' = [replyDrafts EXCEPT ![reply.thread] = draft]
      /\ reply' = [reply EXCEPT !.draft = draft]
      /\ written' = [written EXCEPT ![w] = reply.thread]
      /\ Resurfaces(draft)
      /\ forgone' = IF Attaching(reply.thread) THEN forgone \cup {w} ELSE forgone
      /\ UNCHANGED <<lastThread, draftsForPost, attaching, calls, replies, removed, misplaced,
                     replySpent, replyWaits>>

\* makeOnMoveHistoryIndex and UNSAFE_componentWillReceiveProps: when the stored
\* message is empty, or the one last recalled, another of the history, or none,
\* takes its place, but not in draftsForPost.
RecallReply(words) ==
  LET old   == ReplyDraft(reply.thread).words
      draft == [ReplyDraft(reply.thread) EXCEPT !.words = words]
  IN  /\ \A w \in words : written[w] = "nowhere"
      /\ old \in {{}, reply.recalled} /\ words # reply.recalled
      /\ replyDrafts' = [replyDrafts EXCEPT ![reply.thread] = draft]
      /\ reply' = [reply EXCEPT !.draft = draft, !.recalled = words]
      /\ written' = [t \in DOMAIN written |-> IF t \in words THEN reply.thread ELSE written[t]]
      /\ forgone' = forgone \cup old \cup (IF Attaching(reply.thread) THEN words ELSE {})
      /\ UNCHANGED <<lastThread, draftsForPost, attaching, calls, replies, removed, misplaced,
                     resurfaced, replySpent, replyWaits>>

\* The draft that is shown when the box turns to a thread: without its uploads.
Shown(t) == [ReplyDraft(t) EXCEPT !.up = {}]

\* Mutant of SelectThread: the box goes on with the draft it shows.
SelectThreadKeepsDraft(t) ==
  /\ t # reply.thread
  /\ replySpent.switches < MaxThreadSwitches
  /\ reply' = [reply EXCEPT !.thread = t]
  /\ lastThread' = [lastThread EXCEPT ![reply.object] = t]
  /\ replySpent' = [replySpent EXCEPT !.switches = @ + 1]
  /\ UNCHANGED <<replyDrafts, draftsForPost, attaching, calls, replies, written, removed,
                 forgone, misplaced, resurfaced, replyWaits>>

\* Another thread is selected and shown by the same object.
SelectThread(t) ==
  /\ t # reply.thread
  /\ replySpent.switches < MaxThreadSwitches
  /\ reply' = [reply EXCEPT !.thread = t, !.draft = Shown(t)]
  /\ lastThread' = [lastThread EXCEPT ![reply.object] = t]
  /\ replySpent' = [replySpent EXCEPT !.switches = @ + 1]
  /\ UNCHANGED <<replyDrafts, draftsForPost, attaching, calls, replies, written, removed,
                 forgone, misplaced, resurfaced, replyWaits>>

\* The sidebar is closed and a thread selected again: another object, which
\* remembers nothing and forgets the uploads of every stored draft.
Reopen(t) ==
  /\ reply.object < ReplyMounts
  /\ replyDrafts' = [r \in Threads |-> IF replyDrafts[r] = NoReply THEN NoReply
                                       ELSE [replyDrafts[r] EXCEPT !.up = {}]]
  /\ reply' = [object |-> reply.object + 1, thread |-> t, draft |-> Shown(t),
               invalid |-> FALSE, recalled |-> {}]
  /\ lastThread' = [lastThread EXCEPT ![reply.object + 1] = t]
  /\ UNCHANGED <<draftsForPost, attaching, calls, replies, written, removed, forgone,
                 misplaced, resurfaced, replySpent, replyWaits>>

----------------------------------------------------------------------------
(* Files.                                                                  *)

\* uploadFiles and handleUploadStart
Attach(f) ==
  LET draft == [reply.draft EXCEPT !.up = @ \cup {f}]
  IN  /\ written[f] = "nowhere"
      /\ attaching' = attaching \cup {[file |-> f, thread |-> reply.thread, object |-> reply.object]}
      /\ Write(draft)
      /\ reply' = [reply EXCEPT !.draft = draft, !.invalid = FALSE]
      /\ written' = [written EXCEPT ![f] = reply.thread]
      /\ Resurfaces(draft)
      /\ UNCHANGED <<lastThread, calls, replies, removed, forgone, misplaced, replySpent, replyWaits>>

\* Mutant of Attached: it starts from the draft on the screen.
AttachedOnScreen(u) == [reply.draft EXCEPT !.up = @ \ {u.file}, !.files = @ \cup {u.file}]

\* The remembered draft with the file that has come.
Attached(u) ==
  [draftsForPost[u.object][u.thread] EXCEPT !.up = @ \ {u.file}, !.files = @ \cup {u.file}]

\* fileUploadSuccess and handleFileUploadComplete: the draft is remembered,
\* stored, and shown if its object still shows the thread. That of an object
\* that is gone replaces what was written since, and nobody shows it.
AttachComplete(u) ==
  LET gone == u.object # reply.object
  IN  /\ attaching' = attaching \ {u}
      /\ replyDrafts' = [replyDrafts EXCEPT ![u.thread] = Attached(u)]
      /\ draftsForPost' = [draftsForPost EXCEPT ![u.object][u.thread] = Attached(u)]
      /\ forgone' = IF gone THEN forgone \cup Parts(replyDrafts[u.thread]) \cup {u.file} ELSE forgone
      /\ resurfaced' = IF gone THEN resurfaced \cup Parts(Attached(u)) ELSE resurfaced
      /\ reply' = IF gone \/ u.thread # reply.thread THEN reply
                  ELSE [reply EXCEPT !.draft = Attached(u)]
      /\ UNCHANGED <<lastThread, calls, replies, written, removed, misplaced, replySpent, replyWaits>>

\* fileUploadFail gives handleUploadError the channel for the thread, which has
\* no draft: it throws, and the upload stays in the drafts until its preview is
\* removed.
AttachFailed(u) ==
  /\ attaching' = attaching \ {u}
  /\ removed' = removed \cup {u.file}
  /\ UNCHANGED <<reply, lastThread, replyDrafts, draftsForPost, calls, replies, written, forgone,
                 misplaced, resurfaced, replySpent, replyWaits>>

\* removePreview of a file, or of an upload, whose request is aborted.
RemoveAttachment(f) ==
  LET draft == IF f \in reply.draft.files THEN [reply.draft EXCEPT !.files = @ \ {f}]
                                          ELSE [reply.draft EXCEPT !.up = @ \ {f}]
  IN  /\ f \in reply.draft.files \cup reply.draft.up
      /\ Write(draft)
      /\ reply' = [reply EXCEPT !.draft = draft, !.invalid = FALSE]
      /\ attaching' = IF f \in reply.draft.files THEN attaching
                      ELSE {u \in attaching : ~(u.file = f /\ u.object = reply.object)}
      /\ removed' = removed \cup {f}
      /\ Resurfaces(draft)
      /\ UNCHANGED <<lastThread, calls, replies, written, forgone, misplaced, replySpent, replyWaits>>

----------------------------------------------------------------------------
(* doSubmit and onSubmit.                                                  *)

\* The draft on the screen has no upload under way; the stored one is not
\* empty, or the last command was not known to the server.
MayReply ==
  /\ replySpent.replies < MaxReplies
  /\ reply.draft.up = {}
  /\ Content(ReplyDraft(reply.thread)) # {} \/ reply.invalid

\* What is sent is the stored draft of the thread; shown is what the box shows.
Submission(kind) ==
  [kind |-> kind, stage |-> kind, object |-> reply.object, thread |-> reply.thread,
   words |-> ReplyDraft(reply.thread).words, files |-> ReplyDraft(reply.thread).files,
   shown |-> reply.draft]

\* Mutant of Clear: only the screen is cleared.
ClearScreen ==
  /\ UNCHANGED replyDrafts
  /\ replySpent' = [replySpent EXCEPT !.replies = @ + 1]
  /\ resurfaced' = IF Attaching(reply.thread)
                   THEN resurfaced \cup Content(ReplyDraft(reply.thread)) ELSE resurfaced

\* The stored draft is cleared first. An upload of the thread still under way
\* (its object shows the thread again, or is gone) remembers the draft.
Clear ==
  /\ replyDrafts' = [replyDrafts EXCEPT ![reply.thread] = NoReply]
  /\ replySpent' = [replySpent EXCEPT !.replies = @ + 1]
  /\ resurfaced' = IF Attaching(reply.thread)
                   THEN resurfaced \cup Content(ReplyDraft(reply.thread)) ELSE resurfaced

EmptyBox == [reply EXCEPT !.draft = NoText, !.invalid = FALSE, !.recalled = {}]

\* A message waits for the plugins' hooks, doSubmit does not wait for them.
SubmitReply ==
  /\ MayReply
  /\ calls' = calls \cup {Submission("message")}
  /\ Clear
  /\ reply' = EmptyBox
  /\ UNCHANGED <<lastThread, draftsForPost, attaching, replies, written, removed, forgone, misplaced,
                 replyWaits>>

\* A reaction to the last post of the thread; files have no place in it.
ReactInThread ==
  /\ MayReply /\ ReplyDraft(reply.thread).words # {}
  /\ replies' = Append(replies, [to |-> reply.thread, words |-> ReplyDraft(reply.thread).words,
                                 files |-> {}])
  /\ Clear
  /\ reply' = EmptyBox
  /\ forgone' = forgone \cup ReplyDraft(reply.thread).files
  /\ UNCHANGED <<lastThread, draftsForPost, attaching, calls, written, removed, misplaced,
                 replyWaits>>

\* A command waits for the hooks and for the server, and doSubmit for it. The
\* box shows it meanwhile, unless it was recalled: the history has moved on.
SubmitReplyCommand ==
  /\ MayReply /\ ReplyDraft(reply.thread).words # {}
  /\ calls' = calls \cup {Submission("command")}
  /\ Clear
  /\ reply' = [reply EXCEPT !.draft = IF reply.recalled # {} THEN NoText ELSE @,
                            !.recalled = {}]
  /\ forgone' = forgone \cup ReplyDraft(reply.thread).files
  /\ UNCHANGED <<lastThread, draftsForPost, attaching, replies, written, removed, misplaced,
                 replyWaits>>

\* The hooks let the command through; then the server may turn out not to know
\* it and have it sent as a message.
Advance(s, from, to) ==
  /\ s.kind = "command" /\ s.stage = from
  /\ calls' = (calls \ {s}) \cup {[s EXCEPT !.stage = to]}
  /\ UNCHANGED <<reply, lastThread, replyDrafts, draftsForPost, attaching, replies, written,
                 removed, forgone, misplaced, resurfaced, replySpent, replyWaits>>

ReplyCommandAllowed(s)   == Advance(s, "command", "execution")
ReplyCommandAsMessage(s) == Advance(s, "execution", "message")

\* doSubmit goes on after a command: the box shows what is stored for its thread.
Resume(s, show) ==
  /\ calls' = calls \ {s}
  /\ reply' = IF s.kind = "command" /\ s.object = reply.object
              THEN [reply EXCEPT !.draft = show, !.invalid = FALSE]
              ELSE reply
  /\ UNCHANGED <<lastThread, draftsForPost, attaching, written, removed, misplaced,
                 resurfaced, replySpent, replyWaits>>

\* createPost clears the draft of the thread once more, whatever it is by now.
Created(s) ==
  /\ replyDrafts' = [replyDrafts EXCEPT ![s.thread] = NoReply]
  /\ forgone' = forgone \cup Parts(replyDrafts[s.thread])
  /\ Resume(s, IF s.thread = reply.thread THEN NoText ELSE Shown(reply.thread))

HandOver(s) ==
  /\ s.stage = "message"
  /\ replies' = Append(replies, [to |-> s.thread, words |-> s.words, files |-> s.files])

\* The hooks accept the message, and it is posted in the thread of the call.
ReplySent(s) == ~replyWaits /\ HandOver(s) /\ Created(s)

\* The same in a browser in which createPost waits for the server, and with it
\* doSubmit, if it was a command.
ReplyHandedOver(s) ==
  /\ replyWaits /\ HandOver(s)
  /\ calls' = (calls \ {s}) \cup {[s EXCEPT !.stage = "answer"]}
  /\ UNCHANGED <<reply, lastThread, replyDrafts, draftsForPost, attaching, written, removed,
                 forgone, misplaced, resurfaced, replySpent, replyWaits>>

ReplyCreated(s) == s.stage = "answer" /\ Created(s) /\ UNCHANGED replies

\* The server executes the command, or a hook swallows it.
ReplyCommandDone(s) ==
  /\ s.stage \in {"command", "execution"}
  /\ replies' = Append(replies, [to |-> s.thread, words |-> s.words, files |-> {}])
  /\ Resume(s, Shown(reply.thread))
  /\ UNCHANGED <<replyDrafts, forgone>>

\* The hooks refuse the message or the command: nobody looks at the error.
ReplyRefused(s) ==
  /\ s.stage \in {"message", "command"}
  /\ Resume(s, Shown(reply.thread))
  /\ forgone' = forgone \cup s.words \cup s.files
  /\ UNCHANGED <<replyDrafts, replies>>

\* The command is again in the draft of its thread, in the box, and in what an
\* upload under way starts from.
BackInBox(s, t) ==
  /\ t = s.thread /\ s.object = reply.object
  /\ s.words \subseteq s.shown.words \cap reply.draft.words
  /\ Attaching(t) => s.words \subseteq draftsForPost[s.object][t].words

\* The server does not know the command: the draft that was shown is stored
\* again, for the thread that the object shows now, and not shown.
ReplyCommandUnknown(s) ==
  LET t == lastThread[s.object]
  IN  /\ s.stage = "execution"
      /\ calls' = calls \ {s}
      /\ replyDrafts' = [replyDrafts EXCEPT ![t] = s.shown]
      /\ forgone' = forgone \cup Parts(replyDrafts[t])
                    \cup (IF BackInBox(s, t) THEN {} ELSE s.words \cup Parts(s.shown))
      /\ misplaced' = IF t # s.thread THEN misplaced \cup Parts(s.shown) ELSE misplaced
      /\ reply' = IF s.object = reply.object THEN [reply EXCEPT !.invalid = TRUE] ELSE reply
      /\ resurfaced' = resurfaced \cup Parts(s.shown)
      /\ UNCHANGED <<lastThread, draftsForPost, attaching, replies, written, removed, replySpent,
                     replyWaits>>

\* It fails in another way: the box shows it, no draft has it.
ReplyCommandFailed(s) ==
  /\ s.stage = "execution"
  /\ calls' = calls \ {s}
  /\ reply' = IF s.object = reply.object THEN [reply EXCEPT !.invalid = FALSE] ELSE reply
  /\ forgone' = forgone \cup s.words \cup s.files
  /\ UNCHANGED <<lastThread, replyDrafts, draftsForPost, attaching, replies, written, removed,
                 misplaced, resurfaced, replySpent, replyWaits>>

----------------------------------------------------------------------------
CommentInit ==
  /\ \E t \in Threads : reply = [object |-> 1, thread |-> t, draft |-> NoText,
                                 invalid |-> FALSE, recalled |-> {}]
  /\ lastThread = [o \in 1..ReplyMounts |-> reply.thread]
  /\ replyDrafts = [t \in Threads |-> NoReply]
  /\ draftsForPost = [o \in 1..ReplyMounts |-> replyDrafts]
  /\ attaching = {} /\ calls = {} /\ replies = <<>> /\ replyWaits \in BOOLEAN
  /\ written = [w \in Terms \cup Attachments |-> "nowhere"]
  /\ removed = {} /\ forgone = {} /\ misplaced = {} /\ resurfaced = {}
  /\ replySpent = [replies |-> 0, switches |-> 0]

CommentNext ==
  \/ \E w \in Terms : TypeReply(w) \/ PasteReply(w) \/ RecallReply({w})
  \/ RecallReply({})
  \/ \E t \in Threads : SelectThread(t) \/ Reopen(t)
  \/ \E f \in Attachments : Attach(f) \/ RemoveAttachment(f)
  \/ \E u \in attaching : AttachComplete(u) \/ AttachFailed(u)
  \/ SubmitReply \/ SubmitReplyCommand \/ ReactInThread
  \/ \E s \in calls : \/ ReplyCommandAllowed(s) \/ ReplyCommandAsMessage(s)
                      \/ ReplySent(s) \/ ReplyHandedOver(s) \/ ReplyCreated(s)
                      \/ ReplyCommandDone(s) \/ ReplyRefused(s)
                      \/ ReplyCommandUnknown(s) \/ ReplyCommandFailed(s)

CommentSpec == CommentInit /\ [][CommentNext]_commentVars

----------------------------------------------------------------------------
(* Properties.                                                             *)

KeptReply(t) ==
  \/ t \in Parts(replyDrafts[written[t]])
  \/ \E u \in attaching : u.file = t
  \/ \E s \in calls : t \in s.words \cup s.files
  \/ \E p \in ToSet(replies) : t \in p.words \cup p.files

\* What the user writes or attaches is in the draft of its thread until it is
\* uploaded and sent. Forgone is what was pasted or recalled into a draft during
\* an upload, a recalled message that another one replaced, what was in the
\* draft when an earlier comment was handed over or the server answered it, the
\* files of a command, what a hook refused, a failed command, what an unknown
\* command or an upload of an object that is gone overwrote, and an unknown
\* command that is not back in its draft, the box and what an upload starts from.
ReplyKept ==
  \A t \in Terms \cup Attachments :
    written[t] # "nowhere" => KeptReply(t) \/ t \in removed \cup forgone

\* A word or a file is sent once, unless an upload or a command brought back
\* the draft it was in.
RepliedOnce ==
  \A i, j \in 1..Len(replies) :
     i # j => (replies[i].words \cup replies[i].files)
              \cap (replies[j].words \cup replies[j].files) \subseteq resurfaced

\* A comment goes to the thread it was written in, except the text of an
\* unknown command that came back when another thread was shown.
RightThread ==
  \A p \in ToSet(replies) : \A t \in p.words \cup p.files : written[t] = p.to \/ t \in misplaced
=============================================================================
