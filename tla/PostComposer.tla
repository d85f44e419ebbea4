---------------------------- MODULE PostComposer ----------------------------
(***************************************************************************)
(* The box in which a post is written (components/create_post), its file   *)
(* uploads (components/file_upload) and the drafts that both keep, in the  *)
(* store and in the object. Submitting waits for plugins and, with a       *)
(* command, for the server; some browsers (isIosClassic) have the post     *)
(* itself wait for the server. Meanwhile the user types, attaches,         *)
(* switches channels, or leaves the page so that another object takes over.*)
(*                                                                         *)
(* A message is the set of the words typed in it; a word is typed once.    *)
(***************************************************************************)
EXTENDS Naturals, Sequences, SequencesExt, FiniteSets

CONSTANTS
  Channels, Words, Files,
  Mounts,      \* bound: objects of the class, one after the other
  MaxSends,    \* bound: calls of doSubmit that get past its guards
  MaxSwitches  \* bound: switches to another channel

ASSUME ComposerAssumption == /\ Mounts \in Nat \ {0} /\ {MaxSends, MaxSwitches} \subseteq Nat
                             /\ Words \cap Files = {} /\ "none" \notin Words
                             /\ "nowhere" \notin Channels

VARIABLES
  box,         \* the mounted object: its number, channel, message, submitting
  left,        \* the props that an unmounted object still has: channel, files
  stored,      \* the drafts of the store
  memory,      \* draftsForChannel of every object
  uploads,     \* upload requests under way: file, channel, object
  sends,       \* calls of doSubmit that wait for something
  posted,      \* the posts handed over to the server, in order
  creating,    \* createPost: does it wait for the server, and for which posts
  home,        \* history: the channel in which a word or a file was entered
  dropped,     \* history: files that the user removed or that failed
  excused,     \* history: what was entered or sent in a case named below
  strayed,     \* history: what was in a call that ended in another channel
  reshown,     \* history: what is shown again while it is being sent
  spent        \* how much of the bounds is used

composerVars == <<box, left, stored, memory, uploads, sends, posted, creating,
                  home, dropped, excused, strayed, reshown, spent>>

EmptyDraft == [words |-> {}, files |-> {}, up |-> {}]

\* null, no entry, and the object without fields that getPostDraft rejects.
NoDraft == [words |-> {"none"}, files |-> {}, up |-> {}]

\* getPostDraft: what the object gets as its draft.
DraftIn(drafts, c) == IF drafts[c] = NoDraft THEN EmptyDraft ELSE drafts[c]
Draft == DraftIn(stored, box.channel)

Tokens(draft) == IF draft = NoDraft THEN {} ELSE draft.words \cup draft.files \cup draft.up

\* setDraft and this.draftsForChannel together, as nearly every handler does.
SaveDraft(object, c, draft) ==
  /\ stored' = [stored EXCEPT ![c] = draft]
  /\ memory' = [memory EXCEPT ![object][c] = draft]

\* Something of this channel is on its way that knows an older draft: a call
\* of doSubmit, or an upload of an object that is gone.
InTransit(c) == \/ \E s \in sends : s.from = c
                \/ \E u \in uploads : u.channel = c /\ u.object # box.object

----------------------------------------------------------------------------
(* The user writes.                                                        *)

\* handleChange
Type(w) ==
  /\ home[w] = "nowhere"
  /\ box' = [box EXCEPT !.text = @ \cup {w}]
  /\ SaveDraft(box.object, box.channel, [Draft EXCEPT !.words = box.text \cup {w}])
  /\ home' = [home EXCEPT ![w] = box.channel]
  /\ excused' = IF InTransit(box.channel) THEN excused \cup {w} ELSE excused
  /\ UNCHANGED <<left, uploads, sends, posted, dropped, strayed, reshown, spent, creating>>

\* An emoji or a GIF is picked, or a table pasted: the message changes, the
\* draft does not. A message of the history takes the place of what was there.
Insert(w, before) ==
  /\ home[w] = "nowhere"
  /\ box' = [box EXCEPT !.text = before \cup {w}]
  /\ home' = [home EXCEPT ![w] = box.channel]
  /\ excused' = excused \cup {w} \cup (box.text \ before)
  /\ UNCHANGED <<left, stored, memory, uploads, sends, posted, dropped,
                 strayed, reshown, spent, creating>>

\* Mutant of SwitchChannel: the message stays on the screen.
SwitchChannelKeepsText(c) ==
  /\ c # box.channel
  /\ spent.switches < MaxSwitches
  /\ box' = [box EXCEPT !.channel = c, !.submitting = FALSE]
  /\ reshown' = reshown \cup UNION {s.words \cup s.files : s \in sends}
  /\ spent' = [spent EXCEPT !.switches = @ + 1]
  /\ UNCHANGED <<left, stored, memory, uploads, sends, posted, home, dropped,
                 excused, strayed, creating>>

\* Another channel is shown in the same object.
SwitchChannel(c) ==
  /\ c # box.channel
  /\ spent.switches < MaxSwitches
  /\ box' = [box EXCEPT !.channel = c, !.text = DraftIn(stored, c).words, !.submitting = FALSE]
  /\ reshown' = reshown \cup UNION {s.words \cup s.files : s \in sends}
  /\ spent' = [spent EXCEPT !.switches = @ + 1]
  /\ UNCHANGED <<left, stored, memory, uploads, sends, posted, home, dropped,
                 excused, strayed, creating>>

\* The object is unmounted and another one mounted: its draftsForChannel is
\* empty, and clearDraftUploads forgets the uploads of every draft.
Remount ==
  /\ box.object < Mounts
  /\ LET cleared == [c \in Channels |-> IF stored[c] = NoDraft THEN NoDraft
                                        ELSE [stored[c] EXCEPT !.up = {}]]
     IN  /\ stored' = cleared
         /\ box' = [object |-> box.object + 1, channel |-> box.channel,
                    text |-> DraftIn(cleared, box.channel).words, submitting |-> FALSE]
  /\ left' = [left EXCEPT ![box.object] = [channel |-> box.channel, files |-> Draft.files]]
  /\ reshown' = reshown \cup UNION {s.words \cup s.files : s \in sends}
  /\ UNCHANGED <<memory, uploads, sends, posted, home, dropped, excused,
                 strayed, spent, creating>>

----------------------------------------------------------------------------
(* Files.                                                                  *)

\* uploadFiles and handleUploadStart
UploadStart(f) ==
  /\ home[f] = "nowhere"
  /\ uploads' = uploads \cup {[file |-> f, channel |-> box.channel, object |-> box.object]}
  /\ SaveDraft(box.object, box.channel, [Draft EXCEPT !.up = @ \cup {f}])
  /\ home' = [home EXCEPT ![f] = box.channel]
  /\ excused' = IF InTransit(box.channel) THEN excused \cup {f} ELSE excused
  /\ UNCHANGED <<box, left, sends, posted, dropped, strayed, reshown, spent, creating>>

\* Mutant of Uploaded: it starts from the draft on the screen.
UploadedOnScreen(u) == [Draft EXCEPT !.up = @ \ {u.file}, !.files = @ \cup {u.file}]

\* The draft with the file that has come. The draft is the one the object
\* remembers; without one, the file has nowhere to go.
Uploaded(u) ==
  IF memory[u.object][u.channel] = NoDraft THEN NoDraft
  ELSE [memory[u.object][u.channel] EXCEPT !.up = @ \ {u.file}, !.files = @ \cup {u.file}]

\* handleFileUploadEnd, fileUploadSuccess and handleFileUploadComplete
UploadComplete(u) ==
  /\ u \in uploads
  /\ uploads' = uploads \ {u}
  /\ SaveDraft(u.object, u.channel, Uploaded(u))
  /\ excused' = IF \/ \E s \in sends : s.from = u.channel
                   \/ \E o \in uploads : o.channel = u.channel /\ o.object # u.object
                THEN excused \cup {u.file} ELSE excused
  /\ reshown' = IF u.object = box.object THEN reshown ELSE reshown \cup Tokens(Uploaded(u))
  /\ UNCHANGED <<box, left, sends, posted, home, dropped, strayed, spent, creating>>

\* handleUploadError
UploadError(u) ==
  LET draft == memory[u.object][u.channel]
  IN  /\ u \in uploads
      /\ uploads' = uploads \ {u}
      /\ IF draft # NoDraft /\ u.file \in draft.up
         THEN SaveDraft(u.object, u.channel, [draft EXCEPT !.up = @ \ {u.file}])
         ELSE UNCHANGED <<stored, memory>>
      /\ dropped' = dropped \cup {u.file}
      /\ reshown' = IF u.object = box.object THEN reshown ELSE reshown \cup Tokens(draft)
      /\ UNCHANGED <<box, left, sends, posted, home, excused, strayed, spent, creating>>

\* removePreview of a file, or of an upload, whose request is aborted.
RemovePreview(f) ==
  /\ f \in Draft.files \cup Draft.up
  /\ SaveDraft(box.object, box.channel,
               IF f \in Draft.files THEN [Draft EXCEPT !.files = @ \ {f}]
                                    ELSE [Draft EXCEPT !.up = @ \ {f}])
  /\ uploads' = IF f \in Draft.files THEN uploads
                ELSE {u \in uploads : ~(u.file = f /\ u.object = box.object)}
  /\ dropped' = dropped \cup {f}
  /\ UNCHANGED <<box, left, sends, posted, home, excused, strayed, reshown, spent, creating>>

----------------------------------------------------------------------------
(* doSubmit: its guards, its waits and its end.                            *)

\* Mutant of MaySubmit: a submission under way is no obstacle.
MaySubmitAgain ==
  /\ spent.sends < MaxSends
  /\ Draft.up = {}
  /\ box.text # {} \/ Draft.files # {}

\* Nothing is sent while files are uploaded or another message is sent.
MaySubmit ==
  /\ spent.sends < MaxSends
  /\ Draft.up = {} /\ ~box.submitting
  /\ box.text # {} \/ Draft.files # {}

Call(stage, kind) ==
  [object |-> box.object, from |-> box.channel, stage |-> stage, kind |-> kind,
   to |-> box.channel, words |-> box.text, files |-> Draft.files]

\* A message waits for the plugins' MessageWillBePosted hooks. sendMessage
\* has read the channel and the files of the draft.
SubmitMessage ==
  /\ MaySubmit
  /\ sends' = sends \cup {Call("message hooks", "message")}
  /\ box' = [box EXCEPT !.submitting = TRUE]
  /\ spent' = [spent EXCEPT !.sends = @ + 1]
  /\ UNCHANGED <<left, stored, memory, uploads, posted, home, dropped, excused,
                 strayed, reshown, creating>>

\* A command waits for the SlashCommandWillBePosted hooks. The files of the
\* draft have no place in a command.
SubmitCommand ==
  /\ MaySubmit /\ box.text # {}
  /\ sends' = sends \cup {[Call("command hooks", "command") EXCEPT !.files = {}]}
  /\ box' = [box EXCEPT !.submitting = TRUE, !.text = {}]
  /\ excused' = excused \cup Draft.files
  /\ spent' = [spent EXCEPT !.sends = @ + 1]
  /\ UNCHANGED <<left, stored, memory, uploads, posted, home, dropped, strayed,
                 reshown, creating>>

\* A reaction to the last post: it is over at once, draft and files with it.
SubmitReaction ==
  /\ MaySubmit /\ box.text # {}
  /\ posted' = Append(posted, [to |-> box.channel, words |-> box.text, files |-> {}])
  /\ box' = [box EXCEPT !.text = {}]
  /\ SaveDraft(box.object, box.channel, NoDraft)
  /\ excused' = excused \cup Draft.files
  /\ spent' = [spent EXCEPT !.sends = @ + 1]
  /\ UNCHANGED <<left, uploads, sends, home, dropped, strayed, reshown, creating>>

\* handleSubmit itself takes /header, /purpose, /rename and the commands that
\* set a status: it opens a dialog and empties the box, not the draft.
OpenDialog ==
  /\ box.text # {}
  /\ box' = [box EXCEPT !.text = {}]
  /\ excused' = excused \cup box.text
  /\ UNCHANGED <<left, stored, memory, uploads, sends, posted, home, dropped,
                 strayed, reshown, spent, creating>>

\* The command hooks let the command through, and the server executes it.
CommandAllowed(s) ==
  /\ s \in sends /\ s.stage = "command hooks"
  /\ sends' = (sends \ {s}) \cup {[s EXCEPT !.stage = "command"]}
  /\ UNCHANGED <<box, left, stored, memory, uploads, posted, home, dropped,
                 excused, strayed, reshown, spent, creating>>

\* The server does not know the command, which is sent as a message:
\* sendMessage reads the channel of the object of now, and its files.
CommandAsMessage(s) ==
  /\ s \in sends /\ s.stage = "command"
  /\ LET props == IF s.object = box.object THEN [channel |-> box.channel, files |-> Draft.files]
                  ELSE left[s.object]
     IN  /\ sends' = (sends \ {s})
                     \cup {[s EXCEPT !.stage = "message hooks", !.to = props.channel, !.files = props.files]}
         /\ reshown' = IF s.object = box.object /\ props.channel = s.from THEN reshown
                       ELSE reshown \cup props.files
  /\ UNCHANGED <<box, left, stored, memory, uploads, posted, home, dropped,
                 excused, strayed, spent, creating>>

\* The last lines of doSubmit: the draft of the channel it began in is gone.
Ended(s, drafts) ==
  /\ stored' = [drafts EXCEPT ![s.from] = NoDraft]
  /\ memory' = [memory EXCEPT ![s.object][s.from] = NoDraft]

\* What the object shows afterwards, when it is still mounted. It may submit
\* again, even if another call of its own is not over.
Over(s, text, again) ==
  /\ sends' = sends \ {s}
  /\ box' = IF s.object = box.object THEN [box EXCEPT !.text = text, !.submitting = FALSE] ELSE box
  /\ reshown' = reshown \cup again \cup UNION {o.words \cup o.files : o \in sends \ {s}}

\* The text on the screen is another channel's when the user has switched.
Crossed(s) == s.object = box.object /\ s.from # box.channel
Strays(s) == strayed' = IF Crossed(s) \/ s.to # s.from THEN strayed \cup s.words \cup s.files \cup box.text
                        ELSE strayed

\* The hooks accept the message: onSubmitPost hands it over, and nobody waits
\* for createPost, which clears the draft of the channel that the post goes to:
\* at once, or when the server has answered. A message leaves an empty box.
Sent(s) ==
  /\ s \in sends /\ s.stage = "message hooks"
  /\ posted' = Append(posted, [to |-> s.to, words |-> s.words, files |-> s.files])
  /\ creating' = IF creating.waits THEN [creating EXCEPT !.posts = @ \cup {Len(posted) + 1}]
                 ELSE creating
  /\ Ended(s, IF creating.waits THEN stored ELSE [stored EXCEPT ![s.to] = NoDraft])
  /\ Over(s, IF s.kind = "message" THEN {} ELSE box.text,
             IF s.to # s.from THEN s.files \cup Tokens(stored[s.to]) ELSE {})
  /\ Strays(s)
  /\ excused' = IF s.to # s.from THEN IF creating.waits THEN excused ELSE excused \cup Tokens(stored[s.to])
                ELSE IF Crossed(s) THEN excused \cup box.text ELSE excused
  /\ UNCHANGED <<left, uploads, home, dropped, spent>>

\* The server has answered, and createPost clears the draft, whatever it is by
\* now. Box and memory keep theirs: it is lost if the channel is left.
PostCreated(i) ==
  /\ i \in creating.posts
  /\ creating' = [creating EXCEPT !.posts = @ \ {i}]
  /\ stored' = [stored EXCEPT ![posted[i].to] = NoDraft]
  /\ excused' = excused \cup Tokens(stored[posted[i].to])
  /\ UNCHANGED <<box, left, memory, uploads, sends, posted, home, dropped,
                 strayed, reshown, spent>>

\* The hooks refuse the message: it stays in the box, its draft is gone.
Refused(s) ==
  /\ s \in sends /\ s.stage = "message hooks"
  /\ Ended(s, stored)
  /\ Over(s, box.text, {})
  /\ Strays(s)
  /\ excused' = excused \cup s.words \cup s.files
  /\ UNCHANGED <<left, uploads, posted, home, dropped, spent, creating>>

\* The command hooks or the server refuse the command: it is back in the box.
CommandFailed(s) ==
  /\ s \in sends /\ s.stage \in {"command hooks", "command"}
  /\ Ended(s, stored)
  /\ Over(s, s.words, {})
  /\ Strays(s)
  /\ excused' = excused \cup s.words \cup (IF s.object = box.object THEN box.text ELSE {})
  /\ UNCHANGED <<left, uploads, posted, home, dropped, spent, creating>>

\* The command is executed, or swallowed by a hook.
CommandDone(s) ==
  /\ s \in sends /\ s.stage \in {"command hooks", "command"}
  /\ posted' = Append(posted, [to |-> s.from, words |-> s.words, files |-> {}])
  /\ Ended(s, stored)
  /\ Over(s, box.text, {})
  /\ UNCHANGED <<left, uploads, home, dropped, excused, strayed, spent, creating>>

----------------------------------------------------------------------------
ComposerInit ==
  /\ \E c \in Channels : box = [object |-> 1, channel |-> c, text |-> {}, submitting |-> FALSE]
  /\ left = [o \in 1..Mounts |-> [channel |-> box.channel, files |-> {}]]
  /\ stored = [c \in Channels |-> NoDraft]
  /\ memory = [o \in 1..Mounts |-> stored]
  /\ uploads = {} /\ sends = {} /\ posted = <<>>
  /\ creating \in [waits : BOOLEAN, posts : {{}}]
  /\ home = [t \in Words \cup Files |-> "nowhere"]
  /\ dropped = {} /\ excused = {} /\ strayed = {} /\ reshown = {}
  /\ spent = [sends |-> 0, switches |-> 0]

ComposerNext ==
  \/ \E w \in Words : Type(w) \/ Insert(w, box.text) \/ Insert(w, {})
  \/ \E c \in Channels : SwitchChannel(c)
  \/ Remount
  \/ \E f \in Files : UploadStart(f) \/ RemovePreview(f)
  \/ \E u \in uploads : UploadComplete(u) \/ UploadError(u)
  \/ SubmitMessage \/ SubmitCommand \/ SubmitReaction \/ OpenDialog
  \/ \E s \in sends : \/ CommandAllowed(s) \/ CommandAsMessage(s)
                      \/ CommandDone(s) \/ CommandFailed(s)
                      \/ Sent(s) \/ Refused(s)
  \/ \E i \in creating.posts : PostCreated(i)

ComposerSpec == ComposerInit /\ [][ComposerNext]_composerVars

----------------------------------------------------------------------------
(* Properties.                                                             *)

Entered == {t \in Words \cup Files : home[t] # "nowhere"}

Kept(t) ==
  \/ home[t] = box.channel /\ t \in box.text
  \/ t \in Tokens(stored[home[t]])
  \/ \E u \in uploads : u.file = t
  \/ \E s \in sends : t \in s.words \cup s.files
  \/ \E p \in ToSet(posted) : t \in p.words \cup p.files

\* What the user has entered is never lost, whatever the order in which
\* uploads and submissions end and channels are switched: it is on the
\* screen, in the draft of its channel, on its way, or posted. Excused is
\* what was entered while a call or an old object's upload of its channel was
\* under way, was refused, or was on the screen when a call of another
\* channel ended; what was in the draft of a channel when the server answered
\* an earlier post of it; a file that comes while another object uploads to
\* its channel; the files of a command; and what no handler saves.
NothingLost == \A t \in Entered : Kept(t) \/ t \in dropped \cup excused

\* A word or a file is posted once, unless the channel was switched or the
\* object replaced while it was being sent (the draft is cleared only at the
\* end, so it is shown again), or an old object's upload brought it back.
PostedOnce ==
  \A i, j \in 1..Len(posted) :
     i # j => (posted[i].words \cup posted[i].files)
              \cap (posted[j].words \cup posted[j].files) \subseteq reshown

\* A post goes to the channel it was written for. The exception is a call
\* that ends in another channel than it began in.
RightChannel ==
  \A p \in ToSet(posted) : \A t \in p.words \cup p.files : home[t] = p.to \/ t \in strayed
=============================================================================
