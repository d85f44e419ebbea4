------------------------- MODULE PostComposer_proofs -------------------------
(***************************************************************************)
(* Proof that the box of a post loses nothing, posts nothing twice and     *)
(* posts everything in its channel, but for the named exceptions, for      *)
(* every number of channels, words, files, objects and calls.              *)
(*                                                                         *)
(* What is not accounted for (dropped, excused, being sent, posted) is     *)
(* under upload or in the stored draft of its channel (EnteredSaved). The  *)
(* box shows that draft (TextSaved), an upload that ends replaces it by    *)
(* one that has as much (UploadsAgree, UploadsMarked), and a call that     *)
(* ends clears only what it sent (CallsHoldAll). What is posted is in no   *)
(* draft, box or call that can still post it (OncePosted, OnceSent).       *)
(***************************************************************************)
EXTENDS PostComposer, TLAPS

EnteredWords == {w \in Words : home[w] # "nowhere"}
EnteredFiles == {f \in Files : home[f] # "nowhere"}

Drafts == [words : SUBSET EnteredWords, files : SUBSET EnteredFiles, up : SUBSET EnteredFiles]
          \cup {NoDraft}

Stages == {"message hooks", "command hooks", "command"}

Calls == [object : 1..box.object, from : Channels, stage : Stages,
          kind : {"message", "command"}, to : Channels,
          words : SUBSET EnteredWords, files : SUBSET EnteredFiles]

Boxes    == [object : 1..Mounts, channel : Channels, text : SUBSET EnteredWords, submitting : BOOLEAN]
Uploads  == [file : EnteredFiles, channel : Channels, object : 1..box.object]
Leavings == [channel : Channels, files : SUBSET EnteredFiles]
PostedRecords == [to : Channels, words : SUBSET EnteredWords, files : SUBSET EnteredFiles]

ComposerTypes ==
  /\ box \in Boxes
  /\ left \in [1..Mounts -> Leavings]
  /\ stored \in [Channels -> Drafts]
  /\ memory \in [1..Mounts -> [Channels -> Drafts]]
  /\ uploads \subseteq Uploads
  /\ sends \subseteq Calls
  /\ posted \in Seq(PostedRecords)
  /\ home \in [Words \cup Files -> Channels \cup {"nowhere"}]

\* What a call is, by its kind and stage.
CallsMeanIt ==
  \A s \in sends : /\ s.stage # "message hooks" => s.kind = "command" /\ s.files = {}
                   /\ s.kind = "message" => s.to = s.from
                   /\ s.stage # "message hooks" => s.to = s.from

\* An object that is not mounted yet remembers nothing.
FreshMemory == \A o \in 1..Mounts : o > box.object => memory[o] = [c \in Channels |-> NoDraft]

At(tokens, c) == \A t \in tokens : home[t] = c \/ t \in strayed \cap reshown

Located ==
  /\ At(box.text, box.channel)
  /\ \A c \in Channels : At(Tokens(stored[c]), c)
  /\ \A o \in 1..Mounts, c \in Channels : At(Tokens(memory[o][c]), c)
  /\ \A o \in 1..Mounts : At(left[o].files, left[o].channel)
  /\ \A u \in uploads : home[u.file] = u.channel
  /\ \A s \in sends : At(s.words, s.from) /\ At(s.files, s.to)

PostTokens == {t \in Words \cup Files : \E p \in ToSet(posted) : t \in p.words \cup p.files}
SendTokens == {t \in Words \cup Files : \E s \in sends : t \in s.words \cup s.files}

FilesOf(d) == IF d = NoDraft THEN {} ELSE d.files

\* The files that something holds, other than their upload.
FilesHeld ==
  {f \in Files :
     \/ f \in SendTokens \cup PostTokens
     \/ \E c \in Channels : f \in FilesOf(stored[c])
     \/ \E o \in 1..Mounts, c \in Channels : f \in FilesOf(memory[o][c])
     \/ \E o \in 1..Mounts : f \in left[o].files}

NoSecondCopy ==
  /\ \A u, v \in uploads : u.file = v.file => u = v
  /\ \A u \in uploads : u.file \notin FilesHeld

\* What the box, the calls and the drafts that it can reach hold.
Around ==
  {t \in Words \cup Files :
     \/ t \in box.text \cup SendTokens
     \/ \E c \in Channels : t \in Tokens(stored[c]) \cup Tokens(memory[box.object][c])}

OnceSent ==
  \A s \in sends : \A t \in (s.words \cup s.files) \ reshown :
     /\ s.object = box.object /\ s.from = box.channel /\ s.to = s.from
     /\ t \in s.words /\ t \in box.text => box.submitting /\ s.kind = "message"

OncePosted == PostTokens \cap Around \subseteq reshown

\* What is not only in the box, a draft or an upload.
Accounted == dropped \cup excused \cup SendTokens \cup PostTokens

Content(d) == IF d = NoDraft THEN {} ELSE d.words \cup d.files
Up(d) == IF d = NoDraft THEN {} ELSE d.up

\* The draft of the channel has what the box shows.
TextSaved == box.text \ Accounted = (Content(stored[box.channel]) \cap Words) \ Accounted

\* The object of an upload remembers the draft that the store has.
UploadsAgree ==
  \A u \in uploads : Content(memory[u.object][u.channel]) \ Accounted
                     = Content(stored[u.channel]) \ Accounted

EnteredSaved ==
  \A t \in Entered \ Accounted : (\E u \in uploads : u.file = t) \/ t \in Content(stored[home[t]])

\* The draft that a call will clear has nothing that is only there.
CallsHoldAll == \A s \in sends : Content(stored[s.from]) \subseteq Accounted

\* A file under way is in the draft that its upload will save, and no call
\* clears that draft before.
UploadsMarked ==
  \A u \in uploads : u.file \notin Accounted =>
     /\ u.file \in Up(memory[u.object][u.channel])
     /\ u.object = box.object => u.file \in Up(stored[u.channel])
     /\ \A s \in sends : u.channel = s.from => u.object < s.object
     /\ \A v \in uploads : u.channel = v.channel => u.object <= v.object

Saved == TextSaved /\ UploadsAgree /\ EnteredSaved /\ CallsHoldAll /\ UploadsMarked

ComposerInv ==
  /\ ComposerTypes /\ CallsMeanIt /\ FreshMemory /\ Located /\ NoSecondCopy
  /\ OnceSent /\ OncePosted /\ Saved
  /\ PostedOnce /\ RightChannel

----------------------------------------------------------------------------
(* Types.                                                                  *)

\* What has been entered stays entered, so the types only grow.
HomeGrows ==
  /\ home' \in [Words \cup Files -> Channels \cup {"nowhere"}]
  /\ \A t \in Words \cup Files : home[t] # "nowhere" => home'[t] = home[t]

LEMMA TypesGrow ==
  ASSUME ComposerTypes, HomeGrows
  PROVE  /\ EnteredWords \subseteq EnteredWords' /\ EnteredFiles \subseteq EnteredFiles'
         /\ Drafts \subseteq Drafts' /\ Leavings \subseteq Leavings' /\ Boxes \subseteq Boxes'
         /\ PostedRecords \subseteq PostedRecords'
         /\ [Channels -> Drafts] \subseteq [Channels -> Drafts']
<1>1. EnteredWords \subseteq EnteredWords' /\ EnteredFiles \subseteq EnteredFiles'
  BY DEF EnteredWords, EnteredFiles, HomeGrows
<1>2. Drafts \subseteq Drafts'
  BY <1>1 DEF Drafts
<1> QED
  BY <1>1, <1>2 DEF Leavings, PostedRecords, Boxes

LEMMA TypesStep ==
  ASSUME ComposerTypes, HomeGrows,
         box' \in Boxes', box.object <= box'.object,
         left' = left \/ left' \in [1..Mounts -> Leavings'],
         stored' = stored \/ stored' \in [Channels -> Drafts'],
         memory' = memory \/ memory' \in [1..Mounts -> [Channels -> Drafts']],
         \A u \in uploads' : u \in uploads \/ u \in Uploads',
         \A s \in sends' : s \in sends \/ s \in Calls',
         posted' = posted \/ \E p \in PostedRecords' : posted' = Append(posted, p)
  PROVE  ComposerTypes'
<1>1. 1..box.object \subseteq 1..box'.object
  BY DEF ComposerTypes, Boxes
<1>2. Calls \subseteq Calls' /\ Uploads \subseteq Uploads'
  BY <1>1, TypesGrow DEF Calls, Uploads
<1>3. Seq(PostedRecords) \subseteq Seq(PostedRecords')
  BY TypesGrow
<1>4. posted' \in Seq(PostedRecords')
  BY <1>3 DEF ComposerTypes
<1>5. left' \in [1..Mounts -> Leavings']
  BY TypesGrow DEF ComposerTypes
<1>6. stored' \in [Channels -> Drafts'] /\ memory' \in [1..Mounts -> [Channels -> Drafts']]
  BY TypesGrow DEF ComposerTypes
<1> QED
  BY <1>2, <1>4, <1>5, <1>6 DEF ComposerTypes, HomeGrows

LEMMA BoxTypes ==
  ASSUME ComposerTypes
  PROVE  /\ box.channel \in Channels /\ box.object \in 1..Mounts /\ box.text \subseteq EnteredWords
         /\ \A c \in Channels : /\ DraftIn(stored, c) \in Drafts \ {NoDraft}
                                /\ DraftIn(stored, c).words \subseteq EnteredWords
                                /\ DraftIn(stored, c).files \subseteq EnteredFiles
                                /\ DraftIn(stored, c).up \subseteq EnteredFiles
BY ComposerAssumption DEF ComposerTypes, Boxes, Drafts, DraftIn, EmptyDraft, NoDraft, EnteredWords

\* A new draft has its type wherever it is saved.
LEMMA SaveTypes ==
  ASSUME ComposerTypes, HomeGrows, NEW o \in 1..Mounts, NEW c \in Channels, NEW draft \in Drafts',
         SaveDraft(o, c, draft)
  PROVE  stored' \in [Channels -> Drafts'] /\ memory' \in [1..Mounts -> [Channels -> Drafts']]
<1>1. stored \in [Channels -> Drafts'] /\ memory \in [1..Mounts -> [Channels -> Drafts']]
  BY TypesGrow DEF ComposerTypes
<1> QED
  BY <1>1 DEF SaveDraft

LEMMA EntryTypes ==
  ASSUME ComposerTypes, NEW t \in Words \cup Files, home[t] = "nowhere",
         home' = [home EXCEPT ![t] = box.channel]
  PROVE  HomeGrows /\ (t \in Words => t \in EnteredWords') /\ (t \in Files => t \in EnteredFiles')
BY BoxTypes, ComposerAssumption DEF HomeGrows, ComposerTypes, EnteredWords, EnteredFiles

LEMMA SameHome ==
  ASSUME ComposerTypes, UNCHANGED home
  PROVE  /\ HomeGrows /\ Drafts' = Drafts /\ EnteredWords' = EnteredWords
         /\ EnteredFiles' = EnteredFiles /\ Boxes' = Boxes
BY DEF HomeGrows, ComposerTypes, Drafts, EnteredWords, EnteredFiles, Boxes

LEMMA WriteTypes ==
  ASSUME ComposerTypes,
         \/ \E w \in Words : Type(w) \/ Insert(w, box.text) \/ Insert(w, {})
         \/ \E c \in Channels : SwitchChannel(c)
         \/ OpenDialog
  PROVE  ComposerTypes'
<1>1. ASSUME NEW w \in Words, Type(w)
      PROVE  ComposerTypes'
  <2>1. HomeGrows /\ w \in EnteredWords'
    BY <1>1, EntryTypes DEF Type
  <2>2. [Draft EXCEPT !.words = box.text \cup {w}] \in Drafts'
    BY <2>1, TypesGrow, BoxTypes DEF Draft, Drafts
  <2>3. box' \in Boxes' /\ box'.object = box.object
    BY <1>1, <2>1, TypesGrow DEF Type, ComposerTypes, Boxes
  <2>4. stored' \in [Channels -> Drafts'] /\ memory' \in [1..Mounts -> [Channels -> Drafts']]
    BY <1>1, <2>1, <2>2, BoxTypes, SaveTypes DEF Type
  <2> QED
    BY <1>1, <2>1, <2>3, <2>4, BoxTypes, TypesStep DEF Type
<1>2. ASSUME NEW w \in Words, NEW before \in SUBSET EnteredWords, Insert(w, before)
      PROVE  ComposerTypes'
  <2>1. HomeGrows /\ w \in EnteredWords'
    BY <1>2, EntryTypes DEF Insert
  <2>2. box' \in Boxes' /\ box'.object = box.object
    BY <1>2, <2>1, TypesGrow DEF Insert, ComposerTypes, Boxes
  <2> QED
    BY <1>2, <2>1, <2>2, BoxTypes, TypesStep DEF Insert
<1>3. ASSUME NEW c \in Channels, SwitchChannel(c)
      PROVE  ComposerTypes'
  <2>1. /\ box' = [box EXCEPT !.channel = c, !.text = DraftIn(stored, c).words, !.submitting = FALSE]
        /\ UNCHANGED <<left, stored, memory, uploads, sends, posted, home>>
    BY <1>3 DEF SwitchChannel
  <2>2. box' = [object |-> box.object, channel |-> c, text |-> DraftIn(stored, c).words,
                submitting |-> FALSE]
    BY <2>1 DEF ComposerTypes, Boxes
  <2>3. DraftIn(stored, c).words \subseteq EnteredWords
    BY BoxTypes
  <2>4. box' \in Boxes /\ box'.object = box.object
    BY <2>2, <2>3, BoxTypes DEF Boxes
  <2>5. box.object <= box'.object
    BY <2>4, BoxTypes
  <2> QED
    BY <2>1, <2>4, <2>5, SameHome, TypesStep
<1>4. CASE OpenDialog
  <2>1. box' = [box EXCEPT !.text = {}] /\ UNCHANGED home
    BY <1>4 DEF OpenDialog
  <2>2. box' \in Boxes /\ box'.object = box.object
    BY <2>1 DEF ComposerTypes, Boxes
  <2> QED
    BY <1>4, <2>1, <2>2, BoxTypes, SameHome, TypesStep DEF OpenDialog
<1> QED
  BY <1>1, <1>2, <1>3, <1>4, BoxTypes

LEMMA RemountTypes ==
  ASSUME ComposerTypes, Remount
  PROVE  ComposerTypes'
<1> DEFINE cleared == [c \in Channels |-> IF stored[c] = NoDraft THEN NoDraft
                                          ELSE [stored[c] EXCEPT !.up = {}]]
<1>1. \A c \in Channels : /\ cleared[c] \in Drafts
                          /\ DraftIn(cleared, c).words \subseteq EnteredWords
  BY ComposerAssumption DEF ComposerTypes, Drafts, DraftIn, EmptyDraft, NoDraft, EnteredWords
<1>2. stored' = cleared /\ stored' \in [Channels -> Drafts]
  BY <1>1 DEF Remount
<1>3. box' \in Boxes /\ box'.object = box.object + 1
  <2>1. /\ box' = [object |-> box.object + 1, channel |-> box.channel,
                   text |-> DraftIn(cleared, box.channel).words, submitting |-> FALSE]
        /\ box.object < Mounts
    BY DEF Remount
  <2> HIDE DEF cleared
  <2>2. box.object + 1 \in 1..Mounts
    BY <2>1, BoxTypes, ComposerAssumption
  <2> QED
    BY <1>1, <2>1, <2>2, BoxTypes DEF Boxes
<1>4. left' \in [1..Mounts -> Leavings]
  BY BoxTypes DEF Remount, ComposerTypes, Leavings, Draft
<1>5. /\ HomeGrows /\ Drafts' = Drafts /\ Boxes' = Boxes /\ Leavings' = Leavings
      /\ UNCHANGED <<memory, uploads, sends, posted>>
  BY SameHome DEF Remount, Leavings
<1>6. box.object <= box'.object
  BY <1>3, BoxTypes
<1> QED
  BY <1>2, <1>3, <1>4, <1>5, <1>6, TypesStep

LEMMA FileTypes ==
  ASSUME ComposerTypes,
         \/ \E f \in Files : UploadStart(f) \/ RemovePreview(f)
         \/ \E u \in uploads : UploadComplete(u) \/ UploadError(u)
  PROVE  ComposerTypes'
<1>1. ASSUME NEW f \in Files, UploadStart(f)
      PROVE  ComposerTypes'
  <2>1. HomeGrows /\ f \in EnteredFiles'
    BY <1>1, EntryTypes DEF UploadStart
  <2>2. [Draft EXCEPT !.up = @ \cup {f}] \in Drafts'
    BY <2>1, TypesGrow, BoxTypes DEF Draft, Drafts
  <2>3. [file |-> f, channel |-> box.channel, object |-> box.object] \in Uploads'
    BY <1>1, <2>1, BoxTypes DEF UploadStart, Uploads
  <2>4. stored' \in [Channels -> Drafts'] /\ memory' \in [1..Mounts -> [Channels -> Drafts']]
    BY <1>1, <2>1, <2>2, BoxTypes, SaveTypes DEF UploadStart
  <2>5. box' \in Boxes' /\ box.object <= box'.object
    BY <1>1, <2>1, BoxTypes, TypesGrow DEF UploadStart, ComposerTypes
  <2> QED
    BY <1>1, <2>1, <2>3, <2>4, <2>5, TypesStep DEF UploadStart
<1>2. ASSUME NEW f \in Files, RemovePreview(f)
      PROVE  ComposerTypes'
  <2>1. /\ [Draft EXCEPT !.files = @ \ {f}] \in Drafts
        /\ [Draft EXCEPT !.up = @ \ {f}] \in Drafts
    BY BoxTypes DEF Draft, Drafts
  <2>2. stored' \in [Channels -> Drafts'] /\ memory' \in [1..Mounts -> [Channels -> Drafts']]
    BY <1>2, <2>1, SameHome, BoxTypes, SaveTypes DEF RemovePreview
  <2>3. \A u \in uploads' : u \in uploads
    BY <1>2 DEF RemovePreview
  <2>4. box' \in Boxes' /\ box.object <= box'.object
    BY <1>2, BoxTypes, SameHome DEF RemovePreview, ComposerTypes
  <2> QED
    BY <1>2, <2>2, <2>3, <2>4, SameHome, TypesStep DEF RemovePreview
<1>3. ASSUME NEW u \in uploads
      PROVE  /\ u.object \in 1..Mounts /\ u.channel \in Channels /\ u.file \in EnteredFiles
             /\ memory[u.object][u.channel] \in Drafts
  <2>1. 1..box.object \subseteq 1..Mounts
    BY BoxTypes, ComposerAssumption
  <2>2. u.object \in 1..Mounts /\ u.channel \in Channels /\ u.file \in EnteredFiles
    BY <2>1 DEF ComposerTypes, Uploads
  <2> QED
    BY <2>2 DEF ComposerTypes
<1>4. ASSUME NEW u \in uploads, UploadComplete(u)
      PROVE  ComposerTypes'
  <2>1. Uploaded(u) \in Drafts
    BY <1>3 DEF Uploaded, Drafts
  <2>2. stored' \in [Channels -> Drafts'] /\ memory' \in [1..Mounts -> [Channels -> Drafts']]
    BY <1>3, <1>4, <2>1, SameHome, SaveTypes DEF UploadComplete
  <2>3. box' \in Boxes' /\ box.object <= box'.object
    BY <1>4, BoxTypes, SameHome DEF UploadComplete, ComposerTypes
  <2> QED
    BY <1>4, <2>2, <2>3, SameHome, TypesStep DEF UploadComplete
<1>5. ASSUME NEW u \in uploads, UploadError(u)
      PROVE  ComposerTypes'
  <2> DEFINE d == memory[u.object][u.channel]
  <2>1. d # NoDraft => [d EXCEPT !.up = @ \ {u.file}] \in Drafts
    BY <1>3 DEF Drafts
  <2>2. \/ UNCHANGED <<stored, memory>>
        \/ stored' \in [Channels -> Drafts'] /\ memory' \in [1..Mounts -> [Channels -> Drafts']]
    BY <1>3, <1>5, <2>1, SameHome, SaveTypes DEF UploadError
  <2>3. box' \in Boxes' /\ box.object <= box'.object
    BY <1>5, BoxTypes, SameHome DEF UploadError, ComposerTypes
  <2> QED
    BY <1>5, <2>2, <2>3, SameHome, TypesStep DEF UploadError
<1> QED
  BY <1>1, <1>2, <1>4, <1>5

LEMMA CallTypes ==
  ASSUME ComposerTypes, NEW stage \in Stages, NEW kind \in {"message", "command"}
  PROVE  /\ Call(stage, kind) \in Calls
         /\ [Call(stage, kind) EXCEPT !.files = {}] \in Calls
<1>1. Draft.files \subseteq EnteredFiles
  BY BoxTypes DEF Draft
<1>2. box.object \in 1..box.object
  BY BoxTypes
<1> QED
  BY <1>1, <1>2, BoxTypes DEF Call, Calls

LEMMA SubmitTypes ==
  ASSUME ComposerTypes, SubmitMessage \/ SubmitCommand \/ SubmitReaction
  PROVE  ComposerTypes'
<1>1. UNCHANGED home /\ box.object <= box.object
  <2>1. UNCHANGED home
    BY DEF SubmitMessage, SubmitCommand, SubmitReaction
  <2> QED
    BY <2>1, BoxTypes
<1>2. CASE SubmitMessage
  <2>1. /\ box' = [box EXCEPT !.submitting = TRUE]
        /\ \A s \in sends' : s \in sends \/ s = Call("message hooks", "message")
        /\ UNCHANGED <<left, stored, memory, uploads, posted>>
    BY <1>2 DEF SubmitMessage
  <2>2. box' \in Boxes /\ box'.object = box.object
    BY <2>1 DEF ComposerTypes, Boxes
  <2>3. Call("message hooks", "message") \in Calls'
    BY <1>1, <2>2, CallTypes, SameHome DEF Stages, Calls
  <2> QED
    BY <1>1, <2>1, <2>2, <2>3, SameHome, TypesStep
<1>3. CASE SubmitCommand
  <2> DEFINE call == [Call("command hooks", "command") EXCEPT !.files = {}]
  <2>1. /\ box' = [box EXCEPT !.submitting = TRUE, !.text = {}]
        /\ \A s \in sends' : s \in sends \/ s = call
        /\ UNCHANGED <<left, stored, memory, uploads, posted>>
    BY <1>3 DEF SubmitCommand
  <2>2. box' \in Boxes /\ box'.object = box.object
    BY <2>1 DEF ComposerTypes, Boxes
  <2>3. call \in Calls'
    BY <1>1, <2>2, CallTypes, SameHome DEF Stages, Calls
  <2> HIDE DEF call
  <2> QED
    BY <1>1, <2>1, <2>2, <2>3, SameHome, TypesStep
<1>4. CASE SubmitReaction
  <2> DEFINE p == [to |-> box.channel, words |-> box.text, files |-> {}]
  <2>1. /\ box' = [box EXCEPT !.text = {}] /\ posted' = Append(posted, p)
        /\ SaveDraft(box.object, box.channel, NoDraft)
        /\ UNCHANGED <<left, uploads, sends>>
    BY <1>4 DEF SubmitReaction
  <2>2. box' \in Boxes /\ box'.object = box.object
    BY <2>1 DEF ComposerTypes, Boxes
  <2>3. p \in PostedRecords'
    BY <1>1, BoxTypes, SameHome DEF PostedRecords
  <2>4. NoDraft \in Drafts'
    BY DEF Drafts
  <2>5. stored' \in [Channels -> Drafts'] /\ memory' \in [1..Mounts -> [Channels -> Drafts']]
    BY <1>1, <2>1, <2>4, BoxTypes, SameHome, SaveTypes
  <2> HIDE DEF p
  <2> QED
    BY <1>1, <2>1, <2>2, <2>3, <2>5, SameHome, TypesStep
<1> QED
  BY <1>2, <1>3, <1>4

LEMMA CallOf ==
  ASSUME ComposerTypes, NEW s \in sends
  PROVE  s \in Calls /\ s.object \in 1..Mounts /\ s.from \in Channels /\ s.to \in Channels
         /\ s.words \subseteq EnteredWords /\ s.files \subseteq EnteredFiles
         /\ s.object \in 1..box.object /\ s.stage \in Stages /\ s.kind \in {"message", "command"}
<1>1. 1..box.object \subseteq 1..Mounts
  BY BoxTypes, ComposerAssumption
<1> QED
  BY <1>1 DEF ComposerTypes, Calls

LEMMA EndTypes ==
  ASSUME ComposerTypes, UNCHANGED <<home, left, uploads>>, NEW s \in sends,
         NEW drafts \in [Channels -> Drafts], Ended(s, drafts),
         NEW text \in SUBSET EnteredWords, NEW again, Over(s, text, again),
         posted' = posted \/ \E p \in PostedRecords : posted' = Append(posted, p)
  PROVE  ComposerTypes'
<1>1. NoDraft \in Drafts
  BY DEF Drafts
<1>2. stored' \in [Channels -> Drafts] /\ memory' \in [1..Mounts -> [Channels -> Drafts]]
  BY <1>1, CallOf DEF Ended, ComposerTypes
<1>3. box' \in Boxes /\ box'.object = box.object
  <2>1. box' = box \/ box' = [box EXCEPT !.text = text, !.submitting = FALSE]
    BY DEF Over
  <2>2. CASE box' = [box EXCEPT !.text = text, !.submitting = FALSE]
    BY <2>2 DEF ComposerTypes, Boxes
  <2> QED
    BY <2>1, <2>2 DEF ComposerTypes
<1>4. \A o \in sends' : o \in sends
  BY DEF Over
<1>5. PostedRecords' = PostedRecords
  BY SameHome DEF PostedRecords
<1>6. box.object <= box'.object
  BY <1>3, BoxTypes
<1> QED
  BY <1>2, <1>3, <1>4, <1>5, <1>6, SameHome, TypesStep

LEMMA CallStepTypes ==
  ASSUME ComposerTypes, NEW s \in sends,
         \/ CommandAllowed(s) \/ CommandAsMessage(s) \/ CommandDone(s) \/ CommandFailed(s)
         \/ Sent(s) \/ Refused(s)
  PROVE  ComposerTypes'
<1>1. /\ NoDraft \in Drafts /\ stored \in [Channels -> Drafts]
      /\ box.text \subseteq EnteredWords /\ s.words \subseteq EnteredWords /\ {} \subseteq EnteredWords
  BY BoxTypes, CallOf DEF ComposerTypes, Drafts
<1>2. CASE CommandAllowed(s)
  <2> DEFINE call == [s EXCEPT !.stage = "command"]
  <2>1. /\ \A o \in sends' : o \in sends \/ o = call
        /\ UNCHANGED <<box, left, stored, memory, uploads, posted, home>>
    BY <1>2 DEF CommandAllowed
  <2>2. call \in Calls'
    BY <2>1, CallOf, SameHome DEF Calls, Stages
  <2>3. box' \in Boxes' /\ box.object <= box'.object
    BY <2>1, BoxTypes, SameHome DEF ComposerTypes
  <2> HIDE DEF call
  <2> QED
    BY <2>1, <2>2, <2>3, SameHome, TypesStep
<1>3. CASE CommandAsMessage(s)
  <2> DEFINE props == IF s.object = box.object THEN [channel |-> box.channel, files |-> Draft.files]
                      ELSE left[s.object]
             call == [s EXCEPT !.stage = "message hooks", !.to = props.channel, !.files = props.files]
  <2>1. /\ \A o \in sends' : o \in sends \/ o = call
        /\ UNCHANGED <<box, left, stored, memory, uploads, posted, home>>
    BY <1>3 DEF CommandAsMessage
  <2>2. props.channel \in Channels /\ props.files \subseteq EnteredFiles
    BY CallOf, BoxTypes DEF ComposerTypes, Leavings, Draft
  <2> HIDE DEF props
  <2>3. call \in Calls'
    BY <2>1, <2>2, CallOf, SameHome DEF Calls, Stages
  <2>4. box' \in Boxes' /\ box.object <= box'.object
    BY <2>1, BoxTypes, SameHome DEF ComposerTypes
  <2> HIDE DEF call
  <2> QED
    BY <2>1, <2>3, <2>4, SameHome, TypesStep
<1>4. CASE CommandDone(s)
  <2>1. [to |-> s.from, words |-> s.words, files |-> {}] \in PostedRecords
    BY CallOf DEF PostedRecords
  <2> QED
    BY <1>1, <1>4, <2>1, EndTypes DEF CommandDone
<1>5. CASE CommandFailed(s)
  BY <1>1, <1>5, EndTypes DEF CommandFailed
<1>6. CASE Sent(s)
  <2>1. [to |-> s.to, words |-> s.words, files |-> s.files] \in PostedRecords
    BY CallOf DEF PostedRecords
  <2>2. PICK drafts \in {stored, [stored EXCEPT ![s.to] = NoDraft]} : Ended(s, drafts)
    BY <1>6 DEF Sent
  <2>3. drafts \in [Channels -> Drafts]
    BY <1>1
  <2>4. PICK text \in SUBSET EnteredWords : \E again : Over(s, text, again)
    BY <1>1, <1>6 DEF Sent
  <2>5. UNCHANGED <<home, left, uploads>>
        /\ posted' = Append(posted, [to |-> s.to, words |-> s.words, files |-> s.files])
    BY <1>6 DEF Sent
  <2> QED
    BY <2>1, <2>2, <2>3, <2>4, <2>5, EndTypes
<1>7. CASE Refused(s)
  BY <1>1, <1>7, EndTypes DEF Refused
<1> QED
  BY <1>2, <1>3, <1>4, <1>5, <1>6, <1>7

\* An answer of the server clears a draft, and does nothing else.
LEMMA CreatedEffect ==
  ASSUME ComposerTypes, NEW i, PostCreated(i)
  PROVE  /\ stored' \in [Channels -> Drafts]
         /\ \A c \in Channels : \/ stored'[c] = stored[c]
                                \/ stored'[c] = NoDraft /\ Tokens(stored[c]) \subseteq excused'
         /\ \A c \in Channels : stored'[c] = stored[c] \/ stored'[c] = NoDraft
         /\ excused \subseteq excused'
         /\ UNCHANGED <<box, left, memory, uploads, sends, posted, home, dropped, strayed, reshown>>
<1> DEFINE cleared == posted[i].to
<1>1. stored' = [stored EXCEPT ![cleared] = NoDraft] /\ excused' = excused \cup Tokens(stored[cleared])
  BY DEF PostCreated
<1>2. NoDraft \in Drafts
  BY DEF Drafts
<1> HIDE DEF cleared
<1> QED
  BY <1>1, <1>2 DEF PostCreated, ComposerTypes

LEMMA CreatedTypes ==
  ASSUME ComposerTypes, NEW i, PostCreated(i)
  PROVE  ComposerTypes'
BY CreatedEffect, SameHome DEF ComposerTypes, Leavings, Uploads, Calls, PostedRecords

LEMMA NextTypes ==
  ASSUME ComposerTypes, [ComposerNext]_composerVars
  PROVE  ComposerTypes'
<1>1. CASE UNCHANGED composerVars
  BY <1>1 DEF composerVars, ComposerTypes, Boxes, Leavings, Drafts, Uploads, Calls, PostedRecords,
              EnteredWords, EnteredFiles
<1> QED
  BY <1>1, WriteTypes, RemountTypes, FileTypes, SubmitTypes, CallStepTypes, CreatedTypes
  DEF ComposerNext

----------------------------------------------------------------------------
(* What only grows, and what the calls and the objects to come are.        *)

LEMMA HistoryGrows ==
  ASSUME ComposerTypes, ComposerNext
  PROVE  /\ HomeGrows
         /\ dropped \subseteq dropped' /\ excused \subseteq excused'
         /\ strayed \subseteq strayed' /\ reshown \subseteq reshown'
<1>1. ASSUME NEW t \in Words \cup Files, home[t] = "nowhere",
             home' = [home EXCEPT ![t] = box.channel]
      PROVE  HomeGrows
  BY <1>1, EntryTypes
<1>2. UNCHANGED home => HomeGrows
  BY SameHome
<1>3. ASSUME NEW w \in Words, Type(w) \/ Insert(w, box.text) \/ Insert(w, {})
      PROVE  /\ HomeGrows
             /\ dropped \subseteq dropped' /\ excused \subseteq excused'
             /\ strayed \subseteq strayed' /\ reshown \subseteq reshown'
  <2>1. /\ home[w] = "nowhere" /\ home' = [home EXCEPT ![w] = box.channel]
        /\ excused \subseteq excused' /\ UNCHANGED <<dropped, strayed, reshown>>
    BY <1>3 DEF Type, Insert
  <2> QED
    BY <1>1, <2>1
<1>4. ASSUME NEW f \in Files, UploadStart(f) \/ RemovePreview(f)
      PROVE  /\ HomeGrows
             /\ dropped \subseteq dropped' /\ excused \subseteq excused'
             /\ strayed \subseteq strayed' /\ reshown \subseteq reshown'
  <2>1. /\ \/ home[f] = "nowhere" /\ home' = [home EXCEPT ![f] = box.channel]
           \/ UNCHANGED home
        /\ dropped \subseteq dropped' /\ excused \subseteq excused' /\ UNCHANGED <<strayed, reshown>>
    BY <1>4 DEF UploadStart, RemovePreview
  <2> QED
    BY <1>1, <1>2, <2>1
<1>5. ASSUME NEW u \in uploads, UploadComplete(u) \/ UploadError(u)
      PROVE  /\ UNCHANGED home
             /\ dropped \subseteq dropped' /\ excused \subseteq excused'
             /\ strayed \subseteq strayed' /\ reshown \subseteq reshown'
  BY <1>5 DEF UploadComplete, UploadError
<1>6. ASSUME \/ \E c \in Channels : SwitchChannel(c)
             \/ Remount \/ SubmitMessage \/ SubmitCommand \/ SubmitReaction \/ OpenDialog
      PROVE  /\ UNCHANGED home
             /\ dropped \subseteq dropped' /\ excused \subseteq excused'
             /\ strayed \subseteq strayed' /\ reshown \subseteq reshown'
  BY <1>6 DEF SwitchChannel, Remount, SubmitMessage, SubmitCommand, SubmitReaction, OpenDialog
<1>7. ASSUME NEW s \in sends, \/ CommandAllowed(s) \/ CommandAsMessage(s) \/ CommandDone(s)
                              \/ CommandFailed(s) \/ Sent(s) \/ Refused(s)
      PROVE  /\ UNCHANGED home
             /\ dropped \subseteq dropped' /\ excused \subseteq excused'
             /\ strayed \subseteq strayed' /\ reshown \subseteq reshown'
  BY <1>7 DEF CommandAllowed, CommandAsMessage, CommandDone, CommandFailed, Sent, Refused, Over, Strays
<1> QED
  BY <1>2, <1>3, <1>4, <1>5, <1>6, <1>7, CreatedEffect DEF ComposerNext

LEMMA NextCalls ==
  ASSUME ComposerTypes, CallsMeanIt, ComposerNext
  PROVE  CallsMeanIt'
<1>1. CASE \E s \in sends : \/ CommandAllowed(s) \/ CommandAsMessage(s) \/ CommandDone(s)
                            \/ CommandFailed(s) \/ Sent(s) \/ Refused(s)
  <2>1. PICK s \in sends : \/ CommandAllowed(s) \/ CommandAsMessage(s) \/ CommandDone(s)
                           \/ CommandFailed(s) \/ Sent(s) \/ Refused(s)
    BY <1>1
  <2>2. CASE CommandDone(s) \/ CommandFailed(s) \/ Sent(s) \/ Refused(s)
    <3>1. sends' = sends \ {s}
      BY <2>2 DEF CommandDone, CommandFailed, Sent, Refused, Over
    <3> QED
      BY <3>1 DEF CallsMeanIt
  <2>3. CASE CommandAllowed(s)
    <3>1. /\ s.stage # "message hooks"
          /\ \A o \in sends' : o \in sends \/ o = [s EXCEPT !.stage = "command"]
      BY <2>3 DEF CommandAllowed
    <3> QED
      BY <3>1, CallOf DEF CallsMeanIt, Calls
  <2>4. CASE CommandAsMessage(s)
    <3>1. /\ s.stage = "command"
          /\ \E c, files : \A o \in sends' :
               o \in sends \/ o = [s EXCEPT !.stage = "message hooks", !.to = c, !.files = files]
      BY <2>4 DEF CommandAsMessage
    <3> QED
      BY <3>1, CallOf DEF CallsMeanIt, Calls
  <2> QED
    BY <2>1, <2>2, <2>3, <2>4
<1>2. CASE SubmitMessage \/ SubmitCommand
  <2>1. \A o \in sends' : \/ o \in sends \/ o = Call("message hooks", "message")
                          \/ o = [Call("command hooks", "command") EXCEPT !.files = {}]
    BY <1>2 DEF SubmitMessage, SubmitCommand
  <2> DEFINE m == Call("message hooks", "message")
             k == [Call("command hooks", "command") EXCEPT !.files = {}]
  <2>2. m.stage = "message hooks" /\ m.kind = "message" /\ m.to = m.from
    BY DEF Call
  <2>3. k.stage = "command hooks" /\ k.kind = "command" /\ k.files = {} /\ k.to = k.from
    BY DEF Call
  <2>4. \A o \in sends' : o \in sends \/ o = m \/ o = k
    BY <2>1
  <2> HIDE DEF m, k
  <2> QED
    BY <2>2, <2>3, <2>4 DEF CallsMeanIt
<1>3. CASE UNCHANGED sends
  BY <1>3 DEF CallsMeanIt
<1> QED
  BY <1>1, <1>2, <1>3, CreatedEffect DEF ComposerNext, Type, Insert, SwitchChannel, Remount,
     UploadStart, RemovePreview, UploadComplete, UploadError, SubmitReaction, OpenDialog

LEMMA NextFresh ==
  ASSUME ComposerTypes, FreshMemory, ComposerNext
  PROVE  FreshMemory'
<1>1. /\ box.object \in Nat
      /\ \A u \in uploads : u.object \in Nat /\ u.object <= box.object
      /\ \A s \in sends : s.object \in Nat /\ s.object <= box.object
  <2>1. box.object \in Nat
    BY BoxTypes
  <2>2. uploads \subseteq Uploads /\ sends \subseteq Calls
    BY DEF ComposerTypes
  <2> QED
    BY <2>1, <2>2 DEF Uploads, Calls
<1>2. ASSUME box'.object \in {box.object, box.object + 1},
             \A o \in 1..Mounts : o > box.object => memory'[o] = memory[o]
      PROVE  FreshMemory'
  BY <1>1, <1>2 DEF FreshMemory
<1>3. ASSUME NEW o, NEW c, NEW draft, SaveDraft(o, c, draft), o <= box.object, o \in Nat
      PROVE  \A m \in 1..Mounts : m > box.object => memory'[m] = memory[m]
  BY <1>1, <1>3 DEF SaveDraft, ComposerTypes
<1>4. CASE \E s \in sends : CommandDone(s) \/ CommandFailed(s) \/ Sent(s) \/ Refused(s)
  <2>1. PICK s \in sends : CommandDone(s) \/ CommandFailed(s) \/ Sent(s) \/ Refused(s)
    BY <1>4
  <2>2. /\ memory' = [memory EXCEPT ![s.object][s.from] = NoDraft]
        /\ box' = box \/ \E text : box' = [box EXCEPT !.text = text, !.submitting = FALSE]
    BY <2>1 DEF CommandDone, CommandFailed, Sent, Refused, Ended, Over
  <2>3. box'.object = box.object
    BY <2>2 DEF ComposerTypes, Boxes
  <2>4. ASSUME NEW m \in 1..Mounts, m > box.object
        PROVE  memory'[m] = memory[m]
    <3>1. s.object # m
      BY <1>1, <2>4
    <3> QED
      BY <2>2, <2>4, <3>1 DEF ComposerTypes
  <2> QED
    BY <1>2, <2>3, <2>4
<1>5. CASE \/ \E w \in Words : Type(w)
           \/ \E f \in Files : UploadStart(f) \/ RemovePreview(f)
           \/ SubmitReaction
  <2>1. /\ \E draft : SaveDraft(box.object, box.channel, draft)
        /\ box' = box \/ \E text : box' = [box EXCEPT !.text = text]
    BY <1>5 DEF Type, UploadStart, RemovePreview, SubmitReaction
  <2>2. box'.object = box.object
    BY <2>1 DEF ComposerTypes, Boxes
  <2> QED
    BY <1>1, <1>2, <1>3, <2>1, <2>2
<1>6. CASE \E u \in uploads : UploadComplete(u) \/ UploadError(u)
  <2>1. /\ UNCHANGED memory \/ \E u \in uploads : \E draft : SaveDraft(u.object, u.channel, draft)
        /\ UNCHANGED box
    BY <1>6 DEF UploadComplete, UploadError
  <2> QED
    BY <1>1, <1>2, <1>3, <2>1
<1>7. CASE \/ \E w \in Words : Insert(w, box.text) \/ Insert(w, {})
           \/ \E c \in Channels : SwitchChannel(c)
           \/ Remount \/ SubmitMessage \/ SubmitCommand \/ OpenDialog
           \/ \E s \in sends : CommandAllowed(s) \/ CommandAsMessage(s)
  <2>1. UNCHANGED memory
    BY <1>7 DEF Insert, SwitchChannel, Remount, SubmitMessage, SubmitCommand, OpenDialog,
                CommandAllowed, CommandAsMessage
  <2>2. CASE Remount
    BY <1>2, <2>1, <2>2 DEF Remount
  <2>3. ASSUME \/ \E w \in Words : Insert(w, box.text) \/ Insert(w, {})
               \/ \E c \in Channels : SwitchChannel(c)
        PROVE  box'.object = box.object
    BY <2>3 DEF Insert, SwitchChannel, ComposerTypes, Boxes
  <2>4. ASSUME SubmitMessage \/ SubmitCommand \/ OpenDialog
        PROVE  box'.object = box.object
    BY <2>4 DEF SubmitMessage, SubmitCommand, OpenDialog, ComposerTypes, Boxes
  <2>5. ASSUME \E s \in sends : CommandAllowed(s) \/ CommandAsMessage(s)
        PROVE  box'.object = box.object
    BY <2>5 DEF CommandAllowed, CommandAsMessage
  <2> QED
    BY <1>2, <1>7, <2>1, <2>2, <2>3, <2>4, <2>5
<1>8. ASSUME NEW i, PostCreated(i)
      PROVE  FreshMemory'
  BY <1>2, <1>8, CreatedEffect
<1> QED
  BY <1>4, <1>5, <1>6, <1>7, <1>8 DEF ComposerNext

----------------------------------------------------------------------------
(* Where things are.                                                       *)

LEMMA TokenFacts ==
  ASSUME ComposerTypes
  PROVE  /\ Tokens(NoDraft) = {} /\ Tokens(EmptyDraft) = {}
         /\ \A c \in Channels : /\ Tokens(DraftIn(stored, c)) = Tokens(stored[c])
                                /\ DraftIn(stored, c).words \cup DraftIn(stored, c).files
                                   \cup DraftIn(stored, c).up = Tokens(stored[c])
         /\ \A c \in Channels : Tokens(stored[c]) \subseteq Words \cup Files
         /\ \A o \in 1..Mounts, c \in Channels : Tokens(memory[o][c]) \subseteq Words \cup Files
<1>1. EmptyDraft # NoDraft /\ Tokens(NoDraft) = {} /\ Tokens(EmptyDraft) = {}
  BY DEF EmptyDraft, NoDraft, Tokens
<1>2. ASSUME NEW c \in Channels
      PROVE  /\ Tokens(DraftIn(stored, c)) = Tokens(stored[c])
             /\ DraftIn(stored, c).words \cup DraftIn(stored, c).files \cup DraftIn(stored, c).up
                = Tokens(stored[c])
  <2>1. CASE stored[c] = NoDraft
    BY <1>1, <2>1 DEF DraftIn, EmptyDraft
  <2>2. CASE stored[c] # NoDraft
    BY <2>2 DEF DraftIn, Tokens
  <2> QED
    BY <2>1, <2>2
<1>3. ASSUME NEW d \in Drafts
      PROVE  Tokens(d) \subseteq Words \cup Files
  BY DEF Drafts, Tokens, EnteredWords, EnteredFiles
<1> QED
  BY <1>1, <1>2, <1>3 DEF ComposerTypes

LEMMA TokensIn ==
  ASSUME NEW d
  PROVE  Tokens(d) \subseteq d.words \cup d.files \cup d.up
BY DEF Tokens

LEMMA DraftFields ==
  ASSUME NEW d \in Drafts, d # NoDraft
  PROVE  /\ d = [words |-> d.words, files |-> d.files, up |-> d.up]
         /\ d.words \cup d.files \cup d.up = Tokens(d)
BY DEF Drafts, Tokens

LEMMA ClearedTokens ==
  ASSUME ComposerTypes, NEW c \in Channels
  PROVE  Tokens([e \in Channels |-> IF stored[e] = NoDraft THEN NoDraft
                                     ELSE [stored[e] EXCEPT !.up = {}]][c]) \subseteq Tokens(stored[c])
<1> DEFINE cleared == [e \in Channels |-> IF stored[e] = NoDraft THEN NoDraft
                                          ELSE [stored[e] EXCEPT !.up = {}]]
<1>1. CASE stored[c] = NoDraft
  BY <1>1
<1>2. CASE stored[c] # NoDraft
  <2>1. cleared[c] = [words |-> stored[c].words, files |-> stored[c].files, up |-> {}]
    BY <1>2 DEF ComposerTypes, Drafts
  <2> HIDE DEF cleared
  <2>2. /\ cleared[c].words = stored[c].words /\ cleared[c].files = stored[c].files
        /\ cleared[c].up = {}
    BY <2>1
  <2>3. Tokens(stored[c]) = stored[c].words \cup stored[c].files \cup stored[c].up
    BY <1>2 DEF Tokens
  <2>4. Tokens(cleared[c]) \subseteq Tokens(stored[c])
    BY <2>2, <2>3, TokensIn
  <2> QED
    BY <2>4 DEF cleared
<1> QED
  BY <1>1, <1>2

\* After the step, these are where they belong.
AtNext(tokens, c) == \A t \in tokens : home'[t] = c \/ t \in strayed' \cap reshown'

LEMMA AtKept ==
  ASSUME ComposerTypes, ComposerNext, NEW c \in Channels, NEW T \in SUBSET (Words \cup Files), At(T, c)
  PROVE  AtNext(T, c)
BY HistoryGrows, ComposerAssumption DEF At, AtNext, HomeGrows

LEMMA LocatedKept ==
  ASSUME ComposerTypes, ComposerNext, Located
  PROVE  /\ AtNext(box.text, box.channel)
         /\ \A c \in Channels : AtNext(Tokens(stored[c]), c)
         /\ \A o \in 1..Mounts, c \in Channels : AtNext(Tokens(memory[o][c]), c)
         /\ \A o \in 1..Mounts : AtNext(left[o].files, left[o].channel)
         /\ \A u \in uploads : home'[u.file] = u.channel
         /\ \A s \in sends : AtNext(s.words, s.from) /\ AtNext(s.files, s.to)
<1>1. EnteredWords \cup EnteredFiles \subseteq Words \cup Files
  BY DEF EnteredWords, EnteredFiles
<1>2. AtNext(box.text, box.channel)
  BY <1>1, BoxTypes, AtKept DEF Located
<1>3. /\ \A c \in Channels : AtNext(Tokens(stored[c]), c)
      /\ \A o \in 1..Mounts, c \in Channels : AtNext(Tokens(memory[o][c]), c)
  BY TokenFacts, AtKept DEF Located
<1>4. \A o \in 1..Mounts : left[o].files \subseteq EnteredFiles /\ left[o].channel \in Channels
  BY DEF ComposerTypes, Leavings
<1>5. \A o \in 1..Mounts : AtNext(left[o].files, left[o].channel)
  BY <1>1, <1>4, AtKept DEF Located
<1>6. \A u \in uploads : u.file \in EnteredFiles
  BY DEF ComposerTypes, Uploads
<1>7. \A u \in uploads : home'[u.file] = u.channel
  BY <1>6, HistoryGrows DEF Located, HomeGrows, EnteredFiles
<1>8. \A s \in sends : AtNext(s.words, s.from) /\ AtNext(s.files, s.to)
  BY <1>1, CallOf, AtKept DEF Located
<1> QED
  BY <1>2, <1>3, <1>5, <1>7, <1>8

LEMMA LocatedStep ==
  ASSUME ComposerTypes, ComposerNext, Located,
         box' = box \/ AtNext(box'.text, box'.channel),
         \A c \in Channels : stored'[c] = stored[c] \/ AtNext(Tokens(stored'[c]), c),
         \A o \in 1..Mounts, c \in Channels :
            memory'[o][c] = memory[o][c] \/ AtNext(Tokens(memory'[o][c]), c),
         \A o \in 1..Mounts : left'[o] = left[o] \/ AtNext(left'[o].files, left'[o].channel),
         \A u \in uploads' : u \in uploads \/ home'[u.file] = u.channel,
         \A s \in sends' : s \in sends \/ (AtNext(s.words, s.from) /\ AtNext(s.files, s.to))
  PROVE  Located'
<1>1. AtNext(box'.text, box'.channel)
  BY LocatedKept
<1>2. /\ \A c \in Channels : AtNext(Tokens(stored'[c]), c)
      /\ \A o \in 1..Mounts, c \in Channels : AtNext(Tokens(memory'[o][c]), c)
      /\ \A o \in 1..Mounts : AtNext(left'[o].files, left'[o].channel)
      /\ \A u \in uploads' : home'[u.file] = u.channel
      /\ \A s \in sends' : AtNext(s.words, s.from) /\ AtNext(s.files, s.to)
  BY LocatedKept
<1> QED
  BY <1>1, <1>2 DEF Located, At, AtNext, Tokens

\* A draft that is saved where it belongs.
LEMMA SaveLocated ==
  ASSUME ComposerTypes, NEW o \in 1..Mounts, NEW c \in Channels, NEW draft, SaveDraft(o, c, draft),
         AtNext(Tokens(draft), c)
  PROVE  /\ \A e \in Channels : stored'[e] = stored[e] \/ AtNext(Tokens(stored'[e]), e)
         /\ \A m \in 1..Mounts, e \in Channels :
               memory'[m][e] = memory[m][e] \/ AtNext(Tokens(memory'[m][e]), e)
<1>1. /\ stored' = [stored EXCEPT ![c] = draft]
      /\ memory' = [memory EXCEPT ![o][c] = draft]
  BY DEF SaveDraft
<1>2. \A e \in Channels : stored'[e] = stored[e] \/ (e = c /\ stored'[e] = draft)
  BY <1>1 DEF ComposerTypes
<1>3. \A m \in 1..Mounts, e \in Channels :
         memory'[m][e] = memory[m][e] \/ (e = c /\ memory'[m][e] = draft)
  BY <1>1 DEF ComposerTypes
<1> QED
  BY <1>2, <1>3


LEMMA WriteLocated ==
  ASSUME ComposerTypes, ComposerNext, Located,
         \/ \E w \in Words : Type(w) \/ Insert(w, box.text) \/ Insert(w, {})
         \/ \E c \in Channels : SwitchChannel(c)
         \/ Remount \/ OpenDialog
  PROVE  Located'
<1>1. ASSUME NEW w \in Words, Type(w)
      PROVE  Located'
  <2>1. /\ box' = [box EXCEPT !.text = @ \cup {w}]
        /\ SaveDraft(box.object, box.channel, [Draft EXCEPT !.words = box.text \cup {w}])
        /\ home' = [home EXCEPT ![w] = box.channel]
        /\ UNCHANGED <<left, uploads, sends>>
    BY <1>1 DEF Type
  <2>2. box'.text = box.text \cup {w} /\ box'.channel = box.channel
    BY <2>1 DEF ComposerTypes, Boxes
  <2>3. home'[w] = box.channel
    BY <2>1 DEF ComposerTypes
  <2>4. AtNext(box'.text, box'.channel)
    BY <2>2, <2>3, LocatedKept DEF AtNext
  <2> DEFINE draft == [Draft EXCEPT !.words = box.text \cup {w}]
  <2>5. draft.words = box'.text /\ draft.files = Draft.files /\ draft.up = Draft.up
    <3>1. Draft = [words |-> Draft.words, files |-> Draft.files, up |-> Draft.up]
      BY BoxTypes, DraftFields DEF Draft
    <3> QED
      BY <2>2, <3>1
  <2>6. SaveDraft(box.object, box.channel, draft)
    BY <2>1
  <2> HIDE DEF draft
  <2>7. Tokens(draft) \subseteq Tokens(stored[box.channel]) \cup box'.text
    BY <2>5, BoxTypes, TokenFacts, TokensIn DEF Draft
  <2>8. AtNext(Tokens(draft), box.channel)
    BY <2>2, <2>4, <2>7, BoxTypes, LocatedKept DEF AtNext
  <2> QED
    BY <2>1, <2>4, <2>6, <2>8, BoxTypes, SaveLocated, LocatedStep
<1>2. ASSUME NEW w \in Words, NEW before \in SUBSET box.text, Insert(w, before)
      PROVE  Located'
  <2>1. /\ box' = [box EXCEPT !.text = before \cup {w}]
        /\ home' = [home EXCEPT ![w] = box.channel]
        /\ UNCHANGED <<left, stored, memory, uploads, sends>>
    BY <1>2 DEF Insert
  <2>2. box'.text = before \cup {w} /\ box'.channel = box.channel
    BY <2>1 DEF ComposerTypes, Boxes
  <2>3. home'[w] = box.channel
    BY <2>1 DEF ComposerTypes
  <2>4. AtNext(box'.text, box'.channel)
    BY <2>2, <2>3, LocatedKept DEF AtNext
  <2> QED
    BY <2>1, <2>4, LocatedStep
<1>3. ASSUME NEW c \in Channels, SwitchChannel(c)
      PROVE  Located'
  <2>1. /\ box' = [box EXCEPT !.channel = c, !.text = DraftIn(stored, c).words, !.submitting = FALSE]
        /\ UNCHANGED <<left, stored, memory, uploads, sends>>
    BY <1>3 DEF SwitchChannel
  <2>2. box'.text = DraftIn(stored, c).words /\ box'.channel = c
    BY <2>1 DEF ComposerTypes, Boxes
  <2>3. DraftIn(stored, c).words \subseteq Tokens(stored[c])
    BY TokenFacts
  <2>4. AtNext(box'.text, box'.channel)
    BY <2>2, <2>3, LocatedKept DEF AtNext
  <2> QED
    BY <2>1, <2>4, LocatedStep
<1>4. CASE OpenDialog
  <2>1. /\ box' = [box EXCEPT !.text = {}]
        /\ UNCHANGED <<left, stored, memory, uploads, sends>>
    BY <1>4 DEF OpenDialog
  <2>2. AtNext(box'.text, box'.channel)
    BY <2>1 DEF ComposerTypes, Boxes, AtNext
  <2> QED
    BY <2>1, <2>2, LocatedStep
<1>5. CASE Remount
  <2> DEFINE cleared == [c \in Channels |-> IF stored[c] = NoDraft THEN NoDraft
                                            ELSE [stored[c] EXCEPT !.up = {}]]
  <2>1. /\ stored' = cleared
        /\ box' = [object |-> box.object + 1, channel |-> box.channel,
                   text |-> DraftIn(cleared, box.channel).words, submitting |-> FALSE]
        /\ left' = [left EXCEPT ![box.object] = [channel |-> box.channel, files |-> Draft.files]]
        /\ UNCHANGED <<memory, uploads, sends>>
    BY <1>5 DEF Remount
  <2>2. \A c \in Channels : Tokens(cleared[c]) \subseteq Tokens(stored[c])
    BY ClearedTokens
  <2>3. DraftIn(cleared, box.channel).words \subseteq Tokens(cleared[box.channel])
    BY DEF DraftIn, Tokens, EmptyDraft
  <2> HIDE DEF cleared
  <2>4. \A c \in Channels : AtNext(Tokens(stored'[c]), c)
    BY <2>1, <2>2, LocatedKept DEF AtNext
  <2>5. AtNext(box'.text, box'.channel)
    BY <2>1, <2>3, <2>4, BoxTypes DEF AtNext
  <2>6. Draft.files \subseteq Tokens(stored[box.channel])
    BY BoxTypes, TokenFacts DEF Draft
  <2>7. AtNext(Draft.files, box.channel)
    BY <2>6, BoxTypes, LocatedKept DEF AtNext
  <2>8. \A o \in 1..Mounts : left'[o] = left[o] \/ AtNext(left'[o].files, left'[o].channel)
    BY <2>1, <2>7 DEF ComposerTypes
  <2> QED
    BY <2>1, <2>4, <2>5, <2>8, LocatedStep
<1> QED
  BY <1>1, <1>2, <1>3, <1>4, <1>5

LEMMA UploadOf ==
  ASSUME ComposerTypes, NEW u \in uploads
  PROVE  /\ u.object \in 1..Mounts /\ u.channel \in Channels /\ u.file \in EnteredFiles
         /\ u.object \in 1..box.object /\ u.file \in Files
         /\ memory[u.object][u.channel] \in Drafts
<1>1. 1..box.object \subseteq 1..Mounts
  BY BoxTypes, ComposerAssumption
<1>2. /\ u.object \in 1..Mounts /\ u.channel \in Channels /\ u.file \in EnteredFiles
      /\ u.object \in 1..box.object
  BY <1>1 DEF ComposerTypes, Uploads
<1> QED
  BY <1>2 DEF ComposerTypes, EnteredFiles

\* What an upload leaves in the draft was there, or is the file itself.
LEMMA UploadTokens ==
  ASSUME ComposerTypes, NEW u \in uploads
  PROVE  /\ Tokens(Uploaded(u)) \subseteq Tokens(memory[u.object][u.channel]) \cup {u.file}
         /\ memory[u.object][u.channel] # NoDraft =>
              Tokens([memory[u.object][u.channel] EXCEPT !.up = @ \ {u.file}])
              \subseteq Tokens(memory[u.object][u.channel])
<1> DEFINE d == memory[u.object][u.channel]
<1>1. d \in Drafts
  BY UploadOf
<1>2. d # NoDraft => d.files \cup d.up \subseteq Tokens(d)
  BY DEF Tokens
<1>3. ASSUME d # NoDraft
      PROVE  /\ Tokens([d EXCEPT !.up = @ \ {u.file}]) \subseteq Tokens(d) \cup (d.up \ {u.file})
             /\ Tokens([d EXCEPT !.up = @ \ {u.file}, !.files = @ \cup {u.file}])
                \subseteq Tokens(d) \cup (d.up \ {u.file}) \cup (d.files \cup {u.file})
  <2> HIDE DEF d
  <2> DEFINE e == [d EXCEPT !.up = @ \ {u.file}]
             g == [d EXCEPT !.up = @ \ {u.file}, !.files = @ \cup {u.file}]
  <2>1. /\ d = [words |-> d.words, files |-> d.files, up |-> d.up]
        /\ d.words \cup d.files \cup d.up = Tokens(d)
    BY <1>1, <1>3, DraftFields
  <2>2. e.words = d.words /\ e.files = d.files /\ e.up = d.up \ {u.file}
    BY <2>1
  <2>3. g.words = d.words /\ g.files = d.files \cup {u.file} /\ g.up = d.up \ {u.file}
    BY <2>1
  <2> HIDE DEF e, g
  <2>4. /\ Tokens(e) \subseteq Tokens(d) \cup (d.up \ {u.file})
        /\ Tokens(g) \subseteq Tokens(d) \cup (d.up \ {u.file}) \cup (d.files \cup {u.file})
    BY <2>1, <2>2, <2>3, TokensIn
  <2> QED
    BY <2>4 DEF e, g
<1>4. Uploaded(u) = NoDraft \/ Uploaded(u) = [d EXCEPT !.up = @ \ {u.file}, !.files = @ \cup {u.file}]
  BY DEF Uploaded
<1>5. d = NoDraft => Uploaded(u) = NoDraft
  BY DEF Uploaded
<1> HIDE DEF d
<1>6. Tokens(Uploaded(u)) \subseteq Tokens(d) \cup {u.file}
  BY <1>2, <1>3, <1>4, <1>5, TokenFacts
<1>7. d # NoDraft => Tokens([d EXCEPT !.up = @ \ {u.file}]) \subseteq Tokens(d)
  BY <1>2, <1>3
<1> QED
  BY <1>6, <1>7 DEF d

LEMMA FileLocated ==
  ASSUME ComposerTypes, ComposerNext, Located,
         \/ \E f \in Files : UploadStart(f) \/ RemovePreview(f)
         \/ \E u \in uploads : UploadComplete(u) \/ UploadError(u)
  PROVE  Located'
<1>1. /\ Draft = [words |-> Draft.words, files |-> Draft.files, up |-> Draft.up]
      /\ Draft.words \cup Draft.files \cup Draft.up = Tokens(stored[box.channel])
  BY BoxTypes, TokenFacts, DraftFields DEF Draft
<1>2. ASSUME NEW f \in Files, UploadStart(f)
      PROVE  Located'
  <2>1. /\ uploads' = uploads \cup {[file |-> f, channel |-> box.channel, object |-> box.object]}
        /\ SaveDraft(box.object, box.channel, [Draft EXCEPT !.up = @ \cup {f}])
        /\ home' = [home EXCEPT ![f] = box.channel]
        /\ UNCHANGED <<box, left, sends>>
    BY <1>2 DEF UploadStart
  <2>2. home'[f] = box.channel
    BY <2>1 DEF ComposerTypes
  <2> DEFINE draft == [Draft EXCEPT !.up = @ \cup {f}]
  <2>3. draft.words = Draft.words /\ draft.files = Draft.files /\ draft.up = Draft.up \cup {f}
    BY <1>1
  <2>4. SaveDraft(box.object, box.channel, draft)
    BY <2>1
  <2> HIDE DEF draft
  <2>5. Tokens(draft) \subseteq Tokens(stored[box.channel]) \cup {f}
    BY <1>1, <2>3, TokensIn
  <2>6. AtNext(Tokens(draft), box.channel)
    BY <2>2, <2>5, BoxTypes, LocatedKept DEF AtNext
  <2>7. \A u \in uploads' : u \in uploads \/ home'[u.file] = u.channel
    BY <2>1, <2>2
  <2> QED
    BY <2>1, <2>4, <2>6, <2>7, BoxTypes, SaveLocated, LocatedStep
<1>3. ASSUME NEW f \in Files, RemovePreview(f)
      PROVE  Located'
  <2>1. PICK draft \in {[Draft EXCEPT !.files = @ \ {f}], [Draft EXCEPT !.up = @ \ {f}]} :
           SaveDraft(box.object, box.channel, draft)
    BY <1>3 DEF RemovePreview
  <2>2. uploads' \subseteq uploads /\ UNCHANGED <<box, left, sends>>
    BY <1>3 DEF RemovePreview
  <2>3. /\ draft.words = Draft.words /\ draft.files \subseteq Draft.files
        /\ draft.up \subseteq Draft.up
    BY <1>1
  <2>4. Tokens(draft) \subseteq Tokens(stored[box.channel])
    BY <1>1, <2>3, TokensIn
  <2>5. AtNext(Tokens(draft), box.channel)
    BY <2>4, BoxTypes, LocatedKept DEF AtNext
  <2> QED
    BY <2>1, <2>2, <2>5, BoxTypes, SaveLocated, LocatedStep
<1>4. ASSUME NEW u \in uploads, UploadComplete(u)
      PROVE  Located'
  <2>1. /\ uploads' \subseteq uploads
        /\ SaveDraft(u.object, u.channel, Uploaded(u))
        /\ UNCHANGED <<box, left, sends>>
    BY <1>4 DEF UploadComplete
  <2>2. AtNext(Tokens(Uploaded(u)), u.channel)
    BY UploadOf, UploadTokens, LocatedKept DEF AtNext
  <2> QED
    BY <2>1, <2>2, UploadOf, SaveLocated, LocatedStep
<1>5. ASSUME NEW u \in uploads, UploadError(u)
      PROVE  Located'
  <2> DEFINE d == memory[u.object][u.channel]
             draft == [d EXCEPT !.up = @ \ {u.file}]
  <2>1. /\ uploads' \subseteq uploads
        /\ \/ d # NoDraft /\ SaveDraft(u.object, u.channel, draft)
           \/ UNCHANGED <<stored, memory>>
        /\ UNCHANGED <<box, left, sends>>
    BY <1>5 DEF UploadError
  <2>2. d # NoDraft => AtNext(Tokens(draft), u.channel)
    BY UploadOf, UploadTokens, LocatedKept DEF AtNext
  <2> HIDE DEF d, draft
  <2> QED
    BY <2>1, <2>2, UploadOf, SaveLocated, LocatedStep
<1> QED
  BY <1>2, <1>3, <1>4, <1>5

LEMMA SubmitLocated ==
  ASSUME ComposerTypes, ComposerNext, Located, SubmitMessage \/ SubmitCommand \/ SubmitReaction
  PROVE  Located'
<1>1. AtNext(box.text, box.channel) /\ AtNext(Draft.files, box.channel) /\ AtNext({}, box.channel)
  <2>1. Draft.files \subseteq Tokens(stored[box.channel])
    BY BoxTypes, TokenFacts DEF Draft
  <2> QED
    BY <2>1, BoxTypes, LocatedKept DEF AtNext
<1>2. AtNext(Tokens(NoDraft), box.channel)
  BY TokenFacts DEF AtNext
<1>3. CASE SubmitMessage
  <2> DEFINE call == Call("message hooks", "message")
  <2>1. /\ box' = [box EXCEPT !.submitting = TRUE]
        /\ sends' = sends \cup {call}
        /\ UNCHANGED <<left, stored, memory, uploads>>
    BY <1>3 DEF SubmitMessage
  <2>2. box'.text = box.text /\ box'.channel = box.channel
    BY <2>1 DEF ComposerTypes, Boxes
  <2>3. AtNext(call.words, call.from) /\ AtNext(call.files, call.to)
    BY <1>1 DEF Call
  <2> HIDE DEF call
  <2> QED
    BY <1>1, <2>1, <2>2, <2>3, LocatedStep
<1>4. CASE SubmitCommand
  <2> DEFINE call == [Call("command hooks", "command") EXCEPT !.files = {}]
  <2>1. /\ box' = [box EXCEPT !.submitting = TRUE, !.text = {}]
        /\ sends' = sends \cup {call}
        /\ UNCHANGED <<left, stored, memory, uploads>>
    BY <1>4 DEF SubmitCommand
  <2>2. box'.text = {} /\ box'.channel = box.channel
    BY <2>1 DEF ComposerTypes, Boxes
  <2>3. AtNext(call.words, call.from) /\ AtNext(call.files, call.to)
    BY <1>1 DEF Call
  <2> HIDE DEF call
  <2> QED
    BY <1>1, <2>1, <2>2, <2>3, LocatedStep
<1>5. CASE SubmitReaction
  <2>1. /\ box' = [box EXCEPT !.text = {}]
        /\ SaveDraft(box.object, box.channel, NoDraft)
        /\ UNCHANGED <<left, uploads, sends>>
    BY <1>5 DEF SubmitReaction
  <2>2. box'.text = {} /\ box'.channel = box.channel
    BY <2>1 DEF ComposerTypes, Boxes
  <2> QED
    BY <1>1, <1>2, <2>1, <2>2, BoxTypes, SaveLocated, LocatedStep
<1> QED
  BY <1>3, <1>4, <1>5

\* What the end of a call leaves of the drafts.
LEMMA EndDrafts ==
  ASSUME ComposerTypes, NEW s \in sends,
         CommandDone(s) \/ CommandFailed(s) \/ Sent(s) \/ Refused(s)
  PROVE  /\ stored'[s.from] = NoDraft /\ memory'[s.object][s.from] = NoDraft
         /\ \A c \in Channels : stored'[c] = NoDraft \/ stored'[c] = stored[c]
         /\ \A o \in 1..Mounts, c \in Channels :
               \/ memory'[o][c] = memory[o][c]
               \/ o = s.object /\ c = s.from /\ memory'[o][c] = NoDraft
         /\ sends' = sends \ {s}
         /\ UNCHANGED <<left, uploads, home>>
<1>1. PICK drafts \in {stored, [stored EXCEPT ![s.to] = NoDraft]} : Ended(s, drafts)
  BY DEF CommandDone, CommandFailed, Sent, Refused
<1>2. /\ stored' = [drafts EXCEPT ![s.from] = NoDraft]
      /\ memory' = [memory EXCEPT ![s.object][s.from] = NoDraft]
  BY <1>1 DEF Ended
<1>3. s.object \in 1..Mounts /\ s.from \in Channels
  BY CallOf
<1>4. /\ memory'[s.object][s.from] = NoDraft
      /\ \A o \in 1..Mounts, c \in Channels :
            \/ memory'[o][c] = memory[o][c]
            \/ o = s.object /\ c = s.from /\ memory'[o][c] = NoDraft
  BY <1>2, <1>3 DEF ComposerTypes
<1>5. \A c \in Channels : drafts[c] = NoDraft \/ drafts[c] = stored[c]
  BY <1>1 DEF ComposerTypes
<1>6. drafts \in [Channels -> Drafts \cup {NoDraft}]
  BY <1>1 DEF ComposerTypes
<1>7. /\ stored'[s.from] = NoDraft
      /\ \A c \in Channels : stored'[c] = NoDraft \/ stored'[c] = stored[c]
  BY <1>2, <1>3, <1>5, <1>6
<1>8. sends' = sends \ {s} /\ UNCHANGED <<left, uploads, home>>
  BY DEF CommandDone, CommandFailed, Sent, Refused, Over
<1> QED
  BY <1>4, <1>7, <1>8


\* And of the box, where a command that failed comes back.
LEMMA EndBox ==
  ASSUME ComposerTypes, NEW s \in sends,
         CommandDone(s) \/ CommandFailed(s) \/ Sent(s) \/ Refused(s)
  PROVE  /\ box'.object = box.object /\ box'.channel = box.channel
         /\ s.object # box.object => box' = box
         /\ \/ box'.text \subseteq box.text
            \/ CommandFailed(s) /\ s.object = box.object /\ box'.text = s.words
         /\ (s.object = box.object /\ Sent(s) /\ s.kind = "message") => box'.text = {}
         /\ reshown \cup UNION {o.words \cup o.files : o \in sends \ {s}} \subseteq reshown'
<1>1. ASSUME NEW text, NEW again, Over(s, text, again)
      PROVE  /\ box'.object = box.object /\ box'.channel = box.channel
             /\ s.object # box.object => box' = box
             /\ s.object = box.object => box'.text = text
             /\ reshown \cup UNION {o.words \cup o.files : o \in sends \ {s}} \subseteq reshown'
  BY <1>1 DEF Over, ComposerTypes, Boxes
<1>2. ASSUME Sent(s)
      PROVE  \E again : Over(s, IF s.kind = "message" THEN {} ELSE box.text, again)
  BY <1>2 DEF Sent
<1>3. (s.object = box.object /\ Sent(s) /\ s.kind = "message") => box'.text = {}
  BY <1>1, <1>2
<1>4. CASE Sent(s)
  BY <1>1, <1>2, <1>3, <1>4
<1>5. CASE Refused(s) \/ CommandDone(s)
  <2>1. Over(s, box.text, {})
    BY <1>5 DEF Refused, CommandDone
  <2> QED
    BY <1>1, <1>3, <2>1
<1>6. CASE CommandFailed(s)
  <2>1. Over(s, s.words, {})
    BY <1>6 DEF CommandFailed
  <2> QED
    BY <1>1, <1>3, <1>6, <2>1
<1> QED
  BY <1>4, <1>5, <1>6

LEMMA CallLocated ==
  ASSUME ComposerTypes, ComposerNext, Located, OnceSent, NEW s \in sends,
         \/ CommandAllowed(s) \/ CommandAsMessage(s) \/ CommandDone(s) \/ CommandFailed(s)
         \/ Sent(s) \/ Refused(s)
  PROVE  Located'
<1>1. CASE CommandAllowed(s)
  <2> DEFINE call == [s EXCEPT !.stage = "command"]
  <2>1. /\ sends' = (sends \ {s}) \cup {call}
        /\ UNCHANGED <<box, left, stored, memory, uploads>>
    BY <1>1 DEF CommandAllowed
  <2>2. call.words = s.words /\ call.files = s.files /\ call.from = s.from /\ call.to = s.to
    BY CallOf DEF Calls
  <2> HIDE DEF call
  <2>3. AtNext(call.words, call.from) /\ AtNext(call.files, call.to)
    BY <2>2, LocatedKept
  <2> QED
    BY <2>1, <2>3, LocatedStep
<1>2. CASE CommandAsMessage(s)
  <2> DEFINE props == IF s.object = box.object THEN [channel |-> box.channel, files |-> Draft.files]
                      ELSE left[s.object]
             call == [s EXCEPT !.stage = "message hooks", !.to = props.channel, !.files = props.files]
  <2>1. /\ sends' = (sends \ {s}) \cup {call}
        /\ UNCHANGED <<box, left, stored, memory, uploads>>
    BY <1>2 DEF CommandAsMessage
  <2>2. Draft.files \subseteq Tokens(stored[box.channel])
    BY BoxTypes, TokenFacts DEF Draft
  <2>3. AtNext(Draft.files, box.channel)
    BY <2>2, BoxTypes, LocatedKept DEF AtNext
  <2>4. AtNext(props.files, props.channel)
    BY <2>3, CallOf, LocatedKept
  <2> HIDE DEF props
  <2>5. call.words = s.words /\ call.files = props.files /\ call.from = s.from /\ call.to = props.channel
    BY CallOf DEF Calls
  <2> HIDE DEF call
  <2>6. AtNext(call.words, call.from) /\ AtNext(call.files, call.to)
    BY <2>4, <2>5, LocatedKept
  <2> QED
    BY <2>1, <2>6, LocatedStep
<1>3. CASE CommandDone(s) \/ CommandFailed(s) \/ Sent(s) \/ Refused(s)
  <2>1. \A c \in Channels : stored'[c] = stored[c] \/ AtNext(Tokens(stored'[c]), c)
    BY <1>3, EndDrafts, TokenFacts DEF AtNext
  <2>2. \A o \in 1..Mounts, c \in Channels :
           memory'[o][c] = memory[o][c] \/ AtNext(Tokens(memory'[o][c]), c)
    BY <1>3, EndDrafts, TokenFacts DEF AtNext
  <2>3. AtNext(box'.text, box'.channel)
    <3>1. CASE box'.text \subseteq box.text
      BY <1>3, <3>1, EndBox, LocatedKept DEF AtNext
    <3>2. CASE CommandFailed(s) /\ s.object = box.object /\ box'.text = s.words
      <4>1. CASE s.from = box.channel
        BY <1>3, <3>2, <4>1, EndBox, LocatedKept
      <4>2. CASE s.from # box.channel
        <5>1. s.words \subseteq strayed'
          BY <3>2, <4>2 DEF CommandFailed, Strays, Crossed
        <5>2. s.words \subseteq reshown
          BY <4>2 DEF OnceSent
        <5> QED
          BY <1>3, <3>2, <5>1, <5>2, EndBox DEF AtNext
      <4> QED
        BY <4>1, <4>2
    <3> QED
      BY <1>3, <3>1, <3>2, EndBox
  <2> QED
    BY <1>3, <2>1, <2>2, <2>3, EndDrafts, LocatedStep
<1> QED
  BY <1>1, <1>2, <1>3

LEMMA NextLocated ==
  ASSUME ComposerTypes, ComposerNext, Located, OnceSent
  PROVE  Located'
<1>1. ASSUME NEW i, PostCreated(i)
      PROVE  Located'
  <2>1. \A c \in Channels : stored'[c] = stored[c] \/ AtNext(Tokens(stored'[c]), c)
    BY <1>1, CreatedEffect, TokenFacts DEF AtNext
  <2> QED
    BY <1>1, <2>1, CreatedEffect, LocatedStep
<1> QED
  BY <1>1, WriteLocated, FileLocated, SubmitLocated, CallLocated DEF ComposerNext


----------------------------------------------------------------------------
(* Nothing is posted twice.                                                *)

LEMMA PostTokensStep ==
  ASSUME ComposerTypes, NEW p \in PostedRecords, posted' = Append(posted, p)
  PROVE  PostTokens' = PostTokens \cup p.words \cup p.files
<1>1. posted \in Seq(PostedRecords)
  BY DEF ComposerTypes
<1>2. ToSet(posted') = ToSet(posted) \cup {p}
  BY <1>1 DEF ToSet
<1>3. p.words \cup p.files \subseteq Words \cup Files
  BY DEF PostedRecords, EnteredWords, EnteredFiles
<1> QED
  BY <1>2, <1>3 DEF PostTokens

LEMMA PostTokensTypes ==
  ASSUME ComposerTypes
  PROVE  PostTokens \subseteq EnteredWords \cup EnteredFiles
<1>1. \A p \in ToSet(posted) : p \in PostedRecords
  BY DEF ComposerTypes, ToSet
<1> QED
  BY <1>1 DEF PostTokens, PostedRecords

LEMMA AroundTypes ==
  ASSUME ComposerTypes
  PROVE  /\ box.text \subseteq Around /\ SendTokens \subseteq Around
         /\ \A c \in Channels : Tokens(stored[c]) \subseteq Around
         /\ \A c \in Channels : Tokens(memory[box.object][c]) \subseteq Around
         /\ Draft.files \cup Draft.up \subseteq Around
         /\ \A s \in sends : s.words \cup s.files \subseteq Around
<1>1. Draft.files \cup Draft.up \subseteq Tokens(stored[box.channel])
  BY BoxTypes, TokenFacts DEF Draft
<1>2. /\ box.text \subseteq Words \cup Files
      /\ \A s \in sends : s.words \cup s.files \subseteq Words \cup Files
  BY BoxTypes, CallOf DEF EnteredWords, EnteredFiles
<1>3. /\ box.text \subseteq Around /\ SendTokens \subseteq Around
      /\ \A c \in Channels : Tokens(stored[c]) \subseteq Around
      /\ \A c \in Channels : Tokens(memory[box.object][c]) \subseteq Around
  BY <1>2, BoxTypes, TokenFacts DEF Around, SendTokens
<1>4. \A s \in sends : s.words \cup s.files \subseteq Around
  BY <1>2, <1>3 DEF SendTokens
<1> QED
  BY <1>1, <1>3, <1>4, BoxTypes

\* What may be reached after a step: what could be before, what is entered
\* now, what is shown again, and a file whose upload ends.
Reachable == Around \cup reshown' \cup {t \in Words \cup Files : home[t] = "nowhere"}
             \cup {u.file : u \in uploads}

LEMMA AroundStep ==
  ASSUME ComposerTypes, box'.text \subseteq Reachable,
         \A s \in sends' : s \in sends \/ s.words \cup s.files \subseteq Reachable,
         \A c \in Channels : stored'[c] = stored[c] \/ Tokens(stored'[c]) \subseteq Reachable,
         \A c \in Channels : \/ memory'[box'.object][c] = memory[box.object][c]
                             \/ Tokens(memory'[box'.object][c]) \subseteq Reachable
  PROVE  Around' \subseteq Reachable
<1>1. Around \subseteq Reachable
  BY DEF Reachable
<1>2. \A s \in sends' : s.words \cup s.files \subseteq Reachable
  BY <1>1, AroundTypes
<1>3. \A c \in Channels : Tokens(stored'[c]) \subseteq Reachable
  BY <1>1, AroundTypes
<1>4. \A c \in Channels : Tokens(memory'[box'.object][c]) \subseteq Reachable
  BY <1>1, AroundTypes
<1> QED
  BY <1>2, <1>3, <1>4 DEF Around, SendTokens, Tokens

LEMMA SaveReach ==
  ASSUME ComposerTypes, NEW o \in 1..Mounts, NEW c \in Channels, NEW draft, SaveDraft(o, c, draft),
         Tokens(draft) \subseteq Reachable
  PROVE  /\ \A b \in Channels : stored'[b] = stored[b] \/ Tokens(stored'[b]) \subseteq Reachable
         /\ \A m \in 1..Mounts, b \in Channels :
               memory'[m][b] = memory[m][b] \/ Tokens(memory'[m][b]) \subseteq Reachable
<1>1. /\ stored' = [stored EXCEPT ![c] = draft]
      /\ memory' = [memory EXCEPT ![o][c] = draft]
  BY DEF SaveDraft
<1>2. \A b \in Channels : stored'[b] = stored[b] \/ (b = c /\ stored'[b] = draft)
  BY <1>1 DEF ComposerTypes
<1>3. \A m \in 1..Mounts, b \in Channels :
         memory'[m][b] = memory[m][b] \/ (m = o /\ b = c /\ memory'[m][b] = draft)
  BY <1>1 DEF ComposerTypes
<1> QED
  BY <1>2, <1>3

\* The drafts that the handlers save hold nothing unheard of.
LEMMA WriteDraft ==
  ASSUME ComposerTypes, NEW w \in Words, Type(w)
  PROVE  \E draft : /\ SaveDraft(box.object, box.channel, draft)
                    /\ draft # NoDraft /\ draft.words = box.text \cup {w}
                    /\ draft.files = Draft.files /\ draft.up = Draft.up
                    /\ Tokens(draft) \subseteq Tokens(stored[box.channel]) \cup box.text \cup {w}
<1> DEFINE draft == [Draft EXCEPT !.words = box.text \cup {w}]
<1>1. Draft = [words |-> Draft.words, files |-> Draft.files, up |-> Draft.up]
  BY BoxTypes, DraftFields DEF Draft
<1>2. draft.words = box.text \cup {w} /\ draft.files = Draft.files /\ draft.up = Draft.up
  BY <1>1
<1>3. SaveDraft(box.object, box.channel, draft)
  BY DEF Type
<1> HIDE DEF draft
<1>4. Tokens(draft) \subseteq Tokens(stored[box.channel]) \cup box.text \cup {w}
  BY <1>2, BoxTypes, TokenFacts, TokensIn DEF Draft
<1>5. draft # NoDraft
  <2>1. "none" \notin box.text \cup {w}
    BY BoxTypes, ComposerAssumption DEF EnteredWords
  <2> QED
    BY <1>2, <2>1 DEF NoDraft
<1> QED
  BY <1>2, <1>3, <1>4, <1>5

LEMMA StartDraft ==
  ASSUME ComposerTypes, NEW f \in Files, UploadStart(f)
  PROVE  \E draft : /\ SaveDraft(box.object, box.channel, draft)
                    /\ draft # NoDraft /\ draft.words = Draft.words
                    /\ draft.files = Draft.files /\ draft.up = Draft.up \cup {f}
                    /\ Tokens(draft) \subseteq Tokens(stored[box.channel]) \cup {f}
<1> DEFINE draft == [Draft EXCEPT !.up = @ \cup {f}]
<1>1. Draft = [words |-> Draft.words, files |-> Draft.files, up |-> Draft.up]
  BY BoxTypes, DraftFields DEF Draft
<1>2. draft.words = Draft.words /\ draft.files = Draft.files /\ draft.up = Draft.up \cup {f}
  BY <1>1
<1>3. SaveDraft(box.object, box.channel, draft)
  BY DEF UploadStart
<1> HIDE DEF draft
<1>4. Tokens(draft) \subseteq Tokens(stored[box.channel]) \cup {f}
  BY <1>2, BoxTypes, TokenFacts, TokensIn DEF Draft
<1>5. draft # NoDraft
  <2>1. "none" \notin Draft.words
    BY BoxTypes, ComposerAssumption DEF EnteredWords, Draft
  <2> QED
    BY <1>2, <2>1 DEF NoDraft
<1> QED
  BY <1>2, <1>3, <1>4, <1>5

LEMMA RemoveDraft ==
  ASSUME ComposerTypes, NEW f \in Files, RemovePreview(f)
  PROVE  \E draft : /\ SaveDraft(box.object, box.channel, draft)
                    /\ draft # NoDraft /\ draft.words = Draft.words
                    /\ \/ draft.files = Draft.files \ {f} /\ draft.up = Draft.up
                       \/ draft.files = Draft.files /\ draft.up = Draft.up \ {f}
                    /\ Tokens(draft) \subseteq Tokens(stored[box.channel])
<1>1. PICK draft \in {[Draft EXCEPT !.files = @ \ {f}], [Draft EXCEPT !.up = @ \ {f}]} :
         SaveDraft(box.object, box.channel, draft)
  BY DEF RemovePreview
<1>2. Draft = [words |-> Draft.words, files |-> Draft.files, up |-> Draft.up]
  BY BoxTypes, DraftFields DEF Draft
<1>3. /\ draft.words = Draft.words
      /\ \/ draft.files = Draft.files \ {f} /\ draft.up = Draft.up
         \/ draft.files = Draft.files /\ draft.up = Draft.up \ {f}
  BY <1>2
<1>4. Tokens(draft) \subseteq Tokens(stored[box.channel])
  BY <1>3, BoxTypes, TokenFacts, TokensIn DEF Draft
<1>5. draft # NoDraft
  <2>1. "none" \notin Draft.words
    BY BoxTypes, ComposerAssumption DEF EnteredWords, Draft
  <2> QED
    BY <1>3, <2>1 DEF NoDraft
<1> QED
  BY <1>1, <1>3, <1>4, <1>5


LEMMA AroundGrows ==
  ASSUME ComposerTypes, FreshMemory, ComposerNext
  PROVE  Around' \subseteq Reachable
<1>1. /\ Around \cup reshown' \subseteq Reachable
      /\ \A t \in Words \cup Files : home[t] = "nowhere" => t \in Reachable
      /\ \A u \in uploads : u.file \in Reachable
  BY DEF Reachable
<1>2. ASSUME NEW w \in Words, Type(w)
      PROVE  Around' \subseteq Reachable
  <2>1. PICK draft : /\ SaveDraft(box.object, box.channel, draft)
                     /\ Tokens(draft) \subseteq Tokens(stored[box.channel]) \cup box.text \cup {w}
    BY <1>2, WriteDraft
  <2>2. /\ home[w] = "nowhere" /\ box' = [box EXCEPT !.text = @ \cup {w}]
        /\ UNCHANGED sends
    BY <1>2 DEF Type
  <2>3. box'.object = box.object /\ box'.text = box.text \cup {w}
    BY <2>2 DEF ComposerTypes, Boxes
  <2>4. Tokens(draft) \subseteq Reachable /\ box'.text \subseteq Reachable
    BY <1>1, <2>1, <2>2, <2>3, AroundTypes, BoxTypes
  <2>5. /\ \A b \in Channels : stored'[b] = stored[b] \/ Tokens(stored'[b]) \subseteq Reachable
        /\ \A b \in Channels : \/ memory'[box.object][b] = memory[box.object][b]
                               \/ Tokens(memory'[box.object][b]) \subseteq Reachable
    BY <2>1, <2>4, BoxTypes, SaveReach
  <2> QED
    BY <2>2, <2>3, <2>4, <2>5, AroundStep
<1>3. ASSUME NEW w \in Words, NEW before \in SUBSET box.text, Insert(w, before)
      PROVE  Around' \subseteq Reachable
  <2>1. /\ home[w] = "nowhere" /\ box' = [box EXCEPT !.text = before \cup {w}]
        /\ UNCHANGED <<sends, stored, memory>>
    BY <1>3 DEF Insert
  <2>2. box'.object = box.object /\ box'.text = before \cup {w}
    BY <2>1 DEF ComposerTypes, Boxes
  <2>3. box'.text \subseteq Reachable
    BY <1>1, <2>1, <2>2, AroundTypes
  <2> QED
    BY <2>1, <2>2, <2>3, AroundStep
<1>4. ASSUME NEW c \in Channels, SwitchChannel(c)
      PROVE  Around' \subseteq Reachable
  <2>1. /\ box' = [box EXCEPT !.channel = c, !.text = DraftIn(stored, c).words, !.submitting = FALSE]
        /\ UNCHANGED <<stored, memory, sends>>
    BY <1>4 DEF SwitchChannel
  <2>2. box'.text = DraftIn(stored, c).words /\ box'.object = box.object
    BY <2>1 DEF ComposerTypes, Boxes
  <2>3. box'.text \subseteq Reachable
    BY <1>1, <2>2, TokenFacts, AroundTypes
  <2> QED
    BY <2>1, <2>2, <2>3, AroundStep
<1>5. CASE Remount
  <2> DEFINE cleared == [c \in Channels |-> IF stored[c] = NoDraft THEN NoDraft
                                            ELSE [stored[c] EXCEPT !.up = {}]]
  <2>1. /\ stored' = cleared
        /\ box' = [object |-> box.object + 1, channel |-> box.channel,
                   text |-> DraftIn(cleared, box.channel).words, submitting |-> FALSE]
        /\ box.object < Mounts
        /\ UNCHANGED <<memory, sends>>
    BY <1>5 DEF Remount
  <2>2. \A c \in Channels : Tokens(cleared[c]) \subseteq Tokens(stored[c])
    BY ClearedTokens
  <2>3. DraftIn(cleared, box.channel).words \subseteq Tokens(cleared[box.channel])
    BY DEF DraftIn, Tokens, EmptyDraft
  <2> HIDE DEF cleared
  <2>4. \A c \in Channels : Tokens(stored'[c]) \subseteq Reachable
    BY <1>1, <2>1, <2>2, AroundTypes
  <2>5. box'.text \subseteq Reachable
    BY <2>1, <2>3, <2>4, BoxTypes
  <2>6. box.object + 1 \in 1..Mounts /\ box.object + 1 > box.object
    BY <2>1, BoxTypes, ComposerAssumption
  <2>7. \A c \in Channels : memory'[box'.object][c] = NoDraft
    BY <2>1, <2>6 DEF FreshMemory
  <2> QED
    BY <2>1, <2>4, <2>5, <2>7, TokenFacts, AroundStep
<1>6. ASSUME NEW f \in Files, UploadStart(f) \/ RemovePreview(f)
      PROVE  Around' \subseteq Reachable
  <2>1. PICK draft : /\ SaveDraft(box.object, box.channel, draft)
                     /\ \/ Tokens(draft) \subseteq Tokens(stored[box.channel])
                        \/ /\ home[f] = "nowhere"
                           /\ Tokens(draft) \subseteq Tokens(stored[box.channel]) \cup {f}
    <3>1. UploadStart(f) => home[f] = "nowhere"
      BY DEF UploadStart
    <3> QED
      BY <1>6, <3>1, StartDraft, RemoveDraft
  <2>2. UNCHANGED <<box, sends>>
    BY <1>6 DEF UploadStart, RemovePreview
  <2>3. Tokens(draft) \subseteq Reachable /\ box'.text \subseteq Reachable
    BY <1>1, <2>1, <2>2, AroundTypes, BoxTypes
  <2>4. /\ \A b \in Channels : stored'[b] = stored[b] \/ Tokens(stored'[b]) \subseteq Reachable
        /\ \A b \in Channels : \/ memory'[box.object][b] = memory[box.object][b]
                               \/ Tokens(memory'[box.object][b]) \subseteq Reachable
    BY <2>1, <2>3, BoxTypes, SaveReach
  <2> QED
    BY <2>2, <2>3, <2>4, AroundStep
<1>7. ASSUME NEW u \in uploads, UploadComplete(u) \/ UploadError(u)
      PROVE  Around' \subseteq Reachable
  <2>1. UNCHANGED <<box, sends>> /\ box'.text \subseteq Reachable
    <3>1. UNCHANGED <<box, sends>>
      BY <1>7 DEF UploadComplete, UploadError
    <3> QED
      BY <1>1, <3>1, AroundTypes
  <2>2. CASE UNCHANGED <<stored, memory>>
    BY <2>1, <2>2, AroundStep
  <2>3. CASE ~UNCHANGED <<stored, memory>>
    <3> DEFINE d == memory[u.object][u.channel]
               e == [d EXCEPT !.up = @ \ {u.file}]
    <3>1. \/ SaveDraft(u.object, u.channel, Uploaded(u))
          \/ d # NoDraft /\ SaveDraft(u.object, u.channel, e)
      BY <1>7, <2>3 DEF UploadComplete, UploadError
    <3>2. PICK draft : /\ SaveDraft(u.object, u.channel, draft)
                       /\ Tokens(draft) \subseteq Tokens(d) \cup {u.file}
      <4>1. d # NoDraft => Tokens(e) \subseteq Tokens(d)
        BY UploadTokens
      <4>2. Tokens(Uploaded(u)) \subseteq Tokens(d) \cup {u.file}
        BY UploadTokens
      <4> HIDE DEF d, e
      <4> QED
        BY <3>1, <4>1, <4>2
    <3>3. CASE u.object = box.object
      <4>1. Tokens(draft) \subseteq Reachable
        BY <1>1, <3>2, <3>3, UploadOf, AroundTypes
      <4>2. /\ \A b \in Channels : stored'[b] = stored[b] \/ Tokens(stored'[b]) \subseteq Reachable
            /\ \A b \in Channels : \/ memory'[box.object][b] = memory[box.object][b]
                                   \/ Tokens(memory'[box.object][b]) \subseteq Reachable
        BY <3>2, <4>1, BoxTypes, UploadOf, SaveReach
      <4> QED
        BY <2>1, <4>2, AroundStep
    <3>4. CASE u.object # box.object
      <4>1. \A c \in Channels : memory'[box'.object][c] = memory[box.object][c]
        <5>1. memory' = [memory EXCEPT ![u.object][u.channel] = draft]
          BY <3>2 DEF SaveDraft
        <5> QED
          BY <2>1, <3>4, <5>1, UploadOf, BoxTypes DEF ComposerTypes
      <4>2. stored' = [stored EXCEPT ![u.channel] = draft]
        BY <3>2 DEF SaveDraft
      <4>3. Tokens(stored'[u.channel]) \subseteq reshown'
        <5>1. CASE UploadComplete(u)
          <6>1. stored' = [stored EXCEPT ![u.channel] = Uploaded(u)] /\ Tokens(Uploaded(u)) \subseteq reshown'
            BY <3>4, <5>1 DEF UploadComplete, SaveDraft
          <6> QED
            BY <6>1, UploadOf DEF ComposerTypes
        <5>2. CASE UploadError(u)
          <6>1. /\ stored' = stored \/ (d # NoDraft /\ stored' = [stored EXCEPT ![u.channel] = e])
                /\ Tokens(d) \subseteq reshown'
            BY <3>4, <5>2 DEF UploadError, SaveDraft
          <6>2. d # NoDraft => Tokens(e) \subseteq Tokens(d)
            BY UploadTokens
          <6>3. d # NoDraft /\ stored' = [stored EXCEPT ![u.channel] = e]
            BY <1>7, <2>3, <5>2 DEF UploadError, SaveDraft
          <6>4. stored'[u.channel] = e
            BY <6>3, UploadOf DEF ComposerTypes
          <6> HIDE DEF d, e
          <6> QED
            BY <6>1, <6>2, <6>3, <6>4
        <5> QED
          BY <1>7, <5>1, <5>2
      <4>4. \A c \in Channels : stored'[c] = stored[c] \/ Tokens(stored'[c]) \subseteq Reachable
        BY <1>1, <4>2, <4>3, UploadOf DEF ComposerTypes
      <4> QED
        BY <2>1, <4>1, <4>4, AroundStep
    <3> QED
      BY <3>3, <3>4
  <2> QED
    BY <2>2, <2>3
<1>8. CASE SubmitMessage \/ SubmitCommand
  <2>1. /\ \A s \in sends' : \/ s \in sends \/ s = Call("message hooks", "message")
                             \/ s = [Call("command hooks", "command") EXCEPT !.files = {}]
        /\ UNCHANGED <<stored, memory>>
    BY <1>8 DEF SubmitMessage, SubmitCommand
  <2> DEFINE m == Call("message hooks", "message")
             k == [Call("command hooks", "command") EXCEPT !.files = {}]
  <2>2. m.words = box.text /\ m.files = Draft.files /\ k.words = box.text /\ k.files = {}
    BY DEF Call
  <2>3. \A s \in sends' : s \in sends \/ s = m \/ s = k
    BY <2>1
  <2> HIDE DEF m, k
  <2>4. m.words \cup m.files \cup k.words \cup k.files \subseteq Reachable
    BY <1>1, <2>2, AroundTypes
  <2>5. /\ box' = [box EXCEPT !.submitting = TRUE] \/ box' = [box EXCEPT !.submitting = TRUE, !.text = {}]
    BY <1>8 DEF SubmitMessage, SubmitCommand
  <2>6. box'.text \subseteq box.text /\ box'.object = box.object
    BY <2>5 DEF ComposerTypes, Boxes
  <2>7. box'.text \subseteq Reachable
    BY <1>1, <2>6, AroundTypes
  <2> QED
    BY <2>1, <2>3, <2>4, <2>6, <2>7, AroundStep
<1>9. CASE SubmitReaction \/ OpenDialog
  <2>1. /\ box' = [box EXCEPT !.text = {}] /\ UNCHANGED sends
        /\ SaveDraft(box.object, box.channel, NoDraft) \/ UNCHANGED <<stored, memory>>
    BY <1>9 DEF SubmitReaction, OpenDialog
  <2>2. box'.text = {} /\ box'.object = box.object
    BY <2>1 DEF ComposerTypes, Boxes
  <2>3. Tokens(NoDraft) \subseteq Reachable /\ box'.text \subseteq Reachable
    BY <2>2, TokenFacts
  <2> QED
    BY <2>1, <2>2, <2>3, BoxTypes, SaveReach, AroundStep
<1>10. ASSUME NEW s \in sends, CommandAllowed(s) \/ CommandAsMessage(s)
       PROVE  Around' \subseteq Reachable
  <2>1. UNCHANGED <<box, stored, memory>>
    BY <1>10 DEF CommandAllowed, CommandAsMessage
  <2>2. \A o \in sends' : o \in sends \/ o.words \cup o.files \subseteq Reachable
    <3>1. CASE CommandAllowed(s)
      <4> DEFINE call == [s EXCEPT !.stage = "command"]
      <4>1. \A o \in sends' : o \in sends \/ o = call
        BY <3>1 DEF CommandAllowed
      <4>2. call.words = s.words /\ call.files = s.files
        BY CallOf DEF Calls
      <4> HIDE DEF call
      <4> QED
        BY <1>1, <4>1, <4>2, AroundTypes
    <3>2. CASE CommandAsMessage(s)
      <4> DEFINE props == IF s.object = box.object THEN [channel |-> box.channel, files |-> Draft.files]
                          ELSE left[s.object]
                 call == [s EXCEPT !.stage = "message hooks", !.to = props.channel, !.files = props.files]
      <4>1. /\ \A o \in sends' : o \in sends \/ o = call
            /\ s.object = box.object \/ props.files \subseteq reshown'
        BY <3>2 DEF CommandAsMessage
      <4>2. s.object = box.object => props.files = Draft.files
        OBVIOUS
      <4> HIDE DEF props
      <4>3. call.words = s.words /\ call.files = props.files
        BY CallOf DEF Calls
      <4> HIDE DEF call
      <4>4. s.words \cup props.files \subseteq Reachable
        BY <1>1, <4>1, <4>2, AroundTypes
      <4> QED
        BY <4>1, <4>3, <4>4
    <3> QED
      BY <1>10, <3>1, <3>2
  <2>3. box'.text \subseteq Reachable
    BY <1>1, <2>1, AroundTypes
  <2> QED
    BY <2>1, <2>2, <2>3, AroundStep
<1>11. ASSUME NEW s \in sends, CommandDone(s) \/ CommandFailed(s) \/ Sent(s) \/ Refused(s)
       PROVE  Around' \subseteq Reachable
  <2>1. /\ \A c \in Channels : stored'[c] = NoDraft \/ stored'[c] = stored[c]
        /\ \A o \in 1..Mounts, c \in Channels : memory'[o][c] = memory[o][c] \/ memory'[o][c] = NoDraft
        /\ sends' = sends \ {s}
    BY <1>11, EndDrafts
  <2>2. box'.object = box.object /\ box'.text \subseteq box.text \cup s.words
    BY <1>11, EndBox
  <2>3. box'.text \subseteq Reachable
    BY <1>1, <2>2, AroundTypes
  <2> QED
    BY <2>1, <2>2, <2>3, BoxTypes, TokenFacts, AroundStep
<1>12. ASSUME NEW i, PostCreated(i)
       PROVE  Around' \subseteq Reachable
  <2>1. box'.text \subseteq Reachable
    BY <1>1, <1>12, CreatedEffect, AroundTypes
  <2>2. \A c \in Channels : stored'[c] = stored[c] \/ Tokens(stored'[c]) \subseteq Reachable
    BY <1>12, CreatedEffect, TokenFacts
  <2> QED
    BY <1>12, <2>1, <2>2, CreatedEffect, AroundStep
<1> QED
  BY <1>2, <1>3, <1>4, <1>5, <1>6, <1>7, <1>8, <1>9, <1>10, <1>11, <1>12 DEF ComposerNext


\* What was only in the draft that is cleared is in no draft any more.
LEMMA DraftsGone ==
  ASSUME ComposerTypes, Located, NEW c \in Channels, NEW t, t \notin reshown, home[t] = c,
         box'.object = box.object,
         \A e \in Channels : stored'[e] = NoDraft \/ stored'[e] = stored[e],
         \A e \in Channels : \/ memory'[box.object][e] = memory[box.object][e]
                             \/ memory'[box.object][e] = NoDraft,
         stored'[c] = NoDraft, memory'[box.object][c] = NoDraft
  PROVE  \A e \in Channels : t \notin Tokens(stored'[e]) \cup Tokens(memory'[box'.object][e])
<1> SUFFICES ASSUME NEW e \in Channels
             PROVE  t \notin Tokens(stored'[e]) \cup Tokens(memory'[box.object][e])
  OBVIOUS
<1>1. CASE e = c
  BY <1>1, TokenFacts
<1>2. CASE e # c
  <2>1. t \notin Tokens(stored[e]) \cup Tokens(memory[box.object][e])
    BY <1>2, BoxTypes DEF Located, At
  <2> QED
    BY <2>1, TokenFacts
<1> QED
  BY <1>1, <1>2

LEMMA PostingStep ==
  ASSUME ComposerTypes, NoSecondCopy, OncePosted, FreshMemory, ComposerNext, NEW T,
         PostTokens' \subseteq PostTokens \cup T,
         \A t \in T \ reshown' : t \notin Around'
  PROVE  OncePosted'
<1> SUFFICES ASSUME NEW t \in PostTokens, t \in Around'
             PROVE  t \in reshown'
  BY DEF OncePosted
<1>1. t \in Reachable
  BY AroundGrows
<1>2. t \in EnteredWords \cup EnteredFiles
  BY PostTokensTypes
<1>3. ~(t \in Words \cup Files /\ home[t] = "nowhere")
  BY <1>2, ComposerAssumption DEF EnteredWords, EnteredFiles
<1>4. \A u \in uploads : u.file # t
  BY UploadOf DEF NoSecondCopy, FilesHeld
<1> QED
  BY <1>1, <1>3, <1>4, HistoryGrows DEF Reachable, OncePosted

LEMMA PostedGrows ==
  ASSUME ComposerTypes, NEW s \in sends, CommandDone(s) \/ Sent(s)
  PROVE  PostTokens' \subseteq PostTokens \cup (s.words \cup s.files) /\ posted' # posted
<1>1. PICK p \in {[to |-> s.from, words |-> s.words, files |-> {}],
                  [to |-> s.to, words |-> s.words, files |-> s.files]} : posted' = Append(posted, p)
  BY DEF CommandDone, Sent
<1>2. p \in PostedRecords
  BY CallOf DEF PostedRecords
<1>3. p.words \cup p.files \subseteq s.words \cup s.files
  OBVIOUS
<1>4. posted' # posted
  <2>1. posted \in Seq(PostedRecords)
    BY DEF ComposerTypes
  <2> QED
    BY <1>1, <1>2, <2>1
<1> QED
  BY <1>1, <1>2, <1>3, <1>4, PostTokensStep

\* A call that ends: what it held is nowhere else, unless it is shown again.
LEMMA EndGone ==
  ASSUME ComposerTypes, CallsMeanIt, Located, OnceSent, ComposerNext, NEW s \in sends,
         CommandDone(s) \/ Sent(s)
  PROVE  \A t \in (s.words \cup s.files) \ reshown' : t \notin Around'
<1> SUFFICES ASSUME NEW t \in s.words \cup s.files, t \notin reshown'
             PROVE  t \notin Around'
  OBVIOUS
<1>1. /\ stored'[s.from] = NoDraft /\ memory'[s.object][s.from] = NoDraft
      /\ \A c \in Channels : stored'[c] = NoDraft \/ stored'[c] = stored[c]
      /\ \A o \in 1..Mounts, c \in Channels : memory'[o][c] = memory[o][c] \/ memory'[o][c] = NoDraft
      /\ sends' = sends \ {s}
  BY EndDrafts
<1>2. /\ box'.object = box.object
      /\ reshown \cup UNION {o.words \cup o.files : o \in sends \ {s}} \subseteq reshown'
  BY EndBox
<1>3. /\ s.object = box.object /\ s.from = box.channel /\ s.to = s.from /\ t \notin reshown
      /\ t \in s.words /\ t \in box.text => box.submitting /\ s.kind = "message"
  BY <1>2 DEF OnceSent
<1>4. t \notin SendTokens'
  BY <1>1, <1>2 DEF SendTokens
<1>5. home[t] = s.from
  BY <1>3 DEF Located, At
<1>6. \A c \in Channels : t \notin Tokens(stored'[c]) \cup Tokens(memory'[box'.object][c])
  BY <1>1, <1>2, <1>3, <1>5, BoxTypes, CallOf, DraftsGone
<1>7. t \notin box'.text
  <2>1. t \in box.text => t \in s.words
    BY CallOf, BoxTypes, ComposerAssumption DEF EnteredWords, EnteredFiles
  <2>2. CommandDone(s) => s.kind # "message"
    BY DEF CommandDone, CallsMeanIt
  <2>3. CASE t \in box.text
    <3>1. s.kind = "message"
      BY <1>3, <2>1, <2>3
    <3> QED
      BY <1>3, <2>2, <3>1, EndBox
  <2>4. CASE t \notin box.text
    <3>1. ~CommandFailed(s) \/ box'.text \subseteq box.text
      <4>1. CommandDone(s) \/ Sent(s) => posted' # posted
        BY PostedGrows
      <4> QED
        BY <4>1 DEF CommandFailed
    <3> QED
      BY <2>4, <3>1, EndBox
  <2> QED
    BY <2>3, <2>4
<1> QED
  BY <1>4, <1>6, <1>7 DEF Around

LEMMA NextOncePosted ==
  ASSUME ComposerTypes, CallsMeanIt, FreshMemory, Located, NoSecondCopy, OnceSent, OncePosted,
         ComposerNext
  PROVE  OncePosted'
<1>1. CASE UNCHANGED posted
  <2>1. PostTokens' \subseteq PostTokens \cup {}
    BY <1>1 DEF PostTokens, ToSet
  <2> QED
    BY <2>1, PostingStep
<1>2. CASE SubmitReaction
  <2> DEFINE p == [to |-> box.channel, words |-> box.text, files |-> {}]
  <2>1. /\ posted' = Append(posted, p) /\ box' = [box EXCEPT !.text = {}]
        /\ SaveDraft(box.object, box.channel, NoDraft)
        /\ UNCHANGED <<sends, reshown>> /\ ~box.submitting
    BY <1>2 DEF SubmitReaction, MaySubmit
  <2>2. p \in PostedRecords /\ p.words \cup p.files = box.text
    BY BoxTypes DEF PostedRecords
  <2> HIDE DEF p
  <2>3. PostTokens' \subseteq PostTokens \cup box.text
    BY <2>1, <2>2, PostTokensStep
  <2>4. box'.text = {} /\ box'.object = box.object
    BY <2>1 DEF ComposerTypes, Boxes
  <2>5. /\ stored' = [stored EXCEPT ![box.channel] = NoDraft]
        /\ memory' = [memory EXCEPT ![box.object][box.channel] = NoDraft]
    BY <2>1 DEF SaveDraft
  <2>6. /\ \A c \in Channels : stored'[c] = NoDraft \/ stored'[c] = stored[c]
        /\ stored'[box.channel] = NoDraft /\ memory'[box.object][box.channel] = NoDraft
        /\ \A c \in Channels : \/ memory'[box.object][c] = memory[box.object][c]
                               \/ memory'[box.object][c] = NoDraft
    BY <2>5, BoxTypes DEF ComposerTypes
  <2>7. ASSUME NEW t \in box.text \ reshown'
        PROVE  t \notin Around'
    <3>1. t \notin SendTokens'
      <4>1. \A s \in sends : t \notin s.files
        BY CallOf, BoxTypes, ComposerAssumption DEF EnteredWords, EnteredFiles
      <4>2. \A s \in sends : t \notin s.words
        BY <2>1 DEF OnceSent
      <4> QED
        BY <2>1, <4>1, <4>2 DEF SendTokens
    <3>2. home[t] = box.channel /\ t \notin reshown
      BY <2>1 DEF Located, At
    <3>3. \A c \in Channels : t \notin Tokens(stored'[c]) \cup Tokens(memory'[box'.object][c])
      BY <2>4, <2>6, <3>2, BoxTypes, DraftsGone
    <3> QED
      BY <2>4, <3>1, <3>3 DEF Around
  <2> QED
    BY <2>3, <2>7, PostingStep
<1>3. ASSUME NEW s \in sends, CommandDone(s) \/ Sent(s)
      PROVE  OncePosted'
  <2>1. PostTokens' \subseteq PostTokens \cup (s.words \cup s.files)
    BY <1>3, PostedGrows
  <2> QED
    BY <1>3, <2>1, EndGone, PostingStep
<1> QED
  BY <1>1, <1>2, <1>3, CreatedEffect DEF ComposerNext, Type, Insert, SwitchChannel, Remount,
     UploadStart, RemovePreview, UploadComplete, UploadError, SubmitMessage, SubmitCommand, OpenDialog,
     CommandAllowed, CommandAsMessage, CommandFailed, Refused

LEMMA NextOnceSent ==
  ASSUME ComposerTypes, CallsMeanIt, Located, OnceSent, ComposerNext
  PROVE  OnceSent'
<1>1. CASE \/ \E c \in Channels : SwitchChannel(c)
           \/ Remount
  <2>1. /\ UNCHANGED sends
        /\ reshown' = reshown \cup UNION {s.words \cup s.files : s \in sends}
    BY <1>1 DEF SwitchChannel, Remount
  <2> QED
    BY <2>1 DEF OnceSent
<1>2. ASSUME NEW s \in sends, CommandDone(s) \/ CommandFailed(s) \/ Sent(s) \/ Refused(s)
      PROVE  OnceSent'
  <2>1. sends' = sends \ {s}
    BY <1>2, EndDrafts
  <2>2. UNION {o.words \cup o.files : o \in sends \ {s}} \subseteq reshown'
    BY <1>2, EndBox
  <2> QED
    BY <2>1, <2>2 DEF OnceSent
<1>3. ASSUME NEW w \in Words,
             \/ Type(w)
             \/ \E before \in SUBSET box.text : Insert(w, before)
      PROVE  OnceSent'
  <2>1. /\ home[w] = "nowhere" /\ UNCHANGED <<sends, reshown>>
        /\ \/ box' = [box EXCEPT !.text = @ \cup {w}]
           \/ \E before \in SUBSET box.text : box' = [box EXCEPT !.text = before \cup {w}]
    BY <1>3 DEF Type, Insert
  <2>2. /\ box'.object = box.object /\ box'.channel = box.channel /\ box'.submitting = box.submitting
        /\ box'.text \subseteq box.text \cup {w}
    BY <2>1 DEF ComposerTypes, Boxes
  <2>3. \A s \in sends : w \notin s.words
    BY <2>1, CallOf DEF EnteredWords
  <2> QED
    BY <2>1, <2>2, <2>3 DEF OnceSent
<1>4. CASE \/ \E f \in Files : UploadStart(f) \/ RemovePreview(f)
           \/ \E u \in uploads : UploadComplete(u) \/ UploadError(u)
  <2>1. UNCHANGED <<box, sends>>
    BY <1>4 DEF UploadStart, RemovePreview, UploadComplete, UploadError
  <2> QED
    BY <2>1, HistoryGrows DEF OnceSent
<1>5. CASE SubmitReaction \/ OpenDialog
  <2>1. UNCHANGED <<sends, reshown>> /\ box' = [box EXCEPT !.text = {}]
    BY <1>5 DEF SubmitReaction, OpenDialog
  <2>2. box'.object = box.object /\ box'.channel = box.channel /\ box'.text = {}
    BY <2>1 DEF ComposerTypes, Boxes
  <2> QED
    BY <2>1, <2>2 DEF OnceSent
<1>6. CASE SubmitMessage
  <2> DEFINE call == Call("message hooks", "message")
  <2>1. /\ sends' = sends \cup {call} /\ UNCHANGED reshown
        /\ box' = [box EXCEPT !.submitting = TRUE]
    BY <1>6 DEF SubmitMessage
  <2>2. /\ box'.object = box.object /\ box'.channel = box.channel /\ box'.text = box.text
        /\ box'.submitting = TRUE
    BY <2>1 DEF ComposerTypes, Boxes
  <2>3. /\ call.object = box.object /\ call.from = box.channel /\ call.to = call.from
        /\ call.kind = "message"
    BY DEF Call
  <2> HIDE DEF call
  <2> QED
    BY <2>1, <2>2, <2>3 DEF OnceSent
<1>7. CASE SubmitCommand
  <2> DEFINE call == [Call("command hooks", "command") EXCEPT !.files = {}]
  <2>1. /\ sends' = sends \cup {call} /\ UNCHANGED reshown
        /\ box' = [box EXCEPT !.submitting = TRUE, !.text = {}]
    BY <1>7 DEF SubmitCommand
  <2>2. box'.object = box.object /\ box'.channel = box.channel /\ box'.text = {}
    BY <2>1 DEF ComposerTypes, Boxes
  <2>3. call.object = box.object /\ call.from = box.channel /\ call.to = call.from
    BY DEF Call
  <2> HIDE DEF call
  <2> QED
    BY <2>1, <2>2, <2>3 DEF OnceSent
<1>8. ASSUME NEW s \in sends, CommandAllowed(s)
      PROVE  OnceSent'
  <2> DEFINE call == [s EXCEPT !.stage = "command"]
  <2>1. sends' = (sends \ {s}) \cup {call} /\ UNCHANGED <<box, reshown>>
    BY <1>8 DEF CommandAllowed
  <2>2. /\ call.words = s.words /\ call.files = s.files /\ call.from = s.from /\ call.to = s.to
        /\ call.object = s.object /\ call.kind = s.kind
    BY CallOf DEF Calls
  <2> HIDE DEF call
  <2> QED
    BY <2>1, <2>2 DEF OnceSent
<1>9. ASSUME NEW s \in sends, CommandAsMessage(s)
      PROVE  OnceSent'
  <2> DEFINE props == IF s.object = box.object THEN [channel |-> box.channel, files |-> Draft.files]
                      ELSE left[s.object]
             call == [s EXCEPT !.stage = "message hooks", !.to = props.channel, !.files = props.files]
  <2>1. /\ sends' = (sends \ {s}) \cup {call} /\ UNCHANGED box
        /\ reshown' = IF s.object = box.object /\ props.channel = s.from THEN reshown
                      ELSE reshown \cup props.files
        /\ s.stage = "command"
    BY <1>9 DEF CommandAsMessage
  <2>2. s.object = box.object => props.channel = box.channel
    OBVIOUS
  <2> HIDE DEF props
  <2>3. /\ call.words = s.words /\ call.files = props.files /\ call.from = s.from
        /\ call.to = props.channel /\ call.object = s.object /\ call.kind = s.kind
    BY CallOf DEF Calls
  <2>4. s.files = {} /\ s.kind = "command"
    BY <2>1 DEF CallsMeanIt
  <2> HIDE DEF call
  <2>5. ASSUME NEW t \in (call.words \cup call.files) \ reshown'
        PROVE  /\ call.object = box.object /\ call.from = box.channel /\ call.to = call.from
               /\ t \in call.words /\ t \in box.text => box.submitting /\ call.kind = "message"
    BY <2>1, <2>2, <2>3, <2>4 DEF OnceSent
  <2>6. \A o \in sends : \A t \in (o.words \cup o.files) \ reshown' :
           /\ o.object = box.object /\ o.from = box.channel /\ o.to = o.from
           /\ t \in o.words /\ t \in box.text => box.submitting /\ o.kind = "message"
    BY <2>1 DEF OnceSent
  <2> QED
    BY <2>1, <2>5, <2>6 DEF OnceSent
<1>10. ASSUME NEW i, PostCreated(i)
       PROVE  OnceSent'
  BY <1>10, CreatedEffect DEF OnceSent
<1> QED
  BY <1>1, <1>2, <1>3, <1>4, <1>5, <1>6, <1>7, <1>8, <1>9, <1>10 DEF ComposerNext


----------------------------------------------------------------------------
(* A file that is uploaded is nowhere else yet.                            *)

LEMMA PostTokensGrow ==
  ASSUME ComposerTypes, ComposerNext
  PROVE  PostTokens' \subseteq PostTokens \cup box.text \cup SendTokens /\ PostTokens \subseteq PostTokens'
<1>1. CASE UNCHANGED posted
  BY <1>1 DEF PostTokens, ToSet
<1>2. CASE SubmitReaction
  <2> DEFINE p == [to |-> box.channel, words |-> box.text, files |-> {}]
  <2>1. posted' = Append(posted, p)
    BY <1>2 DEF SubmitReaction
  <2>2. p \in PostedRecords /\ p.words \cup p.files = box.text
    BY BoxTypes DEF PostedRecords
  <2> HIDE DEF p
  <2> QED
    BY <2>1, <2>2, PostTokensStep
<1>3. ASSUME NEW s \in sends, CommandDone(s) \/ Sent(s)
      PROVE  PostTokens' \subseteq PostTokens \cup box.text \cup SendTokens /\ PostTokens \subseteq PostTokens'
  <2>1. PICK p \in {[to |-> s.from, words |-> s.words, files |-> {}],
                    [to |-> s.to, words |-> s.words, files |-> s.files]} : posted' = Append(posted, p)
    BY <1>3 DEF CommandDone, Sent
  <2>2. p \in PostedRecords /\ p.words \cup p.files \subseteq s.words \cup s.files
    BY CallOf DEF PostedRecords
  <2>3. s.words \cup s.files \subseteq SendTokens
    BY CallOf DEF SendTokens, EnteredWords, EnteredFiles
  <2> QED
    BY <2>1, <2>2, <2>3, PostTokensStep
<1> QED
  BY <1>1, <1>2, <1>3, CreatedEffect DEF ComposerNext, Type, Insert, SwitchChannel, Remount,
     UploadStart, RemovePreview, UploadComplete, UploadError, SubmitMessage, SubmitCommand, OpenDialog,
     CommandAllowed, CommandAsMessage, CommandFailed, Refused

LEMMA FileStep ==
  ASSUME ComposerTypes, ComposerNext, NEW f \in Files \ FilesHeld,
         \A c \in Channels : stored'[c] = stored[c] \/ f \notin FilesOf(stored'[c]),
         \A o \in 1..Mounts, c \in Channels :
            memory'[o][c] = memory[o][c] \/ f \notin FilesOf(memory'[o][c]),
         \A o \in 1..Mounts : left'[o] = left[o] \/ f \notin left'[o].files,
         \A s \in sends' : s \in sends \/ f \notin s.files
  PROVE  f \notin FilesHeld'
<1>1. \A c \in Channels : f \notin FilesOf(stored'[c])
  BY DEF FilesHeld
<1>2. \A o \in 1..Mounts, c \in Channels : f \notin FilesOf(memory'[o][c])
  BY DEF FilesHeld
<1>3. \A o \in 1..Mounts : f \notin left'[o].files
  BY DEF FilesHeld
<1>4. f \notin SendTokens'
  <2>1. \A s \in sends' : f \notin s.words
    BY NextTypes, ComposerAssumption DEF ComposerTypes, Calls, EnteredWords
  <2>2. \A s \in sends : f \notin s.files
    BY DEF FilesHeld, SendTokens
  <2> QED
    BY <2>1, <2>2 DEF SendTokens
<1>5. f \notin PostTokens'
  BY PostTokensGrow, BoxTypes, ComposerAssumption DEF FilesHeld, EnteredWords
<1> QED
  BY <1>1, <1>2, <1>3, <1>4, <1>5 DEF FilesHeld, FilesOf

\* A draft without the file is saved.
LEMMA SaveFile ==
  ASSUME ComposerTypes, NEW o \in 1..Mounts, NEW c \in Channels, NEW draft, SaveDraft(o, c, draft),
         NEW f, f \notin FilesOf(draft)
  PROVE  /\ \A b \in Channels : stored'[b] = stored[b] \/ f \notin FilesOf(stored'[b])
         /\ \A m \in 1..Mounts, b \in Channels :
               memory'[m][b] = memory[m][b] \/ f \notin FilesOf(memory'[m][b])
<1>1. /\ stored' = [stored EXCEPT ![c] = draft]
      /\ memory' = [memory EXCEPT ![o][c] = draft]
  BY DEF SaveDraft
<1>2. \A b \in Channels : stored'[b] = stored[b] \/ (b = c /\ stored'[b] = draft)
  BY <1>1 DEF ComposerTypes
<1>3. \A m \in 1..Mounts, b \in Channels :
         memory'[m][b] = memory[m][b] \/ (m = o /\ b = c /\ memory'[m][b] = draft)
  BY <1>1 DEF ComposerTypes
<1> QED
  BY <1>2, <1>3

LEMMA NotHeld ==
  ASSUME ComposerTypes, NEW f \in Files \ FilesHeld
  PROVE  /\ f \notin Draft.files
         /\ \A o \in 1..Mounts, c \in Channels : f \notin FilesOf(memory[o][c])
         /\ \A o \in 1..Mounts : f \notin left[o].files
         /\ \A s \in sends : f \notin s.files
<1>1. f \notin FilesOf(stored[box.channel])
  BY BoxTypes DEF FilesHeld
<1>2. f \notin Draft.files
  BY <1>1 DEF Draft, DraftIn, FilesOf, EmptyDraft
<1> QED
  BY <1>2 DEF FilesHeld, SendTokens

\* Only the end of its upload puts a file anywhere.
LEMMA FilesHeldStep ==
  ASSUME ComposerTypes, ComposerNext, NEW f \in Files \ FilesHeld,
         ~\E u \in uploads : u.file = f /\ UploadComplete(u)
  PROVE  f \notin FilesHeld'
<1>1. ASSUME NEW w \in Words, Type(w) \/ Insert(w, box.text) \/ Insert(w, {})
      PROVE  f \notin FilesHeld'
  <2>1. UNCHANGED <<sends, left>>
    BY <1>1 DEF Type, Insert
  <2>2. CASE Type(w)
    <3>1. PICK draft : SaveDraft(box.object, box.channel, draft) /\ draft.files = Draft.files
      BY <2>2, WriteDraft
    <3>2. f \notin FilesOf(draft)
      BY <3>1, NotHeld DEF FilesOf
    <3> QED
      BY <2>1, <3>1, <3>2, BoxTypes, SaveFile, FileStep
  <2>3. CASE ~Type(w)
    <3>1. UNCHANGED <<stored, memory>>
      BY <1>1, <2>3 DEF Insert
    <3> QED
      BY <2>1, <3>1, FileStep
  <2> QED
    BY <2>2, <2>3
<1>2. CASE \/ \E c \in Channels : SwitchChannel(c)
           \/ OpenDialog
  <2>1. UNCHANGED <<stored, memory, sends, left>>
    BY <1>2 DEF SwitchChannel, OpenDialog
  <2> QED
    BY <2>1, FileStep
<1>3. CASE Remount
  <2>1. /\ stored' = [c \in Channels |-> IF stored[c] = NoDraft THEN NoDraft
                                         ELSE [stored[c] EXCEPT !.up = {}]]
        /\ left' = [left EXCEPT ![box.object] = [channel |-> box.channel, files |-> Draft.files]]
        /\ UNCHANGED <<memory, sends>>
    BY <1>3 DEF Remount
  <2>2. ASSUME NEW c \in Channels
        PROVE  f \notin FilesOf(stored'[c])
    <3>1. f \notin FilesOf(stored[c])
      BY DEF FilesHeld
    <3>2. CASE stored[c] = NoDraft
      BY <2>1, <3>2 DEF FilesOf
    <3>3. CASE stored[c] # NoDraft
      <4>1. stored'[c] = [words |-> stored[c].words, files |-> stored[c].files, up |-> {}]
        BY <2>1, <3>3 DEF ComposerTypes, Drafts
      <4> QED
        BY <3>1, <3>3, <4>1 DEF FilesOf
    <3> QED
      BY <3>2, <3>3
  <2>3. \A o \in 1..Mounts : left'[o] = left[o] \/ f \notin left'[o].files
    BY <2>1, NotHeld DEF ComposerTypes
  <2> QED
    BY <2>1, <2>2, <2>3, FileStep
<1>4. ASSUME NEW g \in Files, UploadStart(g) \/ RemovePreview(g)
      PROVE  f \notin FilesHeld'
  <2>1. PICK draft : SaveDraft(box.object, box.channel, draft) /\ draft.files \subseteq Draft.files
    BY <1>4, StartDraft, RemoveDraft
  <2>2. f \notin FilesOf(draft)
    BY <2>1, NotHeld DEF FilesOf
  <2>3. UNCHANGED <<sends, left>>
    BY <1>4 DEF UploadStart, RemovePreview
  <2> QED
    BY <2>1, <2>2, <2>3, BoxTypes, SaveFile, FileStep
<1>5. ASSUME NEW u \in uploads, UploadComplete(u)
      PROVE  f \notin FilesHeld'
  <2> DEFINE d == memory[u.object][u.channel]
  <2>1. SaveDraft(u.object, u.channel, Uploaded(u)) /\ UNCHANGED <<sends, left>>
    BY <1>5 DEF UploadComplete
  <2>2. d # NoDraft => Uploaded(u).files = d.files \cup {u.file}
    BY UploadOf DEF Uploaded, Drafts
  <2>3. f \notin FilesOf(Uploaded(u))
    <3>1. CASE d = NoDraft
      BY <3>1 DEF Uploaded, FilesOf
    <3>2. CASE d # NoDraft
      <4>1. f \notin d.files
        BY <3>2, UploadOf, NotHeld DEF FilesOf
      <4> QED
        BY <1>5, <2>2, <3>2, <4>1 DEF FilesOf
    <3> QED
      BY <3>1, <3>2
  <2> QED
    BY <2>1, <2>3, UploadOf, SaveFile, FileStep
<1>6. ASSUME NEW u \in uploads, UploadError(u)
      PROVE  f \notin FilesHeld'
  <2> DEFINE d == memory[u.object][u.channel]
             e == [d EXCEPT !.up = @ \ {u.file}]
  <2>1. /\ UNCHANGED <<sends, left>>
        /\ \/ d # NoDraft /\ SaveDraft(u.object, u.channel, e)
           \/ UNCHANGED <<stored, memory>>
    BY <1>6 DEF UploadError
  <2>2. d # NoDraft => e.files = d.files
    BY UploadOf DEF Drafts
  <2>3. d # NoDraft => f \notin d.files
    BY UploadOf, NotHeld DEF FilesOf
  <2> HIDE DEF d, e
  <2>4. d # NoDraft => f \notin FilesOf(e)
    BY <2>2, <2>3 DEF FilesOf
  <2> QED
    BY <2>1, <2>4, UploadOf, SaveFile, FileStep
<1>7. CASE SubmitMessage \/ SubmitCommand
  <2> DEFINE m == Call("message hooks", "message")
             k == [Call("command hooks", "command") EXCEPT !.files = {}]
  <2>1. /\ \A s \in sends' : s \in sends \/ s = m \/ s = k
        /\ UNCHANGED <<stored, memory, left>>
    BY <1>7 DEF SubmitMessage, SubmitCommand
  <2>2. m.files = Draft.files /\ k.files = {}
    BY DEF Call
  <2> HIDE DEF m, k
  <2> QED
    BY <2>1, <2>2, NotHeld, FileStep
<1>8. CASE SubmitReaction
  <2>1. SaveDraft(box.object, box.channel, NoDraft) /\ UNCHANGED <<sends, left>>
    BY <1>8 DEF SubmitReaction
  <2>2. f \notin FilesOf(NoDraft)
    BY DEF FilesOf
  <2> QED
    BY <2>1, <2>2, BoxTypes, SaveFile, FileStep
<1>9. ASSUME NEW s \in sends, CommandAllowed(s)
      PROVE  f \notin FilesHeld'
  <2> DEFINE call == [s EXCEPT !.stage = "command"]
  <2>1. sends' = (sends \ {s}) \cup {call} /\ UNCHANGED <<stored, memory, left>>
    BY <1>9 DEF CommandAllowed
  <2>2. call.files = s.files
    BY CallOf DEF Calls
  <2> HIDE DEF call
  <2> QED
    BY <2>1, <2>2, NotHeld, FileStep
<1>10. ASSUME NEW s \in sends, CommandAsMessage(s)
       PROVE  f \notin FilesHeld'
  <2> DEFINE props == IF s.object = box.object THEN [channel |-> box.channel, files |-> Draft.files]
                      ELSE left[s.object]
             call == [s EXCEPT !.stage = "message hooks", !.to = props.channel, !.files = props.files]
  <2>1. sends' = (sends \ {s}) \cup {call} /\ UNCHANGED <<stored, memory, left>>
    BY <1>10 DEF CommandAsMessage
  <2>2. f \notin props.files
    BY CallOf, NotHeld
  <2> HIDE DEF props
  <2>3. call.files = props.files
    BY CallOf DEF Calls
  <2> HIDE DEF call
  <2> QED
    BY <2>1, <2>2, <2>3, FileStep
<1>11. ASSUME NEW s \in sends, CommandDone(s) \/ CommandFailed(s) \/ Sent(s) \/ Refused(s)
       PROVE  f \notin FilesHeld'
  <2>1. f \notin FilesOf(NoDraft)
    BY DEF FilesOf
  <2>2. /\ \A c \in Channels : stored'[c] = stored[c] \/ f \notin FilesOf(stored'[c])
        /\ \A o \in 1..Mounts, c \in Channels :
              memory'[o][c] = memory[o][c] \/ f \notin FilesOf(memory'[o][c])
        /\ sends' = sends \ {s} /\ UNCHANGED left
    BY <1>11, <2>1, EndDrafts
  <2> QED
    BY <2>2, FileStep
<1>12. ASSUME NEW i, PostCreated(i)
       PROVE  f \notin FilesHeld'
  <2>1. f \notin FilesOf(NoDraft)
    BY DEF FilesOf
  <2> QED
    BY <1>12, <2>1, CreatedEffect, FileStep
<1> QED
  BY <1>1, <1>2, <1>3, <1>4, <1>5, <1>6, <1>7, <1>8, <1>9, <1>10, <1>11, <1>12 DEF ComposerNext

LEMMA NextNoSecondCopy ==
  ASSUME ComposerTypes, NoSecondCopy, ComposerNext
  PROVE  NoSecondCopy'
<1>1. CASE uploads' \subseteq uploads
  <2>1. ASSUME NEW u \in uploads'
        PROVE  u.file \notin FilesHeld'
    <3>1. u.file \in Files \ FilesHeld
      BY <1>1, UploadOf DEF NoSecondCopy
    <3>2. ~\E v \in uploads : v.file = u.file /\ UploadComplete(v)
      BY <1>1, <2>1 DEF NoSecondCopy, UploadComplete
    <3> QED
      BY <3>1, <3>2, FilesHeldStep
  <2> QED
    BY <1>1, <2>1 DEF NoSecondCopy
<1>2. ASSUME NEW f \in Files, UploadStart(f)
      PROVE  NoSecondCopy'
  <2>1. /\ uploads' = uploads \cup {[file |-> f, channel |-> box.channel, object |-> box.object]}
        /\ home[f] = "nowhere"
    BY <1>2 DEF UploadStart
  <2>2. f \notin FilesHeld
    <3>1. f \notin EnteredFiles /\ f \notin EnteredWords
      BY <2>1 DEF EnteredFiles, EnteredWords
    <3>2. f \notin SendTokens \cup PostTokens
      BY <3>1, CallOf, PostTokensTypes DEF SendTokens
    <3>3. \A d \in Drafts : f \notin FilesOf(d)
      BY <3>1 DEF Drafts, FilesOf
    <3> QED
      BY <3>1, <3>2, <3>3 DEF FilesHeld, ComposerTypes, Leavings
  <2>3. \A u \in uploads : u.file # f
    BY <2>1, UploadOf DEF EnteredFiles
  <2>4. ASSUME NEW u \in uploads'
        PROVE  u.file \notin FilesHeld'
    <3>1. u.file \in Files \ FilesHeld
      BY <2>1, <2>2, UploadOf DEF NoSecondCopy
    <3>2. ~\E v \in uploads : v.file = u.file /\ UploadComplete(v)
      <4>1. \A v \in uploads : ~UploadComplete(v)
        BY <1>2, <2>1, <2>3 DEF UploadComplete
      <4> QED
        BY <4>1
    <3> QED
      BY <3>1, <3>2, FilesHeldStep
  <2> QED
    BY <2>1, <2>3, <2>4 DEF NoSecondCopy
<1> QED
  BY <1>1, <1>2, EndDrafts, CreatedEffect DEF ComposerNext, Type, Insert, SwitchChannel, Remount,
     RemovePreview, UploadComplete, UploadError, SubmitMessage, SubmitCommand, SubmitReaction,
     OpenDialog, CommandAllowed, CommandAsMessage


----------------------------------------------------------------------------
(* Nothing is lost.                                                        *)

LEMMA AccountedGrows ==
  ASSUME ComposerTypes, CallsMeanIt, ComposerNext
  PROVE  Accounted \subseteq Accounted'
<1>1. /\ dropped \subseteq dropped' /\ excused \subseteq excused' /\ PostTokens \subseteq PostTokens'
  BY HistoryGrows, PostTokensGrow
<1>2. ASSUME sends \subseteq sends'
      PROVE  SendTokens \subseteq SendTokens'
  BY <1>2 DEF SendTokens
<1>3. ASSUME NEW s \in sends, CommandAllowed(s) \/ CommandAsMessage(s)
      PROVE  SendTokens \subseteq SendTokens'
  <2>1. PICK call : /\ sends' = (sends \ {s}) \cup {call}
                    /\ s.words \cup s.files \subseteq call.words \cup call.files
    <3>1. CASE CommandAllowed(s)
      <4> DEFINE call == [s EXCEPT !.stage = "command"]
      <4>1. sends' = (sends \ {s}) \cup {call}
        BY <3>1 DEF CommandAllowed
      <4>2. call.words = s.words /\ call.files = s.files
        BY CallOf DEF Calls
      <4> HIDE DEF call
      <4> QED
        BY <4>1, <4>2
    <3>2. CASE CommandAsMessage(s)
      <4> DEFINE props == IF s.object = box.object THEN [channel |-> box.channel, files |-> Draft.files]
                          ELSE left[s.object]
                 call == [s EXCEPT !.stage = "message hooks", !.to = props.channel, !.files = props.files]
      <4>1. sends' = (sends \ {s}) \cup {call} /\ s.files = {}
        BY <3>2 DEF CommandAsMessage, CallsMeanIt
      <4> HIDE DEF props
      <4>2. call.words = s.words
        BY CallOf DEF Calls
      <4> HIDE DEF call
      <4> QED
        BY <4>1, <4>2
    <3> QED
      BY <1>3, <3>1, <3>2
  <2> QED
    BY <2>1 DEF SendTokens
<1>4. ASSUME NEW s \in sends, CommandDone(s) \/ CommandFailed(s) \/ Sent(s) \/ Refused(s)
      PROVE  SendTokens \subseteq Accounted'
  <2>1. SendTokens \subseteq SendTokens' \cup s.words \cup s.files
    <3>1. sends' = sends \ {s}
      BY <1>4, EndDrafts
    <3> QED
      BY <3>1 DEF SendTokens
  <2>2. CASE CommandFailed(s) \/ Refused(s)
    <3>1. s.words \subseteq excused' /\ (s.files \subseteq excused' \/ s.files = {})
      BY <2>2 DEF CommandFailed, Refused, CallsMeanIt
    <3> QED
      BY <2>1, <3>1 DEF Accounted
  <2>3. CASE CommandDone(s) \/ Sent(s)
    <3>1. PICK p \in {[to |-> s.from, words |-> s.words, files |-> {}],
                      [to |-> s.to, words |-> s.words, files |-> s.files]} :
             posted' = Append(posted, p) /\ s.words \cup s.files = p.words \cup p.files
      <4>1. CommandDone(s) => s.files = {}
        BY DEF CommandDone, CallsMeanIt
      <4> QED
        BY <2>3, <4>1 DEF CommandDone, Sent
    <3>2. p \in PostedRecords
      BY CallOf DEF PostedRecords
    <3>3. s.words \cup s.files \subseteq PostTokens'
      BY <3>1, <3>2, PostTokensStep
    <3> QED
      BY <2>1, <3>3 DEF Accounted
  <2> QED
    BY <1>4, <2>2, <2>3
<1>5. CASE UNCHANGED sends \/ SubmitMessage \/ SubmitCommand
  <2>1. sends \subseteq sends'
    BY <1>5 DEF SubmitMessage, SubmitCommand
  <2> QED
    BY <1>1, <1>2, <2>1 DEF Accounted
<1>6. SendTokens \subseteq Accounted'
  <2>1. \/ UNCHANGED sends \/ SubmitMessage \/ SubmitCommand
        \/ \E s \in sends : CommandAllowed(s) \/ CommandAsMessage(s)
        \/ \E s \in sends : CommandDone(s) \/ CommandFailed(s) \/ Sent(s) \/ Refused(s)
    BY CreatedEffect DEF ComposerNext, Type, Insert, SwitchChannel, Remount, UploadStart, RemovePreview,
           UploadComplete, UploadError, SubmitReaction, OpenDialog
  <2> QED
    BY <1>2, <1>3, <1>4, <1>5, <2>1 DEF Accounted
<1> QED
  BY <1>1, <1>6 DEF Accounted

\* What is fresh is not accounted for, and drafts hold what was entered.
LEMMA ContentFacts ==
  ASSUME ComposerTypes
  PROVE  /\ Content(NoDraft) = {} /\ Up(NoDraft) = {}
         /\ Content(Draft) = Draft.words \cup Draft.files
         /\ Content(Draft) = Content(stored[box.channel])
         /\ Draft.up = Up(stored[box.channel])
         /\ Draft.words \subseteq Words /\ Draft.files \subseteq Files
         /\ \A c \in Channels : /\ Content(stored[c]) \subseteq Words \cup Files
                                /\ Content(stored[c]) \cup Up(stored[c]) = Tokens(stored[c])
<1>1. EmptyDraft # NoDraft /\ EmptyDraft.words = {} /\ EmptyDraft.files = {} /\ EmptyDraft.up = {}
  BY DEF EmptyDraft, NoDraft
<1>2. Content(NoDraft) = {} /\ Up(NoDraft) = {}
  BY DEF Content, Up
<1>3. CASE stored[box.channel] = NoDraft
  <2>1. Draft = EmptyDraft
    BY <1>3 DEF Draft, DraftIn
  <2> QED
    BY <1>1, <1>2, <1>3, <2>1, BoxTypes, TokenFacts DEF Content, Up, Tokens
<1>4. CASE stored[box.channel] # NoDraft
  <2>1. Draft = stored[box.channel]
    BY <1>4 DEF Draft, DraftIn
  <2>2. stored[box.channel] \in Drafts
    BY BoxTypes DEF ComposerTypes
  <2>3. Draft.words \subseteq Words /\ Draft.files \subseteq Files
    BY <1>4, <2>1, <2>2 DEF Drafts, EnteredWords, EnteredFiles
  <2> QED
    BY <1>2, <1>4, <2>1, <2>3, TokenFacts DEF Content, Up, Tokens
<1> QED
  BY <1>3, <1>4

LEMMA AccountedTypes ==
  ASSUME ComposerTypes, NEW w, home[w] = "nowhere", w \in Words \cup Files
  PROVE  w \notin SendTokens \cup PostTokens
<1>1. w \notin EnteredWords \cup EnteredFiles
  BY DEF EnteredWords, EnteredFiles
<1> QED
  BY <1>1, CallOf, PostTokensTypes DEF SendTokens

\* Nothing but the box changes of what Saved is about.
LEMMA QuietSaved ==
  ASSUME ComposerTypes, CallsMeanIt, Saved, ComposerNext, UNCHANGED <<stored, memory, uploads>>,
         box'.object = box.object,
         \A s \in sends' : \E r \in sends : s.from = r.from /\ s.object = r.object,
         \A t \in Entered' \ Accounted' : t \in Entered /\ home'[t] = home[t],
         box'.text \ Accounted' = (Content(stored[box'.channel]) \cap Words) \ Accounted'
  PROVE  Saved'
<1>1. Accounted \subseteq Accounted'
  BY AccountedGrows
<1>2. TextSaved'
  BY DEF TextSaved
<1>3. UploadsAgree'
  BY <1>1 DEF UploadsAgree, Saved
<1>4. EnteredSaved'
  BY <1>1 DEF EnteredSaved, Saved
<1>5. CallsHoldAll'
  BY <1>1 DEF CallsHoldAll, Saved
<1>6. UploadsMarked'
  BY <1>1 DEF UploadsMarked, Saved
<1> QED
  BY <1>2, <1>3, <1>4, <1>5, <1>6 DEF Saved

LEMMA SameEntered ==
  ASSUME UNCHANGED home
  PROVE  \A t \in Entered' : t \in Entered /\ home'[t] = home[t]
BY DEF Entered

LEMMA BoxSaved ==
  ASSUME ComposerTypes, CallsMeanIt, Saved, ComposerNext,
         \/ \E w \in Words : Insert(w, box.text) \/ Insert(w, {})
         \/ \E c \in Channels : SwitchChannel(c)
         \/ OpenDialog
         \/ \E s \in sends : CommandAllowed(s) \/ CommandAsMessage(s)
  PROVE  Saved'
<1>1. Accounted \subseteq Accounted'
  BY AccountedGrows
<1>2. box.text \ Accounted' = (Content(stored[box.channel]) \cap Words) \ Accounted'
  BY <1>1 DEF Saved, TextSaved
<1>3. ASSUME NEW w \in Words, NEW before \in SUBSET box.text, Insert(w, before)
      PROVE  Saved'
  <2>1. /\ box' = [box EXCEPT !.text = before \cup {w}] /\ home' = [home EXCEPT ![w] = box.channel]
        /\ {w} \cup (box.text \ before) \subseteq excused'
        /\ UNCHANGED <<stored, memory, uploads, sends>>
    BY <1>3 DEF Insert
  <2>2. box'.object = box.object /\ box'.channel = box.channel /\ box'.text = before \cup {w}
    BY <2>1 DEF ComposerTypes, Boxes
  <2>3. {w} \cup (box.text \ before) \subseteq Accounted'
    BY <2>1 DEF Accounted
  <2>4. box'.text \ Accounted' = (Content(stored[box'.channel]) \cap Words) \ Accounted'
    BY <1>2, <2>2, <2>3
  <2>5. \A t \in Entered' \ Accounted' : t \in Entered /\ home'[t] = home[t]
    BY <2>1, <2>3 DEF Entered, ComposerTypes
  <2> QED
    BY <2>1, <2>2, <2>4, <2>5, QuietSaved
<1>4. ASSUME NEW c \in Channels, SwitchChannel(c)
      PROVE  Saved'
  <2>1. /\ box' = [box EXCEPT !.channel = c, !.text = DraftIn(stored, c).words, !.submitting = FALSE]
        /\ UNCHANGED <<stored, memory, uploads, sends, home>>
    BY <1>4 DEF SwitchChannel
  <2>2. box'.object = box.object /\ box'.channel = c /\ box'.text = DraftIn(stored, c).words
    BY <2>1 DEF ComposerTypes, Boxes
  <2>3. DraftIn(stored, c).words = Content(stored[c]) \cap Words
    <3>1. CASE stored[c] = NoDraft
      BY <3>1 DEF DraftIn, EmptyDraft, Content
    <3>2. CASE stored[c] # NoDraft
      <4>1. stored[c].words \subseteq Words /\ stored[c].files \subseteq Files
        BY <3>2 DEF ComposerTypes, Drafts, EnteredWords, EnteredFiles
      <4> QED
        BY <3>2, <4>1, ComposerAssumption DEF DraftIn, Content
    <3> QED
      BY <3>1, <3>2
  <2> QED
    BY <2>1, <2>2, <2>3, SameEntered, QuietSaved
<1>5. CASE OpenDialog
  <2>1. /\ box' = [box EXCEPT !.text = {}] /\ box.text \subseteq excused'
        /\ UNCHANGED <<stored, memory, uploads, sends, home>>
    BY <1>5 DEF OpenDialog
  <2>2. box'.object = box.object /\ box'.channel = box.channel /\ box'.text = {}
    BY <2>1 DEF ComposerTypes, Boxes
  <2>3. box'.text \ Accounted' = (Content(stored[box'.channel]) \cap Words) \ Accounted'
    BY <1>2, <2>1, <2>2 DEF Accounted
  <2> QED
    BY <2>1, <2>2, <2>3, SameEntered, QuietSaved
<1>6. ASSUME NEW s \in sends, CommandAllowed(s) \/ CommandAsMessage(s)
      PROVE  Saved'
  <2>1. UNCHANGED <<box, stored, memory, uploads, home>>
    BY <1>6 DEF CommandAllowed, CommandAsMessage
  <2>2. \A o \in sends' : \E r \in sends : o.from = r.from /\ o.object = r.object
    <3>1. CASE CommandAllowed(s)
      <4> DEFINE call == [s EXCEPT !.stage = "command"]
      <4>1. sends' = (sends \ {s}) \cup {call}
        BY <3>1 DEF CommandAllowed
      <4>2. call.from = s.from /\ call.object = s.object
        BY CallOf DEF Calls
      <4> HIDE DEF call
      <4> QED
        BY <4>1, <4>2
    <3>2. CASE CommandAsMessage(s)
      <4> DEFINE props == IF s.object = box.object THEN [channel |-> box.channel, files |-> Draft.files]
                          ELSE left[s.object]
                 call == [s EXCEPT !.stage = "message hooks", !.to = props.channel, !.files = props.files]
      <4>1. sends' = (sends \ {s}) \cup {call}
        BY <3>2 DEF CommandAsMessage
      <4> HIDE DEF props
      <4>2. call.from = s.from /\ call.object = s.object
        BY CallOf DEF Calls
      <4> HIDE DEF call
      <4> QED
        BY <4>1, <4>2
    <3> QED
      BY <1>6, <3>1, <3>2
  <2> QED
    BY <1>2, <2>1, <2>2, SameEntered, QuietSaved
<1> QED
  BY <1>3, <1>4, <1>5, <1>6


LEMMA SaveEffect ==
  ASSUME ComposerTypes, NEW o \in 1..Mounts, NEW c \in Channels, NEW draft, SaveDraft(o, c, draft)
  PROVE  /\ stored'[c] = draft /\ memory'[o][c] = draft
         /\ \A e \in Channels : e # c => stored'[e] = stored[e]
         /\ \A m \in 1..Mounts, e \in Channels : (m # o \/ e # c) => memory'[m][e] = memory[m][e]
BY DEF SaveDraft, ComposerTypes

\* The objects' numbers are in order of mounting.
LEMMA ObjectOrder ==
  ASSUME ComposerTypes
  PROVE  /\ box.object \in Nat
         /\ \A u \in uploads : u.object \in Nat /\ u.object <= box.object
         /\ \A s \in sends : s.object \in Nat /\ s.object <= box.object
<1>1. box.object \in Nat
  BY BoxTypes
<1> QED
  BY <1>1, UploadOf, CallOf

LEMMA TypeSaved ==
  ASSUME ComposerTypes, CallsMeanIt, Saved, ComposerNext, NEW w \in Words, Type(w)
  PROVE  Saved'
<1>1. Accounted \subseteq Accounted'
  BY AccountedGrows
<1>2. PICK draft : /\ SaveDraft(box.object, box.channel, draft)
                   /\ draft # NoDraft /\ draft.words = box.text \cup {w}
                   /\ draft.files = Draft.files /\ draft.up = Draft.up
  BY WriteDraft
<1>3. /\ home[w] = "nowhere" /\ box' = [box EXCEPT !.text = @ \cup {w}]
      /\ home' = [home EXCEPT ![w] = box.channel]
      /\ excused' = IF InTransit(box.channel) THEN excused \cup {w} ELSE excused
      /\ UNCHANGED <<uploads, sends>>
  BY DEF Type
<1>4. /\ box'.text = box.text \cup {w} /\ box'.object = box.object /\ box'.channel = box.channel
      /\ box.channel \in Channels /\ box.object \in 1..Mounts
  BY <1>3, BoxTypes DEF ComposerTypes, Boxes
<1>5. /\ stored'[box.channel] = draft /\ memory'[box.object][box.channel] = draft
      /\ \A e \in Channels : e # box.channel => stored'[e] = stored[e]
      /\ \A m \in 1..Mounts, e \in Channels :
            (m # box.object \/ e # box.channel) => memory'[m][e] = memory[m][e]
  BY <1>2, <1>4, SaveEffect
<1>6. /\ Content(draft) = box.text \cup {w} \cup Draft.files
      /\ Up(draft) = Up(stored[box.channel])
  BY <1>2, ContentFacts DEF Content, Up
<1>7. InTransit(box.channel) => w \in Accounted'
  BY <1>3 DEF Accounted
<1>8. box.text \subseteq Words /\ w \notin Files
  BY BoxTypes, ComposerAssumption DEF EnteredWords
<1>9. (box.text \cup Draft.files) \ Accounted = Content(stored[box.channel]) \ Accounted
  BY ContentFacts, ComposerAssumption DEF Saved, TextSaved
<1>10. TextSaved'
  BY <1>4, <1>5, <1>6, <1>8, ContentFacts, ComposerAssumption DEF TextSaved
<1>11. UploadsAgree'
  <2> SUFFICES ASSUME NEW u \in uploads
               PROVE  Content(memory'[u.object][u.channel]) \ Accounted'
                      = Content(stored'[u.channel]) \ Accounted'
    BY <1>3 DEF UploadsAgree
  <2>1. Content(memory[u.object][u.channel]) \ Accounted = Content(stored[u.channel]) \ Accounted
    BY DEF Saved, UploadsAgree
  <2>2. CASE u.channel # box.channel
    BY <1>1, <1>5, <2>1, <2>2, UploadOf
  <2>3. CASE u.channel = box.channel /\ u.object = box.object
    BY <1>5, <2>3
  <2>4. CASE u.channel = box.channel /\ u.object # box.object
    <3>1. w \in Accounted'
      BY <1>7, <2>4 DEF InTransit
    <3>2. memory'[u.object][u.channel] = memory[u.object][u.channel]
      BY <1>5, <2>4, UploadOf
    <3> QED
      BY <1>1, <1>5, <1>6, <1>9, <2>1, <2>4, <3>1, <3>2
  <2> QED
    BY <2>2, <2>3, <2>4
<1>12. EnteredSaved'
  <2> SUFFICES ASSUME NEW t \in Entered' \ Accounted'
               PROVE  (\E u \in uploads : u.file = t) \/ t \in Content(stored'[home'[t]])
    BY <1>3 DEF EnteredSaved
  <2>1. CASE t = w
    <3>1. home'[t] = box.channel
      BY <1>3, <2>1 DEF ComposerTypes
    <3> QED
      BY <1>5, <1>6, <2>1, <3>1
  <2>2. CASE t # w
    <3>1. home'[t] = home[t] /\ t \in Entered \ Accounted /\ home[t] \in Channels
      BY <1>1, <1>3, <2>2 DEF Entered, ComposerTypes
    <3>2. (\E u \in uploads : u.file = t) \/ t \in Content(stored[home[t]])
      BY <3>1 DEF Saved, EnteredSaved
    <3>3. CASE home[t] = box.channel
      BY <1>5, <1>6, <1>9, <3>1, <3>2, <3>3
    <3>4. CASE home[t] # box.channel
      BY <1>5, <3>1, <3>2, <3>4
    <3> QED
      BY <3>3, <3>4
  <2> QED
    BY <2>1, <2>2
<1>13. CallsHoldAll'
  <2> SUFFICES ASSUME NEW s \in sends
               PROVE  Content(stored'[s.from]) \subseteq Accounted'
    BY <1>3 DEF CallsHoldAll
  <2>1. Content(stored[s.from]) \subseteq Accounted
    BY DEF Saved, CallsHoldAll
  <2>2. CASE s.from = box.channel
    <3>1. w \in Accounted'
      BY <1>7, <2>2 DEF InTransit
    <3> QED
      BY <1>1, <1>5, <1>6, <1>9, <2>1, <2>2, <3>1
  <2>3. CASE s.from # box.channel
    BY <1>1, <1>5, <2>1, <2>3, CallOf
  <2> QED
    BY <2>2, <2>3
<1>14. UploadsMarked'
  <2> SUFFICES ASSUME NEW u \in uploads, u.file \notin Accounted'
               PROVE  /\ u.file \in Up(memory'[u.object][u.channel])
                      /\ u.object = box.object => u.file \in Up(stored'[u.channel])
                      /\ \A s \in sends : u.channel = s.from => u.object < s.object
                      /\ \A v \in uploads : u.channel = v.channel => u.object <= v.object
    BY <1>3, <1>4 DEF UploadsMarked
  <2>1. /\ u.file \in Up(memory[u.object][u.channel])
        /\ u.object = box.object => u.file \in Up(stored[u.channel])
        /\ \A s \in sends : u.channel = s.from => u.object < s.object
        /\ \A v \in uploads : u.channel = v.channel => u.object <= v.object
    BY <1>1 DEF Saved, UploadsMarked
  <2>2. u.object \in 1..Mounts /\ u.channel \in Channels
    BY UploadOf
  <2>3. u.file \in Up(memory'[u.object][u.channel])
    BY <1>5, <1>6, <2>1, <2>2
  <2>4. u.object = box.object => u.file \in Up(stored'[u.channel])
    BY <1>5, <1>6, <2>1, <2>2
  <2> QED
    BY <2>1, <2>3, <2>4
<1> QED
  BY <1>10, <1>11, <1>12, <1>13, <1>14 DEF Saved

LEMMA StartSaved ==
  ASSUME ComposerTypes, CallsMeanIt, Saved, ComposerNext, NEW f \in Files, UploadStart(f)
  PROVE  Saved'
<1> DEFINE new == [file |-> f, channel |-> box.channel, object |-> box.object]
<1>1. Accounted \subseteq Accounted'
  BY AccountedGrows
<1>2. PICK draft : /\ SaveDraft(box.object, box.channel, draft)
                   /\ draft # NoDraft /\ draft.words = Draft.words
                   /\ draft.files = Draft.files /\ draft.up = Draft.up \cup {f}
  BY StartDraft
<1>3. /\ home[f] = "nowhere" /\ uploads' = uploads \cup {new}
      /\ home' = [home EXCEPT ![f] = box.channel]
      /\ excused' = IF InTransit(box.channel) THEN excused \cup {f} ELSE excused
      /\ UNCHANGED <<box, sends>>
  BY DEF UploadStart
<1>4. /\ box.channel \in Channels /\ box.object \in 1..Mounts
      /\ new.file = f /\ new.channel = box.channel /\ new.object = box.object
  BY BoxTypes
<1> HIDE DEF new
<1>5. /\ stored'[box.channel] = draft /\ memory'[box.object][box.channel] = draft
      /\ \A e \in Channels : e # box.channel => stored'[e] = stored[e]
      /\ \A m \in 1..Mounts, e \in Channels :
            (m # box.object \/ e # box.channel) => memory'[m][e] = memory[m][e]
  BY <1>2, <1>4, SaveEffect
<1>6. /\ Content(draft) = Content(stored[box.channel])
      /\ Up(draft) = Up(stored[box.channel]) \cup {f}
  BY <1>2, ContentFacts DEF Content, Up
<1>7. InTransit(box.channel) => f \in Accounted'
  BY <1>3 DEF Accounted
<1>8. \A e \in Channels : Content(stored'[e]) = Content(stored[e])
  BY <1>5, <1>6
<1>9. TextSaved'
  BY <1>1, <1>3, <1>4, <1>8 DEF Saved, TextSaved
<1>10. UploadsAgree'
  <2> SUFFICES ASSUME NEW u \in uploads'
               PROVE  Content(memory'[u.object][u.channel]) \ Accounted'
                      = Content(stored'[u.channel]) \ Accounted'
    BY DEF UploadsAgree
  <2>1. CASE u.channel = box.channel /\ u.object = box.object
    BY <1>5, <2>1
  <2>2. CASE ~(u.channel = box.channel /\ u.object = box.object)
    <3>1. u \in uploads
      BY <1>3, <1>4, <2>2
    <3>2. Content(memory[u.object][u.channel]) \ Accounted = Content(stored[u.channel]) \ Accounted
      BY <3>1 DEF Saved, UploadsAgree
    <3>3. memory'[u.object][u.channel] = memory[u.object][u.channel]
      BY <1>5, <2>2, <3>1, UploadOf
    <3> QED
      BY <1>1, <1>8, <3>1, <3>2, <3>3, UploadOf
  <2> QED
    BY <2>1, <2>2
<1>11. EnteredSaved'
  <2> SUFFICES ASSUME NEW t \in Entered' \ Accounted', t # f
               PROVE  (\E u \in uploads' : u.file = t) \/ t \in Content(stored'[home'[t]])
    BY <1>3, <1>4 DEF EnteredSaved
  <2>1. home'[t] = home[t] /\ t \in Entered \ Accounted /\ home[t] \in Channels
    BY <1>1, <1>3 DEF Entered, ComposerTypes
  <2> QED
    BY <1>3, <1>8, <2>1 DEF Saved, EnteredSaved
<1>12. CallsHoldAll'
  BY <1>1, <1>3, <1>8, CallOf DEF Saved, CallsHoldAll
<1>13. UploadsMarked'
  <2> SUFFICES ASSUME NEW u \in uploads', u.file \notin Accounted'
               PROVE  /\ u.file \in Up(memory'[u.object][u.channel])
                      /\ u.object = box.object => u.file \in Up(stored'[u.channel])
                      /\ \A s \in sends : u.channel = s.from => u.object < s.object
                      /\ \A v \in uploads' : u.channel = v.channel => u.object <= v.object
    BY <1>3 DEF UploadsMarked
  <2>1. CASE u = new
    <3>1. ~InTransit(box.channel)
      BY <1>4, <1>7, <2>1
    <3>2. /\ \A s \in sends : u.channel # s.from
          /\ \A v \in uploads : u.channel = v.channel => v.object = box.object
      BY <1>4, <2>1, <3>1 DEF InTransit
    <3>3. \A v \in uploads' : u.channel = v.channel => u.object <= v.object
      BY <1>3, <1>4, <2>1, <3>2, ObjectOrder
    <3> QED
      BY <1>4, <1>5, <1>6, <2>1, <3>2, <3>3
  <2>2. CASE u \in uploads
    <3>1. /\ u.file \in Up(memory[u.object][u.channel])
          /\ u.object = box.object => u.file \in Up(stored[u.channel])
          /\ \A s \in sends : u.channel = s.from => u.object < s.object
          /\ \A v \in uploads : u.channel = v.channel => u.object <= v.object
      BY <1>1, <2>2 DEF Saved, UploadsMarked
    <3>2. u.object \in 1..Mounts /\ u.channel \in Channels
      BY <2>2, UploadOf
    <3>3. u.file \in Up(memory'[u.object][u.channel])
      BY <1>5, <1>6, <3>1, <3>2
    <3>4. u.object = box.object => u.file \in Up(stored'[u.channel])
      BY <1>5, <1>6, <3>1, <3>2
    <3>5. u.object <= new.object
      BY <1>4, <2>2, ObjectOrder
    <3> QED
      BY <1>3, <3>1, <3>3, <3>4, <3>5
  <2> QED
    BY <1>3, <2>1, <2>2
<1> QED
  BY <1>9, <1>10, <1>11, <1>12, <1>13 DEF Saved

LEMMA RemoveSaved ==
  ASSUME ComposerTypes, CallsMeanIt, Saved, ComposerNext, NEW f \in Files, RemovePreview(f)
  PROVE  Saved'
<1>1. Accounted \subseteq Accounted'
  BY AccountedGrows
<1>2. PICK draft : /\ SaveDraft(box.object, box.channel, draft)
                   /\ draft # NoDraft /\ draft.words = Draft.words
                   /\ \/ draft.files = Draft.files \ {f} /\ draft.up = Draft.up
                      \/ draft.files = Draft.files /\ draft.up = Draft.up \ {f}
  BY RemoveDraft
<1>3. /\ uploads' \subseteq uploads /\ \A u \in uploads : u.file # f => u \in uploads'
      /\ dropped' = dropped \cup {f}
      /\ UNCHANGED <<box, sends, home>>
  BY DEF RemovePreview
<1>4. box.channel \in Channels /\ box.object \in 1..Mounts /\ f \in Accounted'
  BY <1>3, BoxTypes DEF Accounted
<1>5. /\ stored'[box.channel] = draft /\ memory'[box.object][box.channel] = draft
      /\ \A e \in Channels : e # box.channel => stored'[e] = stored[e]
      /\ \A m \in 1..Mounts, e \in Channels :
            (m # box.object \/ e # box.channel) => memory'[m][e] = memory[m][e]
  BY <1>2, <1>4, SaveEffect
<1>6. /\ Content(draft) \ Accounted' = Content(stored[box.channel]) \ Accounted'
      /\ Up(stored[box.channel]) \subseteq Up(draft) \cup {f}
  BY <1>2, <1>4, ContentFacts DEF Content, Up
<1>7. \A e \in Channels : Content(stored'[e]) \ Accounted' = Content(stored[e]) \ Accounted'
  BY <1>5, <1>6
<1>8. TextSaved'
  BY <1>1, <1>3, <1>4, <1>7 DEF Saved, TextSaved
<1>9. UploadsAgree'
  <2> SUFFICES ASSUME NEW u \in uploads
               PROVE  Content(memory'[u.object][u.channel]) \ Accounted'
                      = Content(stored'[u.channel]) \ Accounted'
    BY <1>3 DEF UploadsAgree
  <2>1. CASE u.channel = box.channel /\ u.object = box.object
    BY <1>5, <2>1
  <2>2. CASE ~(u.channel = box.channel /\ u.object = box.object)
    <3>1. Content(memory[u.object][u.channel]) \ Accounted = Content(stored[u.channel]) \ Accounted
      BY DEF Saved, UploadsAgree
    <3>2. memory'[u.object][u.channel] = memory[u.object][u.channel]
      BY <1>5, <2>2, UploadOf
    <3> QED
      BY <1>1, <1>7, <3>1, <3>2, UploadOf
  <2> QED
    BY <2>1, <2>2
<1>10. EnteredSaved'
  <2> SUFFICES ASSUME NEW t \in Entered \ Accounted'
               PROVE  (\E u \in uploads' : u.file = t) \/ t \in Content(stored'[home[t]])
    BY <1>3 DEF EnteredSaved, Entered
  <2>1. home[t] \in Channels /\ t # f /\ t \notin Accounted
    BY <1>1, <1>4 DEF Entered, ComposerTypes
  <2> QED
    BY <1>3, <1>7, <2>1 DEF Saved, EnteredSaved
<1>11. CallsHoldAll'
  BY <1>1, <1>3, <1>7, CallOf DEF Saved, CallsHoldAll
<1>12. UploadsMarked'
  <2> SUFFICES ASSUME NEW u \in uploads, u.file \notin Accounted'
               PROVE  /\ u.file \in Up(memory'[u.object][u.channel])
                      /\ u.object = box.object => u.file \in Up(stored'[u.channel])
                      /\ \A s \in sends : u.channel = s.from => u.object < s.object
                      /\ \A v \in uploads : u.channel = v.channel => u.object <= v.object
    BY <1>3 DEF UploadsMarked
  <2>1. /\ u.file \in Up(memory[u.object][u.channel])
        /\ u.object = box.object => u.file \in Up(stored[u.channel])
        /\ \A s \in sends : u.channel = s.from => u.object < s.object
        /\ \A v \in uploads : u.channel = v.channel => u.object <= v.object
    BY <1>1 DEF Saved, UploadsMarked
  <2>2. u.object \in 1..Mounts /\ u.channel \in Channels /\ u.file # f
    BY <1>4, UploadOf
  <2>3. u.file \in Up(memory'[u.object][u.channel])
    BY <1>5, <1>6, <2>1, <2>2
  <2>4. u.object = box.object => u.file \in Up(stored'[u.channel])
    BY <1>5, <1>6, <2>1, <2>2
  <2> QED
    BY <2>1, <2>3, <2>4
<1> QED
  BY <1>8, <1>9, <1>10, <1>11, <1>12 DEF Saved


\* The draft that an upload saves differs from the store's in its file only.
LEMMA UploadSaved ==
  ASSUME ComposerTypes, CallsMeanIt, Located, NoSecondCopy, Saved, ComposerNext, NEW u \in uploads,
         NEW draft, SaveDraft(u.object, u.channel, draft),
         UNCHANGED <<box, sends, home>>, uploads' = uploads \ {u},
         LET d == memory[u.object][u.channel]
         IN  /\ Content(d) \subseteq Content(draft) /\ Content(draft) \subseteq Content(d) \cup {u.file}
             /\ Up(d) \subseteq Up(draft) \cup {u.file},
         u.file \in Content(draft) \cup Accounted',
         \A s \in sends : s.from = u.channel => u.file \in Accounted' \cup Content(memory[u.object][u.channel])
                                                \/ u.file \notin Content(draft),
         \A v \in uploads : v.channel = u.channel /\ v.object # u.object =>
            u.file \in Accounted' \/ u.file \notin Content(draft)
  PROVE  Saved'
<1> DEFINE d == memory[u.object][u.channel]
<1>1. Accounted \subseteq Accounted'
  BY AccountedGrows
<1>2. u.object \in 1..Mounts /\ u.channel \in Channels /\ u.file \in Files \ Words
  BY UploadOf, ComposerAssumption
<1>3. /\ stored'[u.channel] = draft /\ memory'[u.object][u.channel] = draft
      /\ \A e \in Channels : e # u.channel => stored'[e] = stored[e]
      /\ \A m \in 1..Mounts, e \in Channels :
            (m # u.object \/ e # u.channel) => memory'[m][e] = memory[m][e]
  BY <1>2, SaveEffect
<1>4. Content(d) \ Accounted = Content(stored[u.channel]) \ Accounted
  BY DEF Saved, UploadsAgree
<1>5. /\ Content(d) \subseteq Content(draft) /\ Content(draft) \subseteq Content(d) \cup {u.file}
      /\ Up(d) \subseteq Up(draft) \cup {u.file}
  OBVIOUS
<1> HIDE DEF d
<1>6. \A e \in Channels : e # u.channel => Content(stored'[e]) = Content(stored[e])
  BY <1>3
<1>7. TextSaved'
  <2>1. box.text \ Accounted' = (Content(stored[box.channel]) \cap Words) \ Accounted'
    BY <1>1 DEF Saved, TextSaved
  <2>2. CASE box.channel = u.channel
    BY <1>1, <1>2, <1>3, <1>4, <1>5, <2>1, <2>2 DEF TextSaved
  <2>3. CASE box.channel # u.channel
    BY <1>6, <2>1, <2>3, BoxTypes DEF TextSaved
  <2> QED
    BY <2>2, <2>3
<1>8. UploadsAgree'
  <2> SUFFICES ASSUME NEW v \in uploads
               PROVE  Content(memory'[v.object][v.channel]) \ Accounted'
                      = Content(stored'[v.channel]) \ Accounted'
    BY DEF UploadsAgree
  <2>1. Content(memory[v.object][v.channel]) \ Accounted = Content(stored[v.channel]) \ Accounted
    BY DEF Saved, UploadsAgree
  <2>2. CASE v.channel # u.channel
    BY <1>1, <1>3, <2>1, <2>2, UploadOf
  <2>3. CASE v.channel = u.channel /\ v.object = u.object
    BY <1>3, <2>3
  <2>4. CASE v.channel = u.channel /\ v.object # u.object
    <3>1. memory'[v.object][v.channel] = memory[v.object][v.channel]
      BY <1>3, <2>4, UploadOf
    <3>2. u.file \in Accounted' \/ u.file \notin Content(draft)
      BY <2>4
    <3>3. Content(draft) \ Accounted' = Content(d) \ Accounted'
      BY <1>5, <3>2
    <3> QED
      BY <1>1, <1>3, <1>4, <2>1, <2>4, <3>1, <3>3
  <2> QED
    BY <2>2, <2>3, <2>4
<1>9. EnteredSaved'
  <2> SUFFICES ASSUME NEW t \in Entered \ Accounted'
               PROVE  (\E v \in uploads' : v.file = t) \/ t \in Content(stored'[home[t]])
    BY DEF EnteredSaved, Entered
  <2>1. home[t] \in Channels /\ t \notin Accounted
    BY <1>1 DEF Entered, ComposerTypes
  <2>2. CASE t = u.file
    <3>1. home[t] = u.channel
      BY <2>2 DEF Located
    <3> QED
      BY <1>3, <2>2, <3>1
  <2>3. CASE t # u.file
    <3>1. (\E v \in uploads' : v.file = t) \/ t \in Content(stored[home[t]])
      BY <2>1, <2>3 DEF Saved, EnteredSaved
    <3>2. CASE home[t] = u.channel
      BY <1>3, <1>4, <1>5, <2>1, <3>1, <3>2
    <3>3. CASE home[t] # u.channel
      BY <1>6, <2>1, <3>1, <3>3
    <3> QED
      BY <3>2, <3>3
  <2> QED
    BY <2>2, <2>3
<1>10. CallsHoldAll'
  <2> SUFFICES ASSUME NEW s \in sends
               PROVE  Content(stored'[s.from]) \subseteq Accounted'
    BY DEF CallsHoldAll
  <2>1. Content(stored[s.from]) \subseteq Accounted
    BY DEF Saved, CallsHoldAll
  <2>2. CASE s.from = u.channel
    <3>1. Content(d) \subseteq Accounted
      BY <1>4, <2>1, <2>2
    <3>2. u.file \in Accounted' \/ u.file \notin Content(draft)
      BY <1>1, <2>2, <3>1 DEF d
    <3> QED
      BY <1>1, <1>3, <1>5, <2>2, <3>1, <3>2
  <2>3. CASE s.from # u.channel
    BY <1>1, <1>6, <2>1, <2>3, CallOf
  <2> QED
    BY <2>2, <2>3
<1>11. UploadsMarked'
  <2> SUFFICES ASSUME NEW v \in uploads', v.file \notin Accounted'
               PROVE  /\ v.file \in Up(memory'[v.object][v.channel])
                      /\ v.object = box.object => v.file \in Up(stored'[v.channel])
                      /\ \A s \in sends : v.channel = s.from => v.object < s.object
                      /\ \A x \in uploads : v.channel = x.channel => v.object <= x.object
    BY DEF UploadsMarked
  <2>1. v \in uploads /\ v.file # u.file
    BY DEF NoSecondCopy
  <2>2. /\ v.file \in Up(memory[v.object][v.channel])
        /\ v.object = box.object => v.file \in Up(stored[v.channel])
        /\ \A s \in sends : v.channel = s.from => v.object < s.object
        /\ \A x \in uploads : v.channel = x.channel => v.object <= x.object
    BY <1>1, <2>1 DEF Saved, UploadsMarked
  <2>3. v.object \in 1..Mounts /\ v.channel \in Channels
    BY <2>1, UploadOf
  <2>4. CASE v.channel # u.channel
    BY <1>3, <2>2, <2>3, <2>4
  <2>5. CASE v.channel = u.channel /\ v.object = u.object
    <3>1. v.file \in Up(draft)
      BY <1>5, <2>1, <2>2, <2>5 DEF d
    <3> QED
      BY <1>3, <2>2, <2>5, <3>1
  <2>6. CASE v.channel = u.channel /\ v.object # u.object
    <3>1. v.object # box.object
      BY <2>1, <2>2, <2>6, ObjectOrder
    <3> QED
      BY <1>3, <2>2, <2>3, <2>6, <3>1
  <2> QED
    BY <2>4, <2>5, <2>6
<1> QED
  BY <1>7, <1>8, <1>9, <1>10, <1>11 DEF Saved

LEMMA CompleteSaved ==
  ASSUME ComposerTypes, CallsMeanIt, Located, NoSecondCopy, Saved, ComposerNext, NEW u \in uploads,
         UploadComplete(u)
  PROVE  Saved'
<1> DEFINE d == memory[u.object][u.channel]
           draft == Uploaded(u)
<1>1. /\ uploads' = uploads \ {u} /\ SaveDraft(u.object, u.channel, draft)
      /\ excused' = IF \/ \E s \in sends : s.from = u.channel
                       \/ \E o \in uploads : o.channel = u.channel /\ o.object # u.object
                    THEN excused \cup {u.file} ELSE excused
      /\ UNCHANGED <<box, sends, home>>
  BY DEF UploadComplete
<1>2. \/ \E s \in sends : s.from = u.channel
      \/ \E o \in uploads : o.channel = u.channel /\ o.object # u.object
      => u.file \in Accounted'
  BY <1>1 DEF Accounted
<1>3. CASE d = NoDraft
  <2>1. draft = NoDraft
    BY <1>3 DEF Uploaded
  <2>2. Content(NoDraft) = {} /\ Up(NoDraft) = {}
    BY ContentFacts
  <2>3. u.file \in Accounted'
    <3>1. u.file \in Accounted
      BY <1>3, <2>2 DEF Saved, UploadsMarked
    <3> QED
      BY <3>1, AccountedGrows
  <2> HIDE DEF draft
  <2> QED
    BY <1>1, <1>2, <1>3, <2>1, <2>2, <2>3, UploadSaved
<1>4. CASE d # NoDraft
  <2>1. draft.words = d.words /\ draft.files = d.files \cup {u.file} /\ draft.up = d.up \ {u.file}
    BY <1>4, UploadOf DEF Uploaded, Drafts
  <2>2. draft # NoDraft
    BY <2>1 DEF NoDraft
  <2>3. Content(draft) = Content(d) \cup {u.file} /\ Up(d) \subseteq Up(draft) \cup {u.file}
    BY <1>4, <2>1, <2>2 DEF Content, Up
  <2> HIDE DEF draft
  <2>4. Content(d) \subseteq Content(draft) /\ Content(draft) \subseteq Content(d) \cup {u.file}
    BY <2>3
  <2> QED
    BY <1>1, <1>2, <2>3, <2>4, UploadSaved
<1> QED
  BY <1>3, <1>4

LEMMA ErrorSaved ==
  ASSUME ComposerTypes, CallsMeanIt, Located, NoSecondCopy, Saved, ComposerNext, NEW u \in uploads,
         UploadError(u)
  PROVE  Saved'
<1> DEFINE d == memory[u.object][u.channel]
           draft == [d EXCEPT !.up = @ \ {u.file}]
<1>1. /\ uploads' = uploads \ {u} /\ dropped' = dropped \cup {u.file}
      /\ IF d # NoDraft /\ u.file \in d.up THEN SaveDraft(u.object, u.channel, draft)
         ELSE UNCHANGED <<stored, memory>>
      /\ UNCHANGED <<box, sends, home>>
  BY DEF UploadError
<1>2. u.file \in Accounted' /\ Accounted \subseteq Accounted'
  BY <1>1, AccountedGrows DEF Accounted
<1>3. CASE d # NoDraft /\ u.file \in d.up
  <2>1. draft = [words |-> d.words, files |-> d.files, up |-> d.up \ {u.file}] /\ "none" \notin d.words
    BY <1>3, UploadOf, ComposerAssumption DEF Drafts, EnteredWords
  <2>2. SaveDraft(u.object, u.channel, draft)
    BY <1>1, <1>3
  <2> HIDE DEF draft
  <2>3. draft.words = d.words /\ draft.files = d.files /\ draft.up = d.up \ {u.file} /\ draft # NoDraft
    BY <2>1 DEF NoDraft
  <2>4. Content(draft) = Content(d) /\ Up(d) \subseteq Up(draft) \cup {u.file}
    BY <1>3, <2>3 DEF Content, Up
  <2>5. Content(d) \subseteq Content(draft) /\ Content(draft) \subseteq Content(d) \cup {u.file}
    BY <2>4
  <2> QED
    BY <1>1, <1>2, <2>2, <2>4, <2>5, UploadSaved
<1>4. CASE ~(d # NoDraft /\ u.file \in d.up)
  <2>1. UNCHANGED <<stored, memory>>
    BY <1>1, <1>4
  <2>2. TextSaved' /\ CallsHoldAll' /\ UploadsAgree' /\ UploadsMarked'
    BY <1>1, <1>2, <2>1 DEF Saved, TextSaved, CallsHoldAll, UploadsAgree, UploadsMarked
  <2>3. EnteredSaved'
    BY <1>1, <1>2, <2>1 DEF Saved, EnteredSaved, Entered
  <2> QED
    BY <2>2, <2>3 DEF Saved
<1> QED
  BY <1>3, <1>4

LEMMA RemountSaved ==
  ASSUME ComposerTypes, CallsMeanIt, Saved, ComposerNext, Remount
  PROVE  Saved'
<1> DEFINE cleared == [c \in Channels |-> IF stored[c] = NoDraft THEN NoDraft
                                          ELSE [stored[c] EXCEPT !.up = {}]]
<1>1. /\ stored' = cleared
      /\ box' = [object |-> box.object + 1, channel |-> box.channel,
                 text |-> DraftIn(cleared, box.channel).words, submitting |-> FALSE]
      /\ UNCHANGED <<memory, uploads, sends, home, dropped, excused, posted>>
  BY DEF Remount
<1>2. Accounted' = Accounted
  BY <1>1 DEF Accounted, SendTokens, PostTokens, ToSet
<1>3. ASSUME NEW c \in Channels
      PROVE  /\ Content(cleared[c]) = Content(stored[c])
             /\ DraftIn(cleared, c).words = Content(cleared[c]) \cap Words
  <2>1. CASE stored[c] = NoDraft
    BY <2>1 DEF DraftIn, EmptyDraft, Content
  <2>2. CASE stored[c] # NoDraft
    <3>1. /\ cleared[c] = [words |-> stored[c].words, files |-> stored[c].files, up |-> {}]
          /\ stored[c].words \subseteq Words /\ stored[c].files \subseteq Files
      BY <2>2 DEF ComposerTypes, Drafts, EnteredWords, EnteredFiles
    <3> HIDE DEF cleared
    <3>2. cleared[c].words = stored[c].words /\ cleared[c].files = stored[c].files /\ cleared[c] # NoDraft
      BY <3>1, ComposerAssumption DEF NoDraft
    <3> QED
      BY <2>2, <3>1, <3>2, ComposerAssumption DEF DraftIn, Content
  <2> QED
    BY <2>1, <2>2
<1> HIDE DEF cleared
<1>4. \A c \in Channels : Content(stored'[c]) = Content(stored[c])
  BY <1>1, <1>3
<1>5. TextSaved'
  BY <1>1, <1>3, BoxTypes DEF TextSaved
<1>6. UploadsAgree'
  BY <1>1, <1>2, <1>4, UploadOf DEF Saved, UploadsAgree
<1>7. EnteredSaved'
  <2>1. \A t \in Entered : home[t] \in Channels
    BY DEF Entered, ComposerTypes
  <2> QED
    BY <1>1, <1>2, <1>4, <2>1 DEF Saved, EnteredSaved, Entered
<1>8. CallsHoldAll'
  BY <1>1, <1>2, <1>4, CallOf DEF Saved, CallsHoldAll
<1>9. UploadsMarked'
  <2>1. \A u \in uploads : u.object # box'.object
    BY <1>1, ObjectOrder
  <2> QED
    BY <1>1, <1>2, <2>1 DEF Saved, UploadsMarked
<1> QED
  BY <1>5, <1>6, <1>7, <1>8, <1>9 DEF Saved


\* A message or a command holds all that the draft of the box has.
LEMMA SubmitSaved ==
  ASSUME ComposerTypes, CallsMeanIt, Saved, ComposerNext,
         SubmitMessage \/ SubmitCommand \/ SubmitReaction
  PROVE  Saved'
<1>1. Accounted \subseteq Accounted'
  BY AccountedGrows
<1>2. MaySubmit /\ UNCHANGED <<uploads, home>>
  BY DEF SubmitMessage, SubmitCommand, SubmitReaction
<1>3. Up(stored[box.channel]) = {}
  BY <1>2, ContentFacts DEF MaySubmit
<1>4. box.channel \in Channels /\ box.object \in 1..Mounts /\ box.text \subseteq Words
  BY BoxTypes DEF EnteredWords
<1>5. (box.text \cup Draft.files) \ Accounted = Content(stored[box.channel]) \ Accounted
  BY <1>4, ContentFacts, ComposerAssumption DEF Saved, TextSaved
<1>6. \A t \in Entered' : t \in Entered /\ home'[t] = home[t] /\ home[t] \in Channels
  BY <1>2 DEF Entered, ComposerTypes
<1>7. ASSUME NEW u \in uploads, u.file \notin Accounted', u.channel = box.channel
      PROVE  u.object # box.object
  BY <1>1, <1>3, <1>7 DEF Saved, UploadsMarked
<1>8. ASSUME SubmitMessage \/ SubmitCommand
      PROVE  Saved'
  <2> DEFINE m == Call("message hooks", "message")
             k == [Call("command hooks", "command") EXCEPT !.files = {}]
  <2>1. PICK call \in {m, k} :
           /\ sends' = sends \cup {call} /\ box.text \cup Draft.files \subseteq Accounted'
           /\ call.from = box.channel /\ call.object = box.object
    <3>1. /\ m.words = box.text /\ m.files = Draft.files /\ m.from = box.channel /\ m.object = box.object
          /\ k.words = box.text /\ k.files = {} /\ k.from = box.channel /\ k.object = box.object
      BY DEF Call
    <3>2. /\ SubmitMessage => sends' = sends \cup {m}
          /\ SubmitCommand => sends' = sends \cup {k} /\ Draft.files \subseteq excused'
      BY DEF SubmitMessage, SubmitCommand
    <3> HIDE DEF m, k
    <3>3. box.text \subseteq Words \cup Files /\ Draft.files \subseteq Words \cup Files
      BY <1>4, ContentFacts
    <3>4. CASE SubmitMessage
      <4>1. box.text \cup Draft.files \subseteq SendTokens'
        BY <3>1, <3>2, <3>3, <3>4 DEF SendTokens
      <4> QED
        BY <3>1, <3>2, <3>4, <4>1 DEF Accounted
    <3>5. CASE SubmitCommand
      <4>1. box.text \subseteq SendTokens'
        BY <3>1, <3>2, <3>3, <3>5 DEF SendTokens
      <4> QED
        BY <3>1, <3>2, <3>5, <4>1 DEF Accounted
    <3> QED
      BY <1>8, <3>4, <3>5
  <2> HIDE DEF m, k
  <2>2. /\ UNCHANGED <<stored, memory>>
        /\ box' = [box EXCEPT !.submitting = TRUE] \/ box' = [box EXCEPT !.submitting = TRUE, !.text = {}]
    BY <1>8 DEF SubmitMessage, SubmitCommand
  <2>3. box'.object = box.object /\ box'.channel = box.channel /\ box'.text \subseteq box.text
    BY <2>2 DEF ComposerTypes, Boxes
  <2>4. Content(stored[box.channel]) \subseteq Accounted' /\ box'.text \subseteq Accounted'
    BY <1>1, <1>5, <2>1, <2>3
  <2>5. TextSaved'
    BY <2>2, <2>3, <2>4 DEF TextSaved
  <2>6. UploadsAgree'
    BY <1>1, <1>2, <2>2 DEF Saved, UploadsAgree
  <2>7. EnteredSaved'
    BY <1>1, <1>2, <1>6, <2>2 DEF Saved, EnteredSaved
  <2>8. CallsHoldAll'
    BY <1>1, <2>1, <2>2, <2>4 DEF Saved, CallsHoldAll
  <2>9. UploadsMarked'
    <3> SUFFICES ASSUME NEW u \in uploads, u.file \notin Accounted'
                 PROVE  /\ u.file \in Up(memory[u.object][u.channel])
                        /\ u.object = box.object => u.file \in Up(stored[u.channel])
                        /\ \A s \in sends' : u.channel = s.from => u.object < s.object
                        /\ \A v \in uploads : u.channel = v.channel => u.object <= v.object
      BY <1>2, <2>2, <2>3 DEF UploadsMarked
    <3>1. /\ u.file \in Up(memory[u.object][u.channel])
          /\ u.object = box.object => u.file \in Up(stored[u.channel])
          /\ \A s \in sends : u.channel = s.from => u.object < s.object
          /\ \A v \in uploads : u.channel = v.channel => u.object <= v.object
      BY <1>1 DEF Saved, UploadsMarked
    <3>2. u.channel = call.from => u.object < call.object
      BY <1>7, <2>1, ObjectOrder
    <3> QED
      BY <2>1, <3>1, <3>2
  <2> QED
    BY <2>5, <2>6, <2>7, <2>8, <2>9 DEF Saved
<1>9. CASE SubmitReaction
  <2> DEFINE p == [to |-> box.channel, words |-> box.text, files |-> {}]
  <2>1. /\ posted' = Append(posted, p) /\ box' = [box EXCEPT !.text = {}]
        /\ SaveDraft(box.object, box.channel, NoDraft)
        /\ excused' = excused \cup Draft.files
        /\ UNCHANGED sends
    BY <1>9 DEF SubmitReaction
  <2>2. p \in PostedRecords /\ p.words = box.text
    BY BoxTypes DEF PostedRecords
  <2> HIDE DEF p
  <2>3. box.text \cup Draft.files \subseteq Accounted'
    BY <2>1, <2>2, PostTokensStep DEF Accounted
  <2>4. Content(stored[box.channel]) \subseteq Accounted'
    BY <1>1, <1>5, <2>3
  <2>5. /\ stored'[box.channel] = NoDraft /\ memory'[box.object][box.channel] = NoDraft
        /\ \A e \in Channels : e # box.channel => stored'[e] = stored[e]
        /\ \A m \in 1..Mounts, e \in Channels :
              (m # box.object \/ e # box.channel) => memory'[m][e] = memory[m][e]
    BY <1>4, <2>1, SaveEffect
  <2>6. box'.object = box.object /\ box'.channel = box.channel /\ box'.text = {}
    BY <2>1 DEF ComposerTypes, Boxes
  <2>7. \A e \in Channels : Content(stored'[e]) \ Accounted' = Content(stored[e]) \ Accounted'
    BY <2>4, <2>5, ContentFacts
  <2>8. TextSaved'
    BY <2>5, <2>6, ContentFacts DEF TextSaved
  <2>9. UploadsAgree'
    <3> SUFFICES ASSUME NEW u \in uploads
                 PROVE  Content(memory'[u.object][u.channel]) \ Accounted'
                        = Content(stored'[u.channel]) \ Accounted'
      BY <1>2 DEF UploadsAgree
    <3>1. CASE u.channel = box.channel /\ u.object = box.object
      BY <2>5, <3>1
    <3>2. CASE ~(u.channel = box.channel /\ u.object = box.object)
      <4>1. Content(memory[u.object][u.channel]) \ Accounted = Content(stored[u.channel]) \ Accounted
        BY DEF Saved, UploadsAgree
      <4>2. memory'[u.object][u.channel] = memory[u.object][u.channel]
        BY <2>5, <3>2, UploadOf
      <4> QED
        BY <1>1, <2>7, <4>1, <4>2, UploadOf
    <3> QED
      BY <3>1, <3>2
  <2>10. EnteredSaved'
    <3> SUFFICES ASSUME NEW t \in Entered' \ Accounted'
                 PROVE  (\E u \in uploads : u.file = t) \/ t \in Content(stored'[home'[t]])
      BY <1>2 DEF EnteredSaved
    <3> QED
      BY <1>1, <1>6, <2>7 DEF Saved, EnteredSaved
  <2>11. CallsHoldAll'
    BY <1>1, <2>1, <2>7, CallOf DEF Saved, CallsHoldAll
  <2>12. UploadsMarked'
    <3> SUFFICES ASSUME NEW u \in uploads, u.file \notin Accounted'
                 PROVE  /\ u.file \in Up(memory'[u.object][u.channel])
                        /\ u.object = box.object => u.file \in Up(stored'[u.channel])
                        /\ \A s \in sends : u.channel = s.from => u.object < s.object
                        /\ \A v \in uploads : u.channel = v.channel => u.object <= v.object
      BY <1>2, <2>1, <2>6 DEF UploadsMarked
    <3>1. /\ u.file \in Up(memory[u.object][u.channel])
          /\ u.object = box.object => u.file \in Up(stored[u.channel])
          /\ \A s \in sends : u.channel = s.from => u.object < s.object
          /\ \A v \in uploads : u.channel = v.channel => u.object <= v.object
      BY <1>1 DEF Saved, UploadsMarked
    <3>2. u.channel = box.channel => u.object # box.object
      BY <1>7
    <3> QED
      BY <2>5, <3>1, <3>2, UploadOf
  <2> QED
    BY <2>8, <2>9, <2>10, <2>11, <2>12 DEF Saved
<1> QED
  BY <1>8, <1>9

\* The draft that a call clears at its end has nothing that is only there.
LEMMA EndSaved ==
  ASSUME ComposerTypes, CallsMeanIt, Saved, ComposerNext, NEW s \in sends,
         CommandDone(s) \/ CommandFailed(s) \/ Sent(s) \/ Refused(s)
  PROVE  Saved'
<1>1. Accounted \subseteq Accounted'
  BY AccountedGrows
<1>2. /\ \A o \in 1..Mounts, c \in Channels :
            \/ memory'[o][c] = memory[o][c]
            \/ o = s.object /\ c = s.from /\ memory'[o][c] = NoDraft
      /\ sends' = sends \ {s} /\ UNCHANGED <<uploads, home>>
  BY EndDrafts
<1>3. \A c \in Channels : \/ stored'[c] = stored[c]
                          \/ c = s.from /\ stored'[c] = NoDraft
                          \/ stored'[c] = NoDraft /\ Tokens(stored[c]) \subseteq excused'
  <2>1. CASE Sent(s)
    <3>1. \/ /\ stored' = [[stored EXCEPT ![s.to] = NoDraft] EXCEPT ![s.from] = NoDraft]
             /\ s.to # s.from => Tokens(stored[s.to]) \subseteq excused'
          \/ stored' = [stored EXCEPT ![s.from] = NoDraft]
      BY <2>1 DEF Sent, Ended
    <3> QED
      BY <3>1, CallOf DEF ComposerTypes
  <2>2. CASE CommandDone(s) \/ CommandFailed(s) \/ Refused(s)
    <3>1. stored' = [stored EXCEPT ![s.from] = NoDraft]
      BY <2>2 DEF CommandDone, CommandFailed, Refused, Ended
    <3> QED
      BY <3>1, CallOf DEF ComposerTypes
  <2> QED
    BY <2>1, <2>2
<1>4. Content(stored[s.from]) \subseteq Accounted
  BY DEF Saved, CallsHoldAll
<1>5. ASSUME NEW c \in Channels
      PROVE  Content(stored'[c]) \ Accounted' = Content(stored[c]) \ Accounted'
  <2>1. CASE c = s.from
    BY <1>1, <1>3, <1>4, <2>1, ContentFacts DEF Accounted
  <2>2. CASE stored'[c] = NoDraft /\ Tokens(stored[c]) \subseteq excused'
    BY <2>2, ContentFacts DEF Accounted
  <2> QED
    BY <1>3, <2>1, <2>2
<1>6. box'.object = box.object /\ box'.channel = box.channel
  BY EndBox
<1>7. box'.text \ Accounted' = box.text \ Accounted'
  <2>1. CASE box'.text = box.text
    BY <2>1
  <2>2. CASE CommandFailed(s) /\ s.object = box.object
    <3>1. s.words \cup box.text \subseteq excused' /\ box'.text \subseteq box.text \cup s.words
      BY <2>2, EndBox DEF CommandFailed
    <3> QED
      BY <3>1 DEF Accounted
  <2>3. CASE Sent(s) /\ s.object = box.object /\ s.kind = "message"
    <3>1. box'.text = {}
      BY <2>3, EndBox
    <3>2. box.text \subseteq Accounted'
      <4>1. CASE s.from = box.channel
        BY <1>1, <1>4, <4>1 DEF Saved, TextSaved
      <4>2. CASE s.from # box.channel
        <5>1. box.text \subseteq excused'
          BY <2>3, <4>2 DEF Sent, Crossed, CallsMeanIt
        <5> QED
          BY <5>1 DEF Accounted
      <4> QED
        BY <4>1, <4>2
    <3> QED
      BY <3>1, <3>2
  <2>4. \/ box'.text = box.text
        \/ CommandFailed(s) /\ s.object = box.object
        \/ Sent(s) /\ s.object = box.object /\ s.kind = "message"
    <3>1. ASSUME NEW text, NEW again, Over(s, text, again)
          PROVE  box' = box \/ (box'.text = text /\ s.object = box.object)
      BY <3>1 DEF Over, ComposerTypes, Boxes
    <3>2. CASE Sent(s)
      <4>1. PICK again : Over(s, IF s.kind = "message" THEN {} ELSE box.text, again)
        BY <3>2 DEF Sent
      <4> QED
        BY <3>1, <3>2, <4>1
    <3>3. CASE CommandDone(s) \/ Refused(s)
      <4>1. Over(s, box.text, {})
        BY <3>3 DEF CommandDone, Refused
      <4> QED
        BY <3>1, <4>1
    <3>4. CASE CommandFailed(s)
      <4>1. Over(s, s.words, {})
        BY <3>4 DEF CommandFailed
      <4> QED
        BY <3>1, <3>4, <4>1
    <3> QED
      BY <3>2, <3>3, <3>4
  <2> QED
    BY <2>1, <2>2, <2>3, <2>4
<1>8. TextSaved'
  <2>1. box.text \ Accounted' = (Content(stored[box.channel]) \cap Words) \ Accounted'
    BY <1>1 DEF Saved, TextSaved
  <2>2. (Content(stored[box.channel]) \cap Words) \ Accounted'
        = (Content(stored'[box.channel]) \cap Words) \ Accounted'
    BY <1>5, BoxTypes
  <2> QED
    BY <1>6, <1>7, <2>1, <2>2 DEF TextSaved
<1>9. UploadsAgree'
  <2> SUFFICES ASSUME NEW u \in uploads
               PROVE  Content(memory'[u.object][u.channel]) \ Accounted'
                      = Content(stored'[u.channel]) \ Accounted'
    BY <1>2 DEF UploadsAgree
  <2>1. Content(memory[u.object][u.channel]) \ Accounted = Content(stored[u.channel]) \ Accounted
    BY DEF Saved, UploadsAgree
  <2>2. Content(stored'[u.channel]) \ Accounted' = Content(stored[u.channel]) \ Accounted'
    BY <1>5, UploadOf
  <2>3. CASE memory'[u.object][u.channel] = memory[u.object][u.channel]
    BY <1>1, <2>1, <2>2, <2>3
  <2>4. CASE u.channel = s.from /\ memory'[u.object][u.channel] = NoDraft
    BY <1>1, <1>4, <2>2, <2>4, ContentFacts
  <2> QED
    BY <1>2, <2>3, <2>4, UploadOf
<1>10. EnteredSaved'
  <2> SUFFICES ASSUME NEW t \in Entered \ Accounted'
               PROVE  (\E u \in uploads : u.file = t) \/ t \in Content(stored'[home[t]])
    BY <1>2 DEF EnteredSaved, Entered
  <2>1. home[t] \in Channels /\ t \notin Accounted
    BY <1>1 DEF Entered, ComposerTypes
  <2> QED
    BY <1>5, <2>1 DEF Saved, EnteredSaved
<1>11. CallsHoldAll'
  <2> SUFFICES ASSUME NEW o \in sends
               PROVE  Content(stored'[o.from]) \subseteq Accounted'
    BY <1>2 DEF CallsHoldAll
  <2>1. Content(stored[o.from]) \subseteq Accounted
    BY DEF Saved, CallsHoldAll
  <2> QED
    BY <1>1, <1>5, <2>1, CallOf
<1>12. UploadsMarked'
  <2> SUFFICES ASSUME NEW u \in uploads, u.file \notin Accounted'
               PROVE  /\ u.file \in Up(memory'[u.object][u.channel])
                      /\ u.object = box.object => u.file \in Up(stored'[u.channel])
                      /\ \A o \in sends : u.channel = o.from => u.object < o.object
                      /\ \A v \in uploads : u.channel = v.channel => u.object <= v.object
    BY <1>2, <1>6 DEF UploadsMarked
  <2>1. /\ u.file \in Up(memory[u.object][u.channel])
        /\ u.object = box.object => u.file \in Up(stored[u.channel])
        /\ \A o \in sends : u.channel = o.from => u.object < o.object
        /\ \A v \in uploads : u.channel = v.channel => u.object <= v.object
    BY <1>1 DEF Saved, UploadsMarked
  <2>2. u.channel = s.from => u.object # s.object /\ u.object # box.object
    BY <2>1, ObjectOrder
  <2>3. u.file \in Up(memory'[u.object][u.channel])
    BY <1>2, <2>1, <2>2, UploadOf
  <2>4. u.object = box.object => u.file \in Up(stored'[u.channel])
    <3> SUFFICES ASSUME u.object = box.object
                 PROVE  stored'[u.channel] = stored[u.channel]
      BY <2>1
    <3>1. u.file \in Tokens(stored[u.channel])
      BY <2>1, UploadOf, ContentFacts
    <3>2. u.file \notin excused'
      BY DEF Accounted
    <3> QED
      BY <1>3, <2>2, <3>1, <3>2, UploadOf
  <2> QED
    BY <2>1, <2>3, <2>4
<1> QED
  BY <1>8, <1>9, <1>10, <1>11, <1>12 DEF Saved

\* A draft that an answer of the server clears is excused.
LEMMA CreatedSaved ==
  ASSUME ComposerTypes, CallsMeanIt, Saved, ComposerNext, NEW i, PostCreated(i)
  PROVE  Saved'
<1>1. Accounted \subseteq Accounted'
  BY AccountedGrows
<1>2. /\ \A c \in Channels : \/ stored'[c] = stored[c]
                             \/ stored'[c] = NoDraft /\ Tokens(stored[c]) \subseteq excused'
      /\ UNCHANGED <<box, memory, uploads, sends, home>>
  BY CreatedEffect
<1>3. ASSUME NEW c \in Channels
      PROVE  Content(stored'[c]) \ Accounted' = Content(stored[c]) \ Accounted'
  BY <1>2, ContentFacts DEF Accounted
<1>4. TextSaved'
  <2>1. box.text \ Accounted' = (Content(stored[box.channel]) \cap Words) \ Accounted'
    BY <1>1 DEF Saved, TextSaved
  <2>2. (Content(stored[box.channel]) \cap Words) \ Accounted'
        = (Content(stored'[box.channel]) \cap Words) \ Accounted'
    BY <1>3, BoxTypes
  <2> QED
    BY <1>2, <2>1, <2>2 DEF TextSaved
<1>5. UploadsAgree'
  <2> SUFFICES ASSUME NEW u \in uploads
               PROVE  Content(memory[u.object][u.channel]) \ Accounted'
                      = Content(stored'[u.channel]) \ Accounted'
    BY <1>2 DEF UploadsAgree, Content
  <2>1. Content(memory[u.object][u.channel]) \ Accounted = Content(stored[u.channel]) \ Accounted
    BY DEF Saved, UploadsAgree
  <2>2. Content(stored'[u.channel]) \ Accounted' = Content(stored[u.channel]) \ Accounted'
    BY <1>3, UploadOf
  <2> QED
    BY <1>1, <2>1, <2>2
<1>6. EnteredSaved'
  <2> SUFFICES ASSUME NEW t \in Entered \ Accounted'
               PROVE  (\E u \in uploads : u.file = t) \/ t \in Content(stored'[home[t]])
    BY <1>2 DEF EnteredSaved, Entered
  <2>1. home[t] \in Channels /\ t \notin Accounted
    BY <1>1 DEF Entered, ComposerTypes
  <2> QED
    BY <1>3, <2>1 DEF Saved, EnteredSaved
<1>7. CallsHoldAll'
  <2> SUFFICES ASSUME NEW o \in sends
               PROVE  Content(stored'[o.from]) \subseteq Accounted'
    BY <1>2 DEF CallsHoldAll
  <2>1. Content(stored[o.from]) \subseteq Accounted
    BY DEF Saved, CallsHoldAll
  <2> QED
    BY <1>1, <1>3, <2>1, CallOf
<1>8. UploadsMarked'
  <2> SUFFICES ASSUME NEW u \in uploads, u.file \notin Accounted'
               PROVE  /\ u.file \in Up(memory[u.object][u.channel])
                      /\ u.object = box.object => u.file \in Up(stored'[u.channel])
                      /\ \A o \in sends : u.channel = o.from => u.object < o.object
                      /\ \A v \in uploads : u.channel = v.channel => u.object <= v.object
    BY <1>2 DEF UploadsMarked, Up
  <2>1. /\ u.file \in Up(memory[u.object][u.channel])
        /\ u.object = box.object => u.file \in Up(stored[u.channel])
        /\ \A o \in sends : u.channel = o.from => u.object < o.object
        /\ \A v \in uploads : u.channel = v.channel => u.object <= v.object
    BY <1>1 DEF Saved, UploadsMarked
  <2>2. ASSUME u.object = box.object
        PROVE  stored'[u.channel] = stored[u.channel]
    <3>1. u.file \in Tokens(stored[u.channel])
      BY <2>1, <2>2, UploadOf, ContentFacts
    <3>2. u.file \notin excused'
      BY DEF Accounted
    <3> QED
      BY <1>2, <3>1, <3>2, UploadOf
  <2> QED
    BY <2>1, <2>2
<1> QED
  BY <1>4, <1>5, <1>6, <1>7, <1>8 DEF Saved

LEMMA NextSaved ==
  ASSUME ComposerTypes, CallsMeanIt, Located, NoSecondCopy, Saved, ComposerNext
  PROVE  Saved'
BY BoxSaved, TypeSaved, StartSaved, RemoveSaved, CompleteSaved, ErrorSaved, RemountSaved, SubmitSaved,
   EndSaved, CreatedSaved DEF ComposerNext


----------------------------------------------------------------------------
(* The three properties.                                                   *)

\* What a step adds to the posts.
LEMMA NewPost ==
  ASSUME ComposerTypes, ComposerNext, ~UNCHANGED posted
  PROVE  \E p \in PostedRecords :
            /\ posted' = Append(posted, p)
            /\ \/ p.to = box.channel /\ p.words = box.text /\ p.files = {}
               \/ \E s \in sends : CommandDone(s) /\ p.to = s.from /\ p.words = s.words /\ p.files = {}
               \/ \E s \in sends : Sent(s) /\ p.to = s.to /\ p.words = s.words /\ p.files = s.files
<1>1. \/ SubmitReaction
      \/ \E s \in sends : CommandDone(s) \/ Sent(s)
  BY CreatedEffect DEF ComposerNext, Type, Insert, SwitchChannel, Remount, UploadStart, RemovePreview,
     UploadComplete, UploadError, SubmitMessage, SubmitCommand, OpenDialog,
     CommandAllowed, CommandAsMessage, CommandFailed, Refused
<1>2. CASE SubmitReaction
  <2> DEFINE p == [to |-> box.channel, words |-> box.text, files |-> {}]
  <2>1. posted' = Append(posted, p)
    BY <1>2 DEF SubmitReaction
  <2>2. p \in PostedRecords /\ p.to = box.channel /\ p.words = box.text /\ p.files = {}
    BY BoxTypes DEF PostedRecords
  <2> HIDE DEF p
  <2> QED
    BY <2>1, <2>2
<1>3. ASSUME NEW s \in sends, CommandDone(s)
      PROVE  \E p \in PostedRecords : /\ posted' = Append(posted, p)
                                      /\ p.to = s.from /\ p.words = s.words /\ p.files = {}
  <2> DEFINE p == [to |-> s.from, words |-> s.words, files |-> {}]
  <2>1. posted' = Append(posted, p)
    BY <1>3 DEF CommandDone
  <2>2. p \in PostedRecords /\ p.to = s.from /\ p.words = s.words /\ p.files = {}
    BY CallOf DEF PostedRecords
  <2> HIDE DEF p
  <2> QED
    BY <2>1, <2>2
<1>4. ASSUME NEW s \in sends, Sent(s)
      PROVE  \E p \in PostedRecords : /\ posted' = Append(posted, p)
                                      /\ p.to = s.to /\ p.words = s.words /\ p.files = s.files
  <2> DEFINE p == [to |-> s.to, words |-> s.words, files |-> s.files]
  <2>1. posted' = Append(posted, p)
    BY <1>4 DEF Sent
  <2>2. p \in PostedRecords /\ p.to = s.to /\ p.words = s.words /\ p.files = s.files
    BY CallOf DEF PostedRecords
  <2> HIDE DEF p
  <2> QED
    BY <2>1, <2>2
<1> QED
  BY <1>1, <1>2, <1>3, <1>4

LEMMA NextPostedOnce ==
  ASSUME ComposerTypes, OncePosted, PostedOnce, ComposerNext
  PROVE  PostedOnce'
<1>1. reshown \subseteq reshown'
  BY HistoryGrows
<1>2. CASE UNCHANGED posted
  BY <1>1, <1>2 DEF PostedOnce
<1>3. CASE ~UNCHANGED posted
  <2>1. PICK p \in PostedRecords : /\ posted' = Append(posted, p)
                                   /\ p.words \cup p.files \subseteq Around
    BY <1>3, NewPost, AroundTypes
  <2>2. posted \in Seq(PostedRecords)
    BY DEF ComposerTypes
  <2>3. /\ Len(posted') = Len(posted) + 1 /\ posted'[Len(posted) + 1] = p
        /\ \A i \in 1..Len(posted) : posted'[i] = posted[i]
        /\ Len(posted) \in Nat
    BY <2>1, <2>2
  <2>4. ASSUME NEW i \in 1..Len(posted)
        PROVE  (posted[i].words \cup posted[i].files) \cap (p.words \cup p.files) \subseteq reshown'
    <3>1. posted[i] \in PostedRecords
      BY <2>2
    <3>2. posted[i].words \cup posted[i].files \subseteq PostTokens
      BY <2>2, <3>1 DEF PostTokens, ToSet, PostedRecords, EnteredWords, EnteredFiles
    <3> QED
      BY <1>1, <2>1, <3>2 DEF OncePosted
  <2>5. \A i \in 1..Len(posted') : i \in 1..Len(posted) \/ i = Len(posted) + 1
    BY <2>3
  <2> QED
    BY <1>1, <2>3, <2>4, <2>5 DEF PostedOnce
<1> QED
  BY <1>2, <1>3

LEMMA NextRightChannel ==
  ASSUME ComposerTypes, Located, RightChannel, ComposerNext
  PROVE  RightChannel'
<1>1. HomeGrows /\ strayed \subseteq strayed'
  BY HistoryGrows
<1>2. ASSUME NEW p \in ToSet(posted), NEW t \in p.words \cup p.files
      PROVE  home'[t] = p.to \/ t \in strayed'
  <2>1. t \in Words \cup Files /\ home[t] # "nowhere"
    <3>1. p \in PostedRecords
      BY DEF ComposerTypes, ToSet
    <3> QED
      BY <3>1 DEF PostedRecords, EnteredWords, EnteredFiles
  <2> QED
    BY <1>1, <1>2, <2>1 DEF HomeGrows, RightChannel
<1>3. CASE UNCHANGED posted
  BY <1>2, <1>3 DEF RightChannel
<1>4. CASE ~UNCHANGED posted
  <2>1. PICK p \in PostedRecords :
            /\ posted' = Append(posted, p)
            /\ \/ p.to = box.channel /\ p.words = box.text /\ p.files = {}
               \/ \E s \in sends : CommandDone(s) /\ p.to = s.from /\ p.words = s.words /\ p.files = {}
               \/ \E s \in sends : Sent(s) /\ p.to = s.to /\ p.words = s.words /\ p.files = s.files
    BY <1>4, NewPost
  <2>2. ToSet(posted') = ToSet(posted) \cup {p}
    <3>1. posted \in Seq(PostedRecords)
      BY DEF ComposerTypes
    <3> QED
      BY <2>1, <3>1 DEF ToSet
  <2>3. ASSUME NEW t \in p.words \cup p.files
        PROVE  home'[t] = p.to \/ t \in strayed'
    <3>1. CASE p.to = box.channel /\ p.words = box.text /\ p.files = {}
      BY <3>1, LocatedKept DEF AtNext
    <3>2. CASE \E s \in sends : CommandDone(s) /\ p.to = s.from /\ p.words = s.words /\ p.files = {}
      BY <3>2, LocatedKept DEF AtNext
    <3>3. ASSUME NEW s \in sends, Sent(s), p.to = s.to, p.words = s.words, p.files = s.files
          PROVE  home'[t] = p.to \/ t \in strayed'
      <4>1. CASE t \in s.files
        BY <3>3, <4>1, LocatedKept DEF AtNext
      <4>2. CASE t \in s.words /\ s.to = s.from
        BY <3>3, <4>2, LocatedKept DEF AtNext
      <4>3. CASE t \in s.words /\ s.to # s.from
        BY <3>3, <4>3 DEF Sent, Strays
      <4> QED
        BY <3>3, <4>1, <4>2, <4>3
    <3> QED
      BY <2>1, <3>1, <3>2, <3>3
  <2> QED
    BY <1>2, <2>2, <2>3 DEF RightChannel
<1> QED
  BY <1>3, <1>4

LEMMA InitInv ==
  ASSUME ComposerInit
  PROVE  ComposerInv
<1>1. PICK c \in Channels : box = [object |-> 1, channel |-> c, text |-> {}, submitting |-> FALSE]
  BY DEF ComposerInit
<1>2. /\ box.object = 1 /\ box.channel \in Channels /\ box.text = {}
      /\ left = [o \in 1..Mounts |-> [channel |-> box.channel, files |-> {}]]
      /\ stored = [e \in Channels |-> NoDraft] /\ memory = [o \in 1..Mounts |-> stored]
      /\ uploads = {} /\ sends = {} /\ posted = <<>>
      /\ home = [t \in Words \cup Files |-> "nowhere"]
  BY <1>1 DEF ComposerInit
<1>3. ComposerTypes
  <2>1. box \in Boxes
    BY <1>1, ComposerAssumption DEF Boxes
  <2>2. NoDraft \in Drafts
    BY DEF Drafts
  <2> QED
    BY <1>2, <2>1, <2>2 DEF ComposerTypes, Leavings
<1>4. ToSet(posted) = {} /\ SendTokens = {}
  BY <1>2 DEF ToSet, SendTokens
<1>5. PostTokens = {}
  BY <1>4 DEF PostTokens
<1>6. CallsMeanIt /\ OnceSent /\ OncePosted
  BY <1>2, <1>5 DEF CallsMeanIt, OnceSent, OncePosted
<1>7. FreshMemory
  BY <1>2 DEF FreshMemory
<1>8. Located
  BY <1>2, <1>3, TokenFacts DEF Located, At
<1>9. NoSecondCopy
  BY <1>2 DEF NoSecondCopy
<1>10. Saved
  <2>1. Entered = {}
    BY <1>2 DEF Entered
  <2>2. TextSaved
    BY <1>2, <1>3, ContentFacts DEF TextSaved
  <2> QED
    BY <1>2, <2>1, <2>2 DEF Saved, UploadsAgree, EnteredSaved, CallsHoldAll, UploadsMarked
<1>11. PostedOnce /\ RightChannel
  <2>1. Len(posted) = 0
    BY <1>2
  <2> QED
    BY <1>4, <2>1 DEF PostedOnce, RightChannel
<1> QED
  BY <1>3, <1>6, <1>7, <1>8, <1>9, <1>10, <1>11 DEF ComposerInv

LEMMA NextInv ==
  ASSUME ComposerInv, [ComposerNext]_composerVars
  PROVE  ComposerInv'
<1> USE DEF ComposerInv
<1>1. CASE ComposerNext
  BY <1>1, NextTypes, NextCalls, NextFresh, NextLocated, NextNoSecondCopy, NextOnceSent,
     NextOncePosted, NextSaved, NextPostedOnce, NextRightChannel
<1>2. CASE UNCHANGED composerVars
  <2>1. ComposerTypes'
    BY <1>2, NextTypes
  <2>2. CallsMeanIt' /\ FreshMemory' /\ Located'
    BY <1>2 DEF composerVars, CallsMeanIt, FreshMemory, Located, At, Tokens
  <2>3. SendTokens' = SendTokens /\ PostTokens' = PostTokens
    BY <1>2 DEF composerVars, SendTokens, PostTokens, ToSet
  <2>4. NoSecondCopy'
    BY <1>2, <2>3 DEF composerVars, NoSecondCopy, FilesHeld, FilesOf
  <2>5. OnceSent' /\ OncePosted'
    BY <1>2, <2>3 DEF composerVars, OnceSent, OncePosted, Around, Tokens
  <2>6. Saved'
    BY <1>2, <2>3 DEF composerVars, Saved, TextSaved, UploadsAgree, EnteredSaved, CallsHoldAll,
                      UploadsMarked, Accounted, Content, Up, Entered
  <2>7. PostedOnce' /\ RightChannel'
    BY <1>2 DEF composerVars, PostedOnce, RightChannel, ToSet
  <2> QED
    BY <2>1, <2>2, <2>4, <2>5, <2>6, <2>7
<1> QED
  BY <1>1, <1>2

\* The invariant that the three properties rest on: types, what a call means,
\* where things are, what can still be posted, and what is saved where.
THEOREM ComposerInvariant == ComposerSpec => []ComposerInv
BY InitInv, NextInv, PTL DEF ComposerSpec

\* Whatever the user has entered is kept, dropped by the user or one of the
\* named exceptions, for every number of channels, words, files and objects
\* (create_post.jsx, file_upload.jsx).
THEOREM ComposerLosesNothing == ComposerSpec => []NothingLost
<1>1. ASSUME ComposerInv
      PROVE  NothingLost
  <2> USE <1>1 DEF ComposerInv
  <2> SUFFICES ASSUME NEW t \in Entered, t \notin dropped \cup excused
               PROVE  Kept(t)
    BY DEF NothingLost
  <2>1. CASE t \in SendTokens \cup PostTokens
    BY <2>1 DEF SendTokens, PostTokens, Kept
  <2>2. CASE t \notin SendTokens \cup PostTokens
    <3>1. (\E u \in uploads : u.file = t) \/ t \in Content(stored[home[t]])
      BY <2>2 DEF Saved, EnteredSaved, Accounted
    <3>2. home[t] \in Channels
      BY DEF Entered, ComposerTypes
    <3>3. Content(stored[home[t]]) \subseteq Tokens(stored[home[t]])
      BY <3>2, ContentFacts
    <3> QED
      BY <3>1, <3>3 DEF Kept
  <2> QED
    BY <2>1, <2>2
<1> QED
  BY <1>1, ComposerInvariant, PTL

\* No word and no file is posted twice, unless it was shown again while it was
\* being sent (doSubmit of create_post.jsx).
THEOREM ComposerPostsOnce == ComposerSpec => []PostedOnce
<1>1. ComposerInv => PostedOnce
  BY DEF ComposerInv
<1> QED
  BY <1>1, ComposerInvariant, PTL

\* A post goes to the channel it was written for, unless its call ended in
\* another (sendMessage and doSubmit of create_post.jsx).
THEOREM ComposerPostsInItsChannel == ComposerSpec => []RightChannel
<1>1. ComposerInv => RightChannel
  BY DEF ComposerInv
<1> QED
  BY <1>1, ComposerInvariant, PTL

=============================================================================
