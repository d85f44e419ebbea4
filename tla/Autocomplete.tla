----------------------------- MODULE Autocomplete -----------------------------
(***************************************************************************)
(* The suggestions under a text box: components/suggestion, the box, the   *)
(* base class of the providers, and those for users, channels and          *)
(* commands. What is typed reaches the providers after a pause, answers    *)
(* of the server come in any order and are not cancelled, and a word may   *)
(* be completed from a list that is no longer that of the text.            *)
(*                                                                         *)
(* Texts are sequences of keys, because a completion is an operation on    *)
(* them; what follows the caret is only there or not there.                *)
(***************************************************************************)
EXTENDS Naturals, Sequences, SequencesExt, FiniteSets

CONSTANTS
  Keys,       \* what a text is made of: "@", "~", "/", " ", and letters
  Typed,      \* bound: the keys that the user presses
  Known, Remote,  \* for every provider: the terms of the store, those of the server
  Names,      \* for every term of a user or a channel: what it is found by
  MaxText,    \* bound: keys before the caret
  MaxPressed, \* bound: keys pressed
  MaxAsked    \* bound: requests under way

Providers == {"users", "channels", "commands"}
Separators == {"@", "~", "/", " "}

ASSUME AutocompleteAssumption ==
  /\ {MaxText, MaxPressed, MaxAsked} \subseteq Nat
  /\ Typed \subseteq Keys
  /\ Known \in [Providers -> SUBSET Seq(Keys)] /\ Remote \in [Providers -> SUBSET Seq(Keys)]

VARIABLES
  text,       \* what is before the caret
  rest,       \* is there something after it
  pretext,    \* this.pretext: what the box thinks is before the caret
  timer,      \* the debounced text, if there is one: a set of at most one
  list,       \* the suggestions shown
  latest,     \* latestPrefix, latestComplete and requestStarted of users and channels
  memo,       \* data of users; the last prefixes and the last word of channels
  asked,      \* the requests under way
  stray,      \* history: why the list need not be that of the text
  mishap,     \* history: what the last completion was, besides a good one
  edits       \* how many keys were pressed

suggestVars == <<text, rest, pretext, timer, list, latest, memo, asked, stray, mishap, edits>>

Nothing == <<"none">>
Cleared == [matched |-> <<>>, terms |-> {}, spinner |-> {}]

----------------------------------------------------------------------------
(* What the providers look for in a text.                                  *)

\* Where the word that a provider completes begins in s: 0 if it does not.
Mark(s, key, stops) ==
  LET marks == {i \in 1..Len(s) : /\ s[i] = key
                                  /\ i = 1 \/ s[i - 1] \in Separators
                                  /\ \A j \in i + 1..Len(s) : s[j] \notin stops}
  IN  IF marks = {} THEN 0 ELSE CHOOSE i \in marks : \A j \in marks : j <= i

Begins(p, s) ==
  CASE p = "users"    -> Mark(s, "@", Separators)
    [] p = "channels" -> LET i == Mark(s, "~", {"~"}) IN IF i > 1 /\ s[i - 1] = "~" THEN 0 ELSE i
    [] p = "commands" -> IF s # <<>> /\ s[1] = "/" THEN 1 ELSE 0

\* The word with its first key, which is what a completion replaces.
Query(p, s) == IF Begins(p, s) = 0 THEN Nothing ELSE SubSeq(s, Begins(p, s), Len(s))

\* Without the spaces around what follows the first key.
Trim(q) ==
  LET inked == {i \in 2..Len(q) : q[i] # " "}
  IN  IF inked = {} THEN <<q[1]>> ELSE <<q[1]>> \o SubSeq(q, Min(inked), Max(inked))

\* The words of what follows the first key; of a user there is one, or none.
WordsOf(q) ==
  LET spaces == {1, Len(q) + 1} \cup {i \in 2..Len(q) : q[i] = " "}
      gaps == {g \in spaces \X spaces : g[1] + 1 < g[2] /\ (g[1] + 1..g[2] - 1) \cap spaces = {}}
  IN  {SubSeq(q, g[1] + 1, g[2] - 1) : g \in gaps}

\* Does the provider offer the term for q? A command begins like it. A user is
\* found by the parts of the username, the names and the nickname, a channel if
\* each word begins some word of its name or its display name; their terms need
\* not look like what was typed.
Found(p, term, q) ==
  IF p = "commands" THEN IsPrefix(Trim(q), term)
  ELSE /\ IsPrefix(<<q[1]>>, term)
       /\ \A word \in WordsOf(q) : \E name \in Names[term] : IsPrefix(word, name)

Matching(p, terms, q) == {t \in terms : Found(p, t, q)}

\* The first provider that has something to complete in s.
Handler(s) == IF Query("users", s) # Nothing THEN "users"
              ELSE IF Query("channels", s) # Nothing THEN "channels"
              ELSE IF Query("commands", s) # Nothing THEN "commands" ELSE "nobody"

----------------------------------------------------------------------------
(* The box.                                                                *)

\* addTextAtCaret when the matched text is before the caret.
Replaced(term, matched) == SubSeq(text, 1, Len(text) - Len(matched)) \o term \o <<" ">>

\* findOverlap of the text and the part of the term that was to be added.
Overlap(term, matched) ==
  LET tail == SubSeq(term, Len(matched) + 1, Len(term))
      ends == {n \in 1..Len(tail) : IsSuffix(SubSeq(tail, 1, n), text)}
  IN  IF ends = {} THEN 0 ELSE CHOOSE n \in ends : \A m \in ends : m <= n

\* addTextAtCaret and the rest of handleCompleteWord: the box is not told of
\* the new text. If the text has changed since the list was made, the word is
\* fitted in where it overlaps; if it does not, the rest is cut off. A click or
\* an answer does not look at the text, Enter looks at what the box knows of it.
CompleteWord(term, matched, spinner, unaware) ==
  LET n == Overlap(term, matched)
      kept == IF Len(text) > n + Len(matched) THEN Len(text) - n - Len(matched) ELSE 0
  IN  /\ text' = IF IsSuffix(matched, text) THEN Replaced(term, matched)
                 ELSE IF n = 0 THEN text
                 ELSE SubSeq(text, 1, kept) \o term \o <<" ">>
      /\ rest' = (rest /\ (IsSuffix(matched, text) \/ n # 0))
      /\ list' = Cleared
      /\ mishap' = IF term \in spinner THEN "spinner"
                   ELSE IF unaware /\ ~IsSuffix(matched, text) THEN "outdated" ELSE "none"

\* Every provider with a handleCompleteWord hears of the word; known is what
\* they remember otherwise.
Completed(known, term) == memo' = [known EXCEPT !.word = term, !.noResults = Nothing]

\* handleReceivedSuggestions, or handleReceivedSuggestionsAndComplete, which
\* completes the selected word, or the first.
Receive(complete, suggestions, known) ==
  IF complete /\ suggestions.terms \ {<<>>} # {}
  THEN \E term \in suggestions.terms \ {<<>>} :
         /\ CompleteWord(term, suggestions.matched, suggestions.spinner, TRUE)
         /\ Completed(known, term)
  ELSE /\ list' = suggestions
       /\ memo' = known
       /\ UNCHANGED <<text, rest, mishap>>

\* startNewRequest
Start(p, q) == latest' = [latest EXCEPT ![p] = [prefix |-> q, complete |-> FALSE, started |-> TRUE]]

Ask(p, q, complete) ==
  /\ Len(asked) < MaxAsked
  /\ asked' = Append(asked, [provider |-> p, query |-> q, complete |-> complete, waiting |-> p = "users"])

\* What users shows: of the store and of the last answer, what fits the latest prefix.
Users(data, q) ==
  Matching("users", Known["users"], q)
    \cup (IF data = Nothing THEN {} ELSE Matching("users", Matching("users", Remote["users"], data), q))

\* handlePretextChanged of users: local results at once, then the server is asked.
AskUsers(s, complete) ==
  LET q == Query("users", s)
  IN  /\ Start("users", q)
      /\ Ask("users", q, complete)
      /\ Receive(complete, [matched |-> q, terms |-> Users(memo.data, q), spinner |-> {}], memo)

Reset(p) == latest' = [latest EXCEPT ![p].started = FALSE]

\* Commands asks for them all, every time, and compares nothing.
AskCommands(s, complete, known) ==
  /\ Ask("commands", Query("commands", s), complete)
  /\ Reset("channels")
  /\ memo' = known
  /\ UNCHANGED <<text, rest, list, mishap>>

\* No provider handles the text; users is not told.
AskNobody(known) ==
  /\ Reset("channels")
  /\ list' = Cleared
  /\ memo' = known
  /\ UNCHANGED <<text, rest, asked, mishap>>

\* Channels has asked for that already; an answer under way will not be shown.
SameAgain(q) == Len(memo.trimmed) > 1 /\ Trim(q) = memo.trimmed

\* Channels gives up: there are no results, or the word was completed before.
GivesUp(q) == \/ Len(memo.noResults) > 1 /\ IsPrefix(memo.noResults, q)
              \/ memo.word # Nothing /\ IsPrefix(memo.word, q)

\* handlePretextChanged of channels. Its list has an item for the answer.
AskChannels(s, complete) ==
  LET q == Query("channels", s)
      spinner == {<<" ">>}
      known == [memo EXCEPT !.trimmed = Trim(q)]
  IN  \/ /\ SameAgain(q)
         /\ Reset("channels")
         /\ UNCHANGED <<text, rest, list, memo, asked, mishap>>
      \/ /\ ~SameAgain(q) /\ ~GivesUp(q)
         /\ Start("channels", q)
         /\ Ask("channels", q, complete)
         /\ Receive(complete, [matched |-> q, spinner |-> spinner,
                               terms |-> Matching("channels", Known["channels"], q) \cup spinner], [known EXCEPT !.word = Nothing])
      \/ /\ ~SameAgain(q) /\ GivesUp(q)
         /\ IF Query("commands", s) # Nothing THEN AskCommands(s, complete, known) ELSE AskNobody(known)

\* nonDebouncedPretextChanged: the first provider that handles the text.
PretextChanged(s, complete) ==
  /\ pretext' = s
  /\ stray' = (IF s # text THEN {"late"} ELSE {})
              \cup (IF Handler(s) = "channels" /\ SameAgain(Query("channels", s)) THEN {"same"} ELSE {})
  /\ CASE Handler(s) = "users"    -> AskUsers(s, complete)
       [] Handler(s) = "channels" -> AskChannels(s, complete)
       [] Handler(s) = "commands" -> AskCommands(s, complete, memo)
       [] Handler(s) = "nobody"   -> AskNobody(memo)

\* debouncedPretextChanged: the pause is over.
Debounced ==
  /\ timer' = {}
  /\ \E s \in timer : PretextChanged(s, FALSE)
  /\ UNCHANGED edits

----------------------------------------------------------------------------
(* The user.                                                               *)

\* handleChange and handlePretextChanged. A text that the box has already is
\* no change to it, even if a completion has put another there since.
Edit(s) ==
  /\ edits < MaxPressed
  /\ edits' = edits + 1
  /\ text' = s
  /\ pretext' = s
  /\ timer' = IF pretext = s THEN timer ELSE {s}
  /\ stray' = IF pretext = s THEN stray \cup {"late"} ELSE stray
  /\ mishap' = "none"
  /\ UNCHANGED <<rest, list, latest, memo, asked>>

Press(key) == Len(text) < MaxText /\ Edit(Append(text, key))
Backspace  == text # <<>> /\ Edit(Front(text))

\* Escape, the focus goes elsewhere.
Clear ==
  /\ list # Cleared
  /\ list' = Cleared
  /\ UNCHANGED <<text, rest, pretext, timer, latest, memo, asked, stray, mishap, edits>>

\* Some item of the list is not the one that stands for an answer.
HasSuggestions == (text # <<>> \/ rest) /\ list.terms \ list.spinner # {}

\* An item is clicked.
Click(term) ==
  /\ term \in list.terms \ list.spinner
  /\ CompleteWord(term, list.matched, list.spinner, TRUE)
  /\ Completed(memo, term)
  /\ UNCHANGED <<pretext, timer, latest, asked, stray, edits>>

\* Mutant of ListFits: the list is taken for that of the text.
ListAlwaysFits == TRUE

\* What the list would replace is still the end of the text.
ListFits == IsSuffix(list.matched, pretext)

\* handleKeyDown, with any item selected.
EnterCompletes(term) ==
  /\ HasSuggestions /\ ListFits
  /\ term \in list.terms
  /\ CompleteWord(term, list.matched, list.spinner, pretext # text)
  /\ Completed(memo, term)
  /\ UNCHANGED <<pretext, timer, latest, asked, stray, edits>>

\* The user was quicker than the debouncing: the providers are asked at once,
\* and their answers complete the word.
EnterAsks ==
  /\ HasSuggestions /\ ~ListFits
  /\ timer' = {}
  /\ PretextChanged(pretext, TRUE)
  /\ UNCHANGED edits

----------------------------------------------------------------------------
(* The answers.                                                            *)

\* Mutant of ShouldCancel: it is enough that a request was started.
CancelUnlessStarted(p, q) == ~latest[p].started

\* shouldCancelDispatch: nothing is awaited, or a newer answer has been shown.
ShouldCancel(p, q) == \/ ~latest[p].started
                      \/ q # latest[p].prefix /\ latest[p].complete

Seen(p, q) == latest' = [latest EXCEPT ![p].complete = @ \/ (latest[p].started /\ q = latest[p].prefix)]

Answered(i) == asked' = RemoveAt(asked, i)

\* The answer is shown although the text has changed since it was asked for:
\* users and channels compare it with what they were asked last, and are not
\* asked when another provider handles the text.
Stray(p) == stray' = (stray \ {"late"})
                     \cup (IF Handler(pretext) # p \/ pretext # text THEN {"late"} ELSE {})

\* The server's answer to users, without data if the request has failed.
UsersAnswer(i) ==
  LET r == asked[i]
      prefix == latest["users"].prefix
  IN  /\ r.provider = "users"
      /\ Answered(i) /\ Seen("users", r.query)
      /\ IF ShouldCancel("users", r.query)
         THEN UNCHANGED <<text, rest, list, memo, stray, mishap>>
         ELSE /\ \E data \in {r.query, Nothing} :
                   Receive(r.complete, [matched |-> prefix, terms |-> Users(data, prefix), spinner |-> {}],
                           [memo EXCEPT !.data = data])
              /\ Stray("users")
      /\ UNCHANGED <<pretext, timer, edits>>

ChannelsAnswer(i) ==
  LET r == asked[i]
      found == Matching("channels", Known["channels"] \cup Remote["channels"], r.query)
  IN  /\ r.provider = "channels"
      /\ Answered(i) /\ Seen("channels", r.query)
      /\ IF ShouldCancel("channels", r.query)
         THEN UNCHANGED <<text, rest, list, memo, stray, mishap>>
         ELSE /\ Receive(r.complete, [matched |-> r.query, terms |-> found, spinner |-> {}],
                         IF found = {} THEN [memo EXCEPT !.noResults = r.query] ELSE memo)
              /\ Stray("channels")
      /\ UNCHANGED <<pretext, timer, edits>>

CommandsAnswer(i) ==
  LET r == asked[i]
  IN  /\ r.provider = "commands"
      /\ Answered(i)
      /\ Receive(r.complete, [matched |-> r.query, spinner |-> {},
                              terms |-> Matching("commands", Remote["commands"], r.query)], memo)
      /\ stray' = (stray \ {"late"}) \cup (IF r.query # Query("commands", text) THEN {"late"} ELSE {})
      /\ UNCHANGED <<pretext, timer, latest, edits>>

\* A request of the others fails, and nothing is called.
AnswerFails(i) ==
  /\ asked[i].provider # "users"
  /\ Answered(i)
  /\ stray' = stray \cup {"failed"}
  /\ UNCHANGED <<text, rest, pretext, timer, list, latest, memo, mishap, edits>>

\* The server has not answered users for half a second.
Spinner(i) ==
  LET r == asked[i]
  IN  /\ r.waiting
      /\ asked' = [asked EXCEPT ![i].waiting = FALSE]
      /\ Seen("users", r.query)
      /\ IF ShouldCancel("users", r.query)
         THEN UNCHANGED <<text, rest, list, memo, stray, mishap>>
         ELSE /\ Receive(r.complete, [matched |-> latest["users"].prefix, spinner |-> {<<>>},
                                      terms |-> Users(memo.data, latest["users"].prefix) \cup {<<>>}],
                         memo)
              /\ Stray("users")
      /\ UNCHANGED <<pretext, timer, edits>>

----------------------------------------------------------------------------
SuggestInit ==
  /\ text = <<>> /\ rest \in BOOLEAN
  /\ pretext = <<>> /\ timer = {}
  /\ list = Cleared
  /\ latest = [p \in {"users", "channels"} |-> [prefix |-> <<>>, complete |-> TRUE, started |-> FALSE]]
  /\ memo = [data |-> Nothing, trimmed |-> <<>>, noResults |-> <<>>, word |-> Nothing]
  /\ asked = <<>>
  /\ stray = {} /\ mishap = "none" /\ edits = 0

SuggestNext ==
  \/ \E key \in Typed : Press(key)
  \/ Backspace \/ Clear
  \/ \E term \in list.terms : Click(term) \/ EnterCompletes(term)
  \/ EnterAsks
  \/ Debounced
  \/ \E i \in DOMAIN asked : \/ UsersAnswer(i) \/ ChannelsAnswer(i) \/ CommandsAnswer(i)
                             \/ AnswerFails(i) \/ Spinner(i)

SuggestSpec == SuggestInit /\ [][SuggestNext]_suggestVars

----------------------------------------------------------------------------
(* Properties.                                                             *)

\* Once everything has been answered, the list is that of the word before the
\* caret, and it is not waiting for an answer: in whatever order the answers
\* came. Except a list brought by an answer or a pause for a text that has
\* since been left, or that came back to what the box had made of it
\* (suggestion_box.jsx:292), one whose request failed, and that of a channel to
\* which only spaces were added, or of which they were taken away.
ListSettles ==
  timer = {} /\ asked = <<>> /\ stray = {} /\ list # Cleared
    => \E p \in Providers : Begins(p, text) # 0 /\ list.matched = Query(p, text) /\ list.spinner = {}

\* A completion puts a word in the place of one that it was offered for, and
\* keeps what is before that word and what follows the caret, however late Enter
\* comes. Except when the item of an awaited answer is taken for a word, and when
\* a click, an answer, or Enter after a completion meets a text that the list
\* was not made for.
CompletionKeepsText ==
  [][edits' = edits /\ <<text, rest>>' # <<text, rest>> /\ mishap' = "none"
       => /\ rest' = rest
          /\ \E k \in 0..Len(text) - 1, p \in Providers : \E term \in Known[p] \cup Remote[p] :
               /\ Found(p, term, SubSeq(text, k + 1, Len(text)))
               /\ text' = SubSeq(text, 1, k) \o term \o <<" ">>]_suggestVars
=============================================================================
