------------------------------ MODULE TermOutput ------------------------------
(***************************************************************************)
(* What a terminal block shows (frontend/app/view/term/termwrap.ts): the   *)
(* output restored from the block's cached screen and its file, the file   *)
(* events that follow, and the screens saved to the cache while idle.      *)
(*                                                                         *)
(* A terminal is made anew when the page is loaded and when a setting      *)
(* changes; the one before is disposed, but its idle loop runs on.  Output *)
(* is chunks of length 1, numbered as the shell wrote them.  The file is   *)
(* not so long that its ring wraps.  External: the backend's file, its     *)
(* events, and the two steps in which it saves a screen.                   *)
(***************************************************************************)
EXTENDS Integers, SequencesExt

CONSTANTS
    MinProcessed,   \* MinDataProcessedForCache
    MaxOutput,      \* bound on the chunks written
    MaxTerms,       \* bound on the terminals made
    MaxClears       \* bound on truncations of the file

ASSUME TermOutputAssumption == MinProcessed \in Nat

VARIABLES
    file,       \* the block's file: [data, made: chunks written so far, clears: truncations]
    cache,      \* the cached screen: [text, offset]; <<>> when there is none
    saves,      \* screens on their way to the cache: [text, offset, half: is the text written?]
    news,       \* file events on their way to the page: chunks, or "truncate"
    terms,      \* the terminals, the last one is shown
    spoiled     \* history: did one of the cases happen that the README lists?
termVars == <<file, cache, saves, news, terms, spoiled>>

NoCache == [text |-> <<>>, offset |-> 0]
Shown == terms[Len(terms)]
Change(T) == terms' = [terms EXCEPT ![Len(terms)] = T]

\* The constructor and what initTerminal does before its first answer; stage is
\* where loadInitialTerminalData is.
NewTerm == [live |-> TRUE, stage |-> "cache", text |-> <<>>, writes |-> <<>>,
            held |-> <<>>, ptyOffset |-> 0, processed |-> 0, from |-> 0]
Loaded(T) == T.stage = "loaded"

----------------------------------------------------------------------------
(* External: the backend. *)

Output ==
    /\ file.made < MaxOutput
    /\ file' = [file EXCEPT !.data = Append(@, file.made + 1), !.made = @ + 1]
    /\ news' = Append(news, file.made + 1)
    /\ UNCHANGED <<cache, saves, terms, spoiled>>

\* HandleTruncateBlockFile: the file is emptied, its cached screen deleted.
Truncate ==
    /\ file.clears < MaxClears
    /\ file' = [file EXCEPT !.data = <<>>, !.clears = @ + 1]
    /\ cache' = NoCache
    /\ news' = Append(news, 0)
    /\ spoiled' = TRUE
    /\ UNCHANGED <<saves, terms>>

\* SaveTerminalState: the text first, then the offset.
SaveText(i) ==
    /\ ~saves[i].half
    /\ cache' = [cache EXCEPT !.text = saves[i].text]
    /\ saves' = [saves EXCEPT ![i].half = TRUE]
    /\ spoiled' = (spoiled \/ \E j \in DOMAIN saves : saves[j].half)
    /\ UNCHANGED <<file, news, terms>>
SaveOffset(i) ==
    /\ saves[i].half
    /\ cache' = [cache EXCEPT !.offset = saves[i].offset]
    /\ saves' = RemoveAt(saves, i)
    /\ UNCHANGED <<file, news, terms, spoiled>>

----------------------------------------------------------------------------
(* termwrap.ts *)

\* doTerminalWrite: the terminal parses its writes in order.  A write that sets the
\* offset does not count as processed.
doTerminalWrite(T, data, offset) ==
    [T EXCEPT !.writes = Append(@, [data |-> data, offset |-> offset])]
Counted == -1      \* setPtyOffset is null

\* term.tsx: the effect disposes of the terminal and makes one with the new settings.
Create ==
    /\ Len(terms) < MaxTerms
    /\ terms' = Append([i \in DOMAIN terms |-> [terms[i] EXCEPT !.live = FALSE]], NewTerm)
    /\ UNCHANGED <<file, cache, saves, news, spoiled>>

\* The page is loaded again: no terminal of it is left, nor an event for them.
ReloadPage ==
    /\ Len(terms) \in 1..(MaxTerms - 1)
    /\ terms' = Append([i \in DOMAIN terms |-> [NewTerm EXCEPT !.live = FALSE, !.stage = "gone"]], NewTerm)
    /\ news' = <<>>
    /\ UNCHANGED <<file, cache, saves, spoiled>>

\* loadInitialTerminalData: first the cached screen is fetched and written.
FetchCache ==
    /\ terms # <<>>
    /\ Shown.stage = "cache"
    /\ LET T == [Shown EXCEPT !.stage = "main", !.from = cache.offset]
       IN  Change(IF cache.text = <<>> THEN T ELSE doTerminalWrite(T, cache.text, cache.offset))
    /\ spoiled' = (spoiled \/ \E j \in DOMAIN saves : saves[j].half)
    /\ UNCHANGED <<file, cache, saves, news>>
\* Then the file from the screen's offset on.
RestOfFile(T) == SubSeq(file.data, T.from + 1, Len(file.data))
FetchMain ==
    /\ terms # <<>>
    /\ Shown.stage = "main"
    /\ Change(doTerminalWrite([Shown EXCEPT !.stage = "parse"], RestOfFile(Shown), Counted))
    /\ UNCHANGED <<file, cache, saves, news, spoiled>>

\* The parser takes the next write of a terminal; the last one it waits for loads it.
Parse(i) ==
    /\ terms[i].writes # <<>>
    /\ LET T == terms[i]
           w == T.writes[1]
           P == [T EXCEPT !.writes = Tail(@), !.text = @ \o w.data]
       IN  terms' = [terms EXCEPT ![i] =
               IF w.offset # Counted THEN [P EXCEPT !.ptyOffset = w.offset]
               ELSE [P EXCEPT !.ptyOffset = @ + Len(w.data), !.processed = @ + Len(w.data),
                              !.stage = IF @ = "parse" THEN "loaded" ELSE @]]
    /\ UNCHANGED <<file, cache, saves, news, spoiled>>

\* handleNewFileSubjectData.  What comes before the terminal is loaded is held, and
\* not looked at again: it is lost unless the file was read after it was written.
InFetch(T, chunk) == \E j \in DOMAIN T.writes : Contains(T.writes[j].data, chunk)
LostOrTwice(T, chunk) ==
    \/ T.stage = "parse" /\ ~InFetch(T, chunk)
    \/ Loaded(T) /\ (Contains(T.text, chunk) \/ InFetch(T, chunk))
\* Mutant: what comes while the file is read is written at once.
HandleAtOnce(T, chunk) ==
    IF chunk = 0 THEN [T EXCEPT !.text = <<>>, !.held = <<>>] ELSE doTerminalWrite(T, <<chunk>>, Counted)
handleNewFileSubjectData(T, chunk) ==
    IF chunk = 0 THEN [T EXCEPT !.text = <<>>, !.held = <<>>]
    ELSE IF Loaded(T) THEN doTerminalWrite(T, <<chunk>>, Counted)
    ELSE [T EXCEPT !.held = Append(@, chunk)]
Deliver ==
    /\ news # <<>>
    /\ terms # <<>>
    /\ Change(handleNewFileSubjectData(Shown, news[1]))
    /\ spoiled' = (spoiled \/ LostOrTwice(Shown, news[1]))
    /\ news' = Tail(news)
    /\ UNCHANGED <<file, cache, saves>>

Screen(T) == [text |-> T.text, offset |-> T.ptyOffset, half |-> FALSE]
\* processAndCacheData, every five seconds when idle, also by a disposed terminal.
processAndCacheData(i) ==
    /\ Loaded(terms[i])
    /\ terms[i].processed >= MinProcessed
    /\ saves' = Append(saves, Screen(terms[i]))
    /\ terms' = [terms EXCEPT ![i].processed = 0]
    /\ UNCHANGED <<file, cache, news, spoiled>>

TermOutputInit ==
    /\ file = [data |-> <<>>, made |-> 0, clears |-> 0]
    /\ cache = NoCache
    /\ saves = <<>> /\ news = <<>> /\ terms = <<>>
    /\ spoiled = FALSE
TermOutputNext ==
    \/ Output \/ Truncate \/ Create \/ ReloadPage \/ FetchCache \/ FetchMain \/ Deliver
    \/ \E i \in DOMAIN saves : SaveText(i) \/ SaveOffset(i)
    \/ \E i \in DOMAIN terms : Parse(i) \/ processAndCacheData(i)
TermOutputSpec == TermOutputInit /\ [][TermOutputNext]_termVars

----------------------------------------------------------------------------
(* Properties *)

\* A loaded terminal that has nothing left to read shows the file from its start to
\* its end, each chunk once, and so does the cached screen with its offset, whatever
\* terminals were made, disposed of and saved their screens before
\* (termwrap.ts:496-553, 592-603): unless output came while one was loading, the file
\* was truncated, or a screen was saved during another save or a load.
ShowsFile ==
    ~spoiled =>
        /\ (terms # <<>> /\ Loaded(Shown) /\ Shown.writes = <<>> /\ news = <<>>) => Shown.text = file.data
        /\ (\A i \in DOMAIN saves : ~saves[i].half)
              => cache.text = SubSeq(file.data, 1, cache.offset)
=============================================================================
