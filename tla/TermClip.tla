------------------------------- MODULE TermClip -------------------------------
(***************************************************************************)
(* What enters and leaves a terminal besides its output                    *)
(* (frontend/app/view/term/termwrap.ts, termutil.ts, osc-handlers.ts,      *)
(* term-model.ts, term.tsx, element/search.tsx; the paste keys of          *)
(* emain/emain-menu.ts): pasting text and images piece by piece while      *)
(* other pastes and keys come between and the view is made anew, copying   *)
(* by key, menu and selection while a search moves the selection, what a   *)
(* program asks for by escape sequences, live and when its output is       *)
(* replayed, and reading the buffer as text.                               *)
(*                                                                         *)
(* External: xterm, which hands pasted text and its answers to queries to  *)
(* onData, and forgets its selection with its view; the browser's          *)
(* clipboard, which takes writes in order.                                 *)
(***************************************************************************)
EXTENDS Integers, SequencesExt

CONSTANTS
    Contents,    \* what may be put on the clipboard: sequences of Item
    MaxPastes,   \* bound on the pastes
    MaxInput,    \* bound on what is typed and what programs ask for
    MaxViews2,   \* bound on the terminals made for the block
    Clipboards,  \* clipboards that are read: sequences of Item
    Buffers      \* buffers that are read as text: sequences of rows

VARIABLES
    clip,    \* [items: what the clipboard holds, by: who put it there]
    wrap,    \* [gen: TermWraps made, loaded, mirrors: multiInputCallback set?]
    pastes,  \* pastes under way: [id, gen, todo: data still to be pasted]
    asked,   \* what each paste found on the clipboard
    broken,  \* pastes that met an image that could not be saved or another view
    sent,    \* input of the block's controller: [v, paste, mirrored]
    echoed,  \* input of the other terminal's
    sel,     \* the terminal's selection: [text, by], and whether its 50 ms run
    selTimer,
    find,    \* [open: is the search open?, focused: is its input the active element?]
    hurried, \* did the focus leave the search while its selection's 50 ms ran?
    output,  \* sequences that programs wrote: "copy", "query", "dir" or "bell"
    applied, \* numbers of those that had an effect, in order
    paint,   \* [sync: inSyncTransaction, repaint: inRepaintTransaction, span: what came since the last end of a
             \*  transaction, last: what came before that end, scrolled: did that end scroll to the bottom?]
    reading  \* what is read as text or asked of the paste keys: <<>> or <<kind, ...>>

clipVars == <<clip, wrap, pastes, asked, broken, sent, echoed, sel, selTimer, find, hurried, output, applied, paint, reading>>
inVars == <<pastes, asked, broken>>
outVars == <<output, applied, paint>>
selVars == <<sel, selTimer, find, hurried>>

\* What is empty: a text, or the type of data without one.
Blank == ""
\* Texts, those that the model itself brings by name.
Data == STRING \cup {Blank, "key", "nl", "answer", "program", "match", "sel"}
\* Files are images or something else; what is copied as a string has a type that can
\* be pasted or another one.
Item == [kind : {"file"}, type : {"image", "pdf"}, val : Data \ {Blank}]
        \cup [kind : {"string"}, type : {"plain", "html", Blank, "pdf"}, val : Data]
BufferRow == [text : Seq(STRING), wraps : BOOLEAN]
ASSUME ClipAssumption == Contents \subseteq Seq(Item) /\ Clipboards \subseteq Seq(Item) /\ Buffers \subseteq Seq(BufferRow)

NoSel == [text |-> Blank, by |-> "none"]
NoPaint == [sync |-> FALSE, repaint |-> FALSE, span |-> <<>>, last |-> <<>>, scrolled |-> FALSE]
Text(t) == <<[kind |-> "string", type |-> "plain", val |-> t]>>

----------------------------------------------------------------------------
(* termutil.ts *)

\* The elements of s at the places of which, in order.
Only(s, which) ==
    LET f[k \in 0 .. Len(s)] == IF k = 0 THEN <<>> ELSE IF k \in which THEN Append(f[k - 1], s[k]) ELSE f[k - 1]
    IN  f[Len(s)]
IsImage(i) == i.kind = "file" /\ i.type = "image"
Images(items) == Only(items, {i \in DOMAIN items : IsImage(items[i])})
OfType(items, t) == Only(items, {i \in DOMAIN items : items[i].kind = "string" /\ items[i].type = t})
\* The data of the first text: none when it is empty.
FirstText(items) == IF Head(items).val = Blank THEN <<>> ELSE <<Head(items)>>
extractDataTransferItems(items) ==
    IF Images(items) # <<>> THEN Images(items)
    ELSE IF OfType(items, "plain") # <<>> THEN FirstText(OfType(items, "plain"))
    ELSE IF OfType(items, "html") # <<>> THEN FirstText(OfType(items, "html"))
    ELSE IF OfType(items, Blank) # <<>> THEN FirstText(OfType(items, Blank))
    ELSE <<>>
\* A ClipboardItem knows types only.
extractClipboardData(items) ==
    LET Of(t) == Only(items, {i \in DOMAIN items : items[i].type = t})
    IN  IF Of("image") # <<>> THEN <<Head(Of("image"))>>
        ELSE IF Of("plain") # <<>> THEN FirstText(Of("plain"))
        ELSE IF Of("html") # <<>> THEN FirstText(Of("html"))
        ELSE IF Of(Blank) # <<>> THEN FirstText(Of(Blank)) ELSE <<>>

\* Rows [text, wraps: continues the row before?] of a buffer to logical lines;
\* a line is the sequence of its rows' texts.
Clamped(n, buffer) == IF n < 0 THEN 0 ELSE IF n > Len(buffer) THEN Len(buffer) ELSE n
Joined(lines, row) ==
    IF row.wraps /\ lines # <<>> THEN [lines EXCEPT ![Len(lines)] = @ \o row.text] ELSE Append(lines, row.text)
WithoutBlankEnd(lines) ==
    LET full == {i \in DOMAIN lines : lines[i] # <<>>}
    IN  SubSeq(lines, 1, IF full = {} THEN 0 ELSE CHOOSE i \in full : \A j \in full : j <= i)
bufferLinesToText(buffer, startIndex, endIndex) ==
    LET from == Clamped(startIndex, buffer)
        to == Clamped(endIndex, buffer)
        rows == IF to > from THEN to - from ELSE 0
        lines[n \in 0 .. rows] == IF n = 0 THEN <<>> ELSE Joined(lines[n - 1], buffer[from + n])
    IN  IF to >= Len(buffer) THEN WithoutBlankEnd(lines[rows]) ELSE lines[rows]

----------------------------------------------------------------------------
(* Input *)

\* handleTermData: nothing is sent while the terminal loads.  A terminal that
\* was disposed hands over nothing.
Sent(v, gen, paste) ==
    IF wrap.loaded /\ gen = wrap.gen
    THEN /\ sent' = Append(sent, [v |-> v, paste |-> paste, mirrored |-> wrap.mirrors])
         /\ echoed' = IF wrap.mirrors THEN Append(echoed, v) ELSE echoed
    ELSE UNCHANGED <<sent, echoed>>

\* A key that the terminal does not take for itself.
Types == Len(sent) < MaxInput /\ Sent("key", wrap.gen, 0) /\ UNCHANGED <<clip, wrap, inVars, outVars, selVars, reading>>
\* Shift-Enter, and the keys for the line's ends: sendDataToController, to this block alone.
sendDataToController ==
    /\ Len(sent) < MaxInput
    /\ sent' = Append(sent, [v |-> "nl", paste |-> 0, mirrored |-> FALSE])
    /\ UNCHANGED <<clip, wrap, inVars, echoed, outVars, selVars, reading>>

\* pasteHandler, to the end of extractAllClipboardData.
PasteBegins ==
    /\ Len(asked) < MaxPastes
    /\ asked' = Append(asked, clip.items)
    /\ pastes' = Append(pastes, [id |-> Len(asked) + 1, gen |-> wrap.gen, todo |-> extractDataTransferItems(clip.items)])
    /\ UNCHANGED <<clip, wrap, broken, sent, echoed, outVars, selVars, reading>>
Breaks(p) == broken' = IF wrap.loaded /\ p.gen = wrap.gen THEN broken ELSE broken \cup {p.id}
\* The loop's next round: text at once, an image when createTempFileFromBlob answers.
PasteGoesOn(i) ==
    LET p == pastes[i]
    IN  /\ p.todo # <<>>
        /\ Sent(Head(p.todo).val, p.gen, p.id)
        /\ Breaks(p)
        /\ pastes' = [pastes EXCEPT ![i] = [p EXCEPT !.todo = Tail(@)]]
        /\ UNCHANGED <<clip, wrap, asked, outVars, selVars, reading>>
\* It throws: the image is too large or of an unknown kind, or it is not written.
PasteFails(i) ==
    /\ pastes[i].todo # <<>> /\ IsImage(Head(pastes[i].todo))
    /\ pastes' = RemoveAt(pastes, i)
    /\ broken' = broken \cup {pastes[i].id}
    /\ UNCHANGED <<clip, wrap, asked, sent, echoed, outVars, selVars, reading>>
PasteEnds(i) ==
    /\ pastes[i].todo = <<>>
    /\ pastes' = RemoveAt(pastes, i)
    /\ UNCHANGED <<clip, wrap, asked, broken, sent, echoed, outVars, selVars, reading>>

\* The effect of term.tsx on isTermMultiInput and the focus.
MultiInput ==
    /\ wrap' = [wrap EXCEPT !.mirrors = ~@]
    /\ UNCHANGED <<clip, inVars, sent, echoed, outVars, selVars, reading>>
\* A change of the settings makes another TermWrap.
ViewAgain ==
    /\ wrap.gen < MaxViews2
    /\ wrap' = [gen |-> wrap.gen + 1, loaded |-> FALSE, mirrors |-> FALSE]
    /\ sel' = NoSel /\ selTimer' = FALSE
    /\ paint' = NoPaint
    /\ UNCHANGED <<clip, inVars, sent, echoed, find, hurried, output, applied, reading>>

----------------------------------------------------------------------------
(* osc-handlers.ts and the other handlers of escape sequences *)

\* Mutant: what is replayed is handled like what is new.
HandlesReplayed(loaded) == TRUE
Handles(loaded) == loaded
\* handleOsc52Command, with the setting term:osc52 and the focus as they are, of
\* data that is well-formed and small enough or not.
handleOsc52Command(n) ==
    \E focusOnly, inFocus, valid \in BOOLEAN :
        IF Handles(wrap.loaded) /\ (focusOnly => inFocus) /\ valid
        THEN clip' = [items |-> Text("program"), by |-> "program"] /\ applied' = Append(applied, n)
        ELSE UNCHANGED <<clip, applied>>
\* handleOsc7Command, of a path or of something else, and the bell.
handleOsc7Command(n) ==
    \E valid \in BOOLEAN : applied' = IF Handles(wrap.loaded) /\ valid THEN Append(applied, n) ELSE applied
Bell(n) == applied' = IF Handles(wrap.loaded) THEN Append(applied, n) ELSE applied
ProgramAsks(what) ==
    /\ Len(output) < MaxInput
    /\ output' = Append(output, what)
    /\ LET n == Len(output) + 1
       IN  CASE what = "copy"  -> handleOsc52Command(n) /\ UNCHANGED <<sent, echoed>>
             [] what = "dir"   -> handleOsc7Command(n) /\ UNCHANGED <<clip, sent, echoed>>
             [] what = "bell"  -> Bell(n) /\ UNCHANGED <<clip, sent, echoed>>
             [] what = "query" -> /\ Sent("answer", wrap.gen, 0)
                                  /\ applied' = IF wrap.loaded THEN Append(applied, n) ELSE applied
                                  /\ UNCHANGED clip
    /\ UNCHANGED <<wrap, inVars, selVars, paint, reading>>
\* loadInitialTerminalData: the file's sequences are handled again.
ReplaysFile ==
    /\ ~wrap.loaded
    /\ applied' = IF Handles(wrap.loaded) THEN applied \o [n \in DOMAIN output |-> n] ELSE applied
    /\ wrap' = [wrap EXCEPT !.loaded = TRUE]
    /\ UNCHANGED <<clip, inVars, sent, echoed, selVars, output, paint, reading>>

\* The handlers of CSI 3 J and of the mode 2026, which do not ask for loaded;
\* the 2000 ms since the clearing are over or not.
ClearScrollback(p) == [p EXCEPT !.repaint = @ \/ p.sync]
Painted(p, what) ==
    CASE what = "begin" -> [p EXCEPT !.sync = TRUE, !.span = Append(@, what)]
      [] what = "clear" -> [ClearScrollback(p) EXCEPT !.span = Append(@, what)]
Paints(what) ==
    /\ Len(paint.span) < 3
    /\ paint' = Painted(paint, what)
    /\ UNCHANGED <<clip, wrap, inVars, sent, echoed, selVars, output, applied, reading>>
PaintEnds ==
    /\ \E recent \in BOOLEAN :
         paint' = [sync |-> FALSE, repaint |-> FALSE, span |-> <<>>, last |-> paint.span, scrolled |-> paint.repaint /\ recent]
    /\ UNCHANGED <<clip, wrap, inVars, sent, echoed, selVars, output, applied, reading>>

----------------------------------------------------------------------------
(* Copying and searching *)

Selects(s) == sel' = s /\ selTimer' = TRUE
\* With the mouse, in the terminal: the focus goes there.
UserSelects(t) ==
    /\ Selects(IF t = Blank THEN NoSel ELSE [text |-> t, by |-> "user"])
    /\ find' = [find EXCEPT !.focused = FALSE]
    /\ UNCHANGED <<clip, wrap, inVars, sent, echoed, hurried, outVars, reading>>
\* Cmd-f: it opens, or takes the focus again.
SearchOpens ==
    /\ find' = [open |-> TRUE, focused |-> TRUE]
    /\ UNCHANGED <<clip, wrap, inVars, sent, echoed, sel, selTimer, hurried, outVars, reading>>
\* executeSearch, of what is typed in the search, of Enter and of its buttons.
executeSearch ==
    /\ find.open /\ find.focused
    /\ Selects([text |-> "match", by |-> "search"])
    /\ UNCHANGED <<clip, wrap, inVars, sent, echoed, find, hurried, outVars, reading>>
Hurries == hurried' = (hurried \/ (selTimer /\ sel.by = "search"))
\* Escape or its button; giveFocus.
SearchCloses ==
    /\ find.open
    /\ find' = [open |-> FALSE, focused |-> FALSE]
    /\ Hurries
    /\ UNCHANGED <<clip, wrap, inVars, sent, echoed, sel, selTimer, outVars, reading>>
\* The focus goes to another block by a key.
FocusLeaves ==
    /\ find.focused
    /\ find' = [find EXCEPT !.focused = FALSE]
    /\ Hurries
    /\ UNCHANGED <<clip, wrap, inVars, sent, echoed, sel, selTimer, outVars, reading>>
InSearch == find.focused
\* The debounced onSelectionChange, with the setting term:copyonselect as it is.
SelectionTimer ==
    /\ selTimer
    /\ selTimer' = FALSE
    /\ \E copyOnSelect \in BOOLEAN :
         clip' = IF copyOnSelect /\ ~InSearch /\ sel.text # Blank
                 THEN [items |-> Text(sel.text), by |-> sel.by] ELSE clip
    /\ UNCHANGED <<wrap, inVars, sent, echoed, sel, find, hurried, outVars, reading>>
\* Ctrl-Shift-c in the terminal and "Copy" in its menu: what is selected, by whomever.
Copies ==
    /\ sel.text # Blank
    /\ clip' = [items |-> Text(sel.text), by |-> "user"]
    /\ UNCHANGED <<wrap, inVars, sent, echoed, selVars, outVars, reading>>
\* Elsewhere in the system something is copied.
CopiesElsewhere(items) ==
    /\ clip' = [items |-> items, by |-> "user"]
    /\ UNCHANGED <<wrap, inVars, sent, echoed, selVars, outVars, reading>>

----------------------------------------------------------------------------
(* The keys that paste, of a page and of the menu *)

Platforms == {"darwin", "win32", "linux"}
\* app:ctrlvpaste is not set, or a set of its value.
CtrlVSettings == {{}, {TRUE}, {FALSE}}
shouldHandleCtrlVPaste(platform, ctrlv) ==
    platform # "darwin" /\ (IF ctrlv # {} THEN TRUE \in ctrlv ELSE platform = "win32")
\* makeEditMenu's accelerator for Paste.
pasteAccelerator(platform, ctrlv) ==
    IF platform = "darwin" THEN "Command+V"
    ELSE IF ctrlv = {} THEN (IF platform = "win32" THEN "Control+V" ELSE Blank)
    ELSE IF TRUE \in ctrlv THEN "Control+V" ELSE Blank

\* Something is read as text, or the keys are looked up.  The rest of the state
\* has no part in it: it is done at first, and a behavior ends with it.
AtFirst == wrap.gen = 1 /\ ~wrap.mirrors /\ asked = <<>> /\ sent = <<>> /\ output = <<>> /\ sel = NoSel /\ ~selTimer /\ ~find.open /\ paint = NoPaint
Reads(r) ==
    /\ reading' = r
    /\ UNCHANGED <<clip, wrap, inVars, sent, echoed, selVars, outVars>>
Readings ==
    {<<"rows", b, from, to>> : b \in Buffers, from \in -1..3, to \in -1..3}
    \cup {<<"keys", p, c>> : p \in Platforms, c \in CtrlVSettings}
    \cup {<<"items", c>> : c \in Clipboards}

----------------------------------------------------------------------------
ClipInit ==
    /\ clip \in {[items |-> c, by |-> "user"] : c \in Contents}
    /\ wrap = [gen |-> 1, loaded |-> TRUE, mirrors |-> FALSE]
    /\ pastes = <<>> /\ asked = <<>> /\ broken = {}
    /\ sent = <<>> /\ echoed = <<>>
    /\ sel = NoSel /\ selTimer = FALSE
    /\ find = [open |-> FALSE, focused |-> FALSE] /\ hurried = FALSE
    /\ output = <<>> /\ applied = <<>> /\ paint = NoPaint /\ reading = <<>>
ClipNext ==
    /\ reading = <<>>
    /\ \/ Types \/ sendDataToController \/ PasteBegins \/ MultiInput \/ ViewAgain \/ ReplaysFile
       \/ \E i \in DOMAIN pastes : PasteGoesOn(i) \/ PasteFails(i) \/ PasteEnds(i)
       \/ \E what \in {"copy", "query", "dir", "bell"} : ProgramAsks(what)
       \/ \E what \in {"begin", "clear"} : Paints(what)
       \/ PaintEnds
       \/ \E t \in {Blank, "sel"} : UserSelects(t)
       \/ SearchOpens \/ executeSearch \/ SearchCloses \/ FocusLeaves \/ SelectionTimer \/ Copies
       \/ \E items \in Contents : CopiesElsewhere(items)
       \/ AtFirst /\ \E r \in Readings : Reads(r)
ClipSpec == ClipInit /\ [][ClipNext]_clipVars

----------------------------------------------------------------------------
(* Properties *)

\* Of several images all are pasted; of texts the first of the plainest kind
\* there is (the modes that extractDataTransferItems describes).
Plainness(type) == CASE type = "plain" -> 1 [] type = "html" -> 2 [] type = Blank -> 3
Plainest(items) ==
    LET texts == {i \in DOMAIN items : items[i].kind = "string" /\ items[i].type \in {"plain", "html", Blank}}
    IN  {i \in texts : \A j \in texts :
            \/ Plainness(items[i].type) < Plainness(items[j].type)
            \/ Plainness(items[i].type) = Plainness(items[j].type) /\ i <= j}
DataOf(items) == [n \in DOMAIN items |-> items[n].val]
Wanted(items) ==
    LET pictures == {i \in DOMAIN items : IsImage(items[i])}
        picked == {i \in (IF pictures # {} THEN pictures ELSE Plainest(items)) : items[i].val # Blank}
    IN  DataOf(Only(items, picked))
InputValues(input) == [n \in DOMAIN input |-> input[n].v]
\* What came of each paste reached the shell in the clipboard's order; of one
\* that ended something is missing only when an image failed, or while the
\* terminal loaded or was another one.
PastesKept ==
    \A p \in DOMAIN asked :
        LET got == InputValues(Only(sent, {i \in DOMAIN sent : sent[i].paste = p}))
            want == Wanted(asked[p])
        IN  /\ Len(got) <= Len(want)
            /\ \A i \in DOMAIN got : \E k \in i..Len(want) : want[k] = got[i]
            /\ \A i, j \in DOMAIN got : i < j => \E k, l \in DOMAIN want : k < l /\ want[k] = got[i] /\ want[l] = got[j]
            /\ (p \notin broken /\ \A i \in DOMAIN pastes : pastes[i].id # p) => got = want
\* No match of a search is copied that nobody asked to copy.
CopiesMeant == clip.by = "search" => hurried
\* Each sequence of a program has its effect at most once, in order, however
\* often the terminal is made anew.
ReplaySilent == \A i, j \in DOMAIN applied : i < j => applied[i] < applied[j]
\* The other terminal gets once what is typed and pasted while it mirrors this one.
EchoedOnce == echoed = InputValues(Only(sent, {i \in DOMAIN sent : sent[i].mirrored}))
\* It is scrolled to the bottom after a clearing within a transaction only.
ScrollsAfterClear ==
    paint.scrolled => \E i, j \in DOMAIN paint.last : i < j /\ paint.last[i] = "begin" /\ paint.last[j] = "clear"

\* The texts of the i-th to the j-th row.
RowsText(b, i, j) == FlattenSeq([k \in 1..(j - i + 1) |-> b[i + k - 1].text])
\* The lines from row "from" to the one before "to", each from its first row to
\* the one before the next line's; blank ones at the buffer's end are left out.
WantedLines(b, from, to) ==
    LET starts == Only([i \in 1..to |-> i], {i \in from + 1..to : i = from + 1 \/ ~b[i].wraps})
        EndOf(n) == IF n = Len(starts) THEN to ELSE starts[n + 1] - 1
        lines == [n \in DOMAIN starts |-> RowsText(b, starts[n], EndOf(n))]
    IN  IF to < Len(b) THEN lines
        ELSE SubSeq(lines, 1, Cardinality({n \in DOMAIN lines : \E k \in n..Len(lines) : lines[k] # <<>>}))
Agrees(r) ==
    CASE r[1] = "rows" ->
           bufferLinesToText(r[2], r[3], r[4]) = WantedLines(r[2], Clamped(r[3], r[2]), Clamped(r[4], r[2]))
      [] r[1] = "items" ->
           /\ DataOf(extractDataTransferItems(r[2])) = Wanted(r[2])
           /\ Len(Images(r[2])) > 1 \/ extractClipboardData(r[2]) = extractDataTransferItems(r[2])
      [] r[1] = "keys" ->
           r[2] = "darwin" \/ (shouldHandleCtrlVPaste(r[2], r[3]) <=> pasteAccelerator(r[2], r[3]) = "Control+V")
\* The buffer's text is what its rows say, a clipboard is read alike through
\* both interfaces, and the page and the menu agree on which key pastes.
ReadsRight == reading # <<>> => Agrees(reading)

\* What is pasted, copied, mirrored, replayed and read as text is what was meant.
ClipTells == PastesKept /\ CopiesMeant /\ ReplaySilent /\ EchoedOnce /\ ScrollsAfterClear /\ ReadsRight
=============================================================================
