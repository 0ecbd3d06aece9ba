------------------------------ MODULE ConfigEditor ------------------------------
(***************************************************************************)
(* The editor of the configuration files                                   *)
(* (frontend/app/view/doraconfig/doraconfig-model.ts, doraconfig.tsx): one *)
(* text, loaded from and saved to the file that is selected, with calls    *)
(* that may fail and be answered in any order.  No file has a validator or *)
(* a visual component, so there is one view and nothing discards edits but *)
(* the loading of another file.                                            *)
(*                                                                         *)
(* External: the files, which only this editor writes, and the metadata of *)
(* the block.                                                              *)
(***************************************************************************)
EXTENDS Integers, FiniteSets

CONSTANTS
    MaxEdits,   \* bound on what is typed
    MaxSelects, \* bound on files selected
    MaxConfFails \* bound on calls that fail

VARIABLES
    disk,        \* the text of each file
    metaFile,    \* the file in the block's metadata, "" when there is none
    editor,      \* [file: selectedFileAtom, text: fileContentAtom, edited: hasEditedAtom, loading: isLoadingAtom,
                 \*  saving: isSavingAtom, error: is there an errorMessage?, invalid: a validationError?]
    presetsSeen, \* presetsJsonExistsAtom
    checking,    \* is the check for presets.json under way?
    reads,       \* files that are being read
    writes,      \* texts being written: [file, text]
    muddled,     \* did the user act while a file was read or written, or could one not be read?
    edits, selects, confFails
confVars == <<disk, metaFile, editor, presetsSeen, checking, reads, writes, muddled, edits, selects, confFails>>

ConfigFiles == {"settings", "widgets"}
Deprecated == "presets"
ConfFiles == ConfigFiles \cup {Deprecated}
NoFile == ""

\* Texts: nothing, what is shown for nothing, an object before and after it was formatted,
\* JSON that is not an object, and what is not JSON.
Texts == {"", "skeleton", "raw", "neat", "list", "bad"}
IsObject(t) == t \in {"skeleton", "raw", "neat"}
Formatted(t) == CASE t = "raw" -> "neat" [] OTHER -> t
ShownText(t) == IF t = "" THEN "skeleton" ELSE t

Busy == reads # {} \/ writes # {}
Acted == muddled' = (muddled \/ Busy)
Quick == UNCHANGED <<disk, presetsSeen, checking, confFails>>

----------------------------------------------------------------------------
(* loadFile *)

\* The text shown stays until the file is read, without its mark of being edited.
BeginsLoad(e) == [e EXCEPT !.loading = TRUE, !.error = FALSE, !.edited = FALSE]
FileRead(e, f) == [e EXCEPT !.loading = FALSE, !.text = ShownText(disk[f]), !.file = f]
\* The file selected before stays selected, with no text.
ReadFails(e) == [e EXCEPT !.loading = FALSE, !.text = "", !.error = TRUE]

ReadAnswers(f) ==
    /\ f \in reads
    /\ reads' = reads \ {f}
    /\ editor' = FileRead(editor, f)
    /\ metaFile' = f
    /\ UNCHANGED <<disk, presetsSeen, checking, writes, muddled, edits, selects, confFails>>
ReadRefused(f) ==
    /\ f \in reads /\ confFails < MaxConfFails
    /\ reads' = reads \ {f}
    /\ editor' = ReadFails(editor)
    /\ confFails' = confFails + 1
    /\ muddled' = TRUE
    /\ UNCHANGED <<disk, metaFile, presetsSeen, checking, writes, edits, selects>>

----------------------------------------------------------------------------
(* saveFile *)

Invalid(e) == [e EXCEPT !.invalid = TRUE]
BeginsSave(e) == [e EXCEPT !.saving = TRUE, !.error = FALSE, !.invalid = FALSE]
\* What was written is shown, whatever is shown by then.
Saved(e, text) == [e EXCEPT !.saving = FALSE, !.text = text, !.edited = FALSE]
\* Mutant: a text that could not be saved counts as saved.
SaveFailsUnmarked(e) == [e EXCEPT !.saving = FALSE, !.error = TRUE, !.edited = FALSE]
SaveFails(e) == [e EXCEPT !.saving = FALSE, !.error = TRUE]

saveFile ==
    /\ editor.file # NoFile /\ editor.edited /\ ~editor.saving
    /\ IF editor.text = "" \/ IsObject(editor.text)
       THEN editor' = BeginsSave(editor) /\ writes' = writes \cup {[file |-> editor.file, text |-> Formatted(editor.text)]}
       ELSE editor' = Invalid(editor) /\ UNCHANGED writes
    /\ Acted /\ Quick
    /\ UNCHANGED <<metaFile, reads, edits, selects>>
WriteAnswers(w) ==
    /\ w \in writes
    /\ writes' = writes \ {w}
    /\ disk' = [disk EXCEPT ![w.file] = w.text]
    /\ editor' = Saved(editor, w.text)
    /\ UNCHANGED <<metaFile, presetsSeen, checking, reads, muddled, edits, selects, confFails>>
WriteFails(w) ==
    /\ w \in writes /\ confFails < MaxConfFails
    /\ writes' = writes \ {w}
    /\ editor' = SaveFails(editor)
    /\ confFails' = confFails + 1
    /\ UNCHANGED <<disk, metaFile, presetsSeen, checking, reads, muddled, edits, selects>>

----------------------------------------------------------------------------
(* The view *)

\* handleContentChange; while a file is loaded there is no editor.
Type(t) ==
    /\ editor.file # NoFile /\ ~editor.loading /\ edits < MaxEdits
    /\ t # editor.text
    /\ editor' = [editor EXCEPT !.text = t, !.edited = TRUE]
    /\ edits' = edits + 1
    /\ Acted /\ Quick
    /\ UNCHANGED <<metaFile, reads, writes, selects>>
\* handleFileSelect, when edits may be discarded.
handleFileSelect(f) ==
    /\ f # editor.file /\ selects < MaxSelects
    /\ f = Deprecated => presetsSeen
    /\ editor' = BeginsLoad(editor)
    /\ reads' = reads \cup {f}
    /\ selects' = selects + 1
    /\ Acted /\ Quick
    /\ UNCHANGED <<metaFile, writes, edits>>
\* clearError and clearValidationError.
ClearErrors ==
    /\ editor.error \/ editor.invalid
    /\ editor' \in {[editor EXCEPT !.error = FALSE], [editor EXCEPT !.invalid = FALSE]}
    /\ editor' # editor
    /\ Quick
    /\ UNCHANGED <<metaFile, reads, writes, muddled, edits, selects>>
checkPresetsJsonExists ==
    /\ checking
    /\ checking' = FALSE
    /\ presetsSeen' \in BOOLEAN
    /\ UNCHANGED <<disk, metaFile, editor, reads, writes, muddled, edits, selects, confFails>>

\* initialize: the file of the metadata is loaded when it is one that is known; of
\* presets.json that is not known yet.
InitialFile(m) == IF m \in ConfigFiles THEN m ELSE "settings"
ConfInit ==
    /\ disk \in [ConfFiles -> {"", "raw"}]
    /\ metaFile \in ConfFiles \cup {NoFile}
    /\ editor = [file |-> NoFile, text |-> "", edited |-> FALSE, loading |-> TRUE, saving |-> FALSE,
                 error |-> FALSE, invalid |-> FALSE]
    /\ presetsSeen = FALSE /\ checking = TRUE
    /\ reads = {InitialFile(metaFile)} /\ writes = {} /\ muddled = FALSE
    /\ edits = 0 /\ selects = 0 /\ confFails = 0
ConfNext ==
    \/ saveFile \/ ClearErrors \/ checkPresetsJsonExists
    \/ \E f \in ConfFiles : ReadAnswers(f) \/ ReadRefused(f) \/ handleFileSelect(f)
    \/ \E w \in writes : WriteAnswers(w) \/ WriteFails(w)
    \/ \E t \in Texts : Type(t)
ConfSpec == ConfInit /\ [][ConfNext]_confVars

----------------------------------------------------------------------------
(* Properties *)

\* When nothing is read or written the editor shows what the selected file holds or says
\* that it was edited, also when it could not be saved.  It is not so when the user went on
\* while a file was read or written, as the answer replaces what was typed and is put under
\* the file selected meanwhile, or when a file could not be read, as the one selected before
\* is then shown without its text (doraconfig-model.ts:203-296).
EditorTells ==
    (~Busy /\ ~muddled /\ editor.file # NoFile /\ ~editor.edited )
        => ShownText(editor.text) = ShownText(disk[editor.file]) /\ metaFile = editor.file
=============================================================================
