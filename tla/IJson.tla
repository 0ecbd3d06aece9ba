-------------------------------- MODULE IJson --------------------------------
(***************************************************************************)
(* Documents that are changed by commands (frontend/util/ijson.ts): a      *)
(* value is set, deleted or appended at a path, containers on the way are  *)
(* made when they are missing and removed when a deletion empties them;    *)
(* and comparing documents (frontend/util/util.ts).                        *)
(*                                                                         *)
(* A document is null, a leaf, an object or an array.  The parts of a path *)
(* are the names "a" and "b" and the indexes "0" to "2".  `force`, which   *)
(* no command sets, and malformed commands are left out.                   *)
(***************************************************************************)
EXTENDS Integers, SequencesExt, FiniteSetsExt

CONSTANTS MaxCommands, MaxPath \* bounds on the commands and on the length of their paths

VARIABLES
    doc,
    last  \* the last command: [type, path, value, before: the document, ok: it did not throw]
ijsonVars == <<doc, last>>

----------------------------------------------------------------------------
(* Values and paths *)

Fields == {"a", "b"}
IndexOf == [i \in {"0", "1", "2"} |-> CASE i = "0" -> 1 [] i = "1" -> 2 [] i = "2" -> 3]
Null == [t |-> "null"]
Leaf == [t |-> "leaf"]
Obj(fields) == [t |-> "obj", fields |-> fields]
Arr(items) == [t |-> "arr", items |-> items]
Thrown == [t |-> "error"]
isEmpty(v) == v = Null \/ (v.t = "obj" /\ v.fields = <<>>) \/ (v.t = "arr" /\ v.items = <<>>)

\* obj[part], null when there is none.
Child(v, part) ==
    IF part \in Fields THEN IF v.t = "obj" /\ part \in DOMAIN v.fields THEN v.fields[part] ELSE Null
    ELSE IF v.t = "arr" /\ IndexOf[part] \in DOMAIN v.items THEN v.items[IndexOf[part]] ELSE Null
getPath(v, path) == FoldLeft(Child, v, path)

----------------------------------------------------------------------------
(* setPathInternal *)

\* obj[part] = x; an array gets holes up to the index.
Put(v, part, x) ==
    IF part \in Fields THEN Obj([n \in DOMAIN v.fields \cup {part} |-> IF n = part THEN x ELSE v.fields[n]])
    ELSE LET i == IndexOf[part] IN
         Arr([j \in 1..Max({i, Len(v.items)}) |->
                IF j = i THEN x ELSE IF j \in DOMAIN v.items THEN v.items[j] ELSE Null])
\* Mutant: the item in the middle is taken out, and those after it move.
removeFromArrShifts(items, i) ==
    LET rest == IF i > Len(items) THEN items ELSE RemoveAt(items, i) IN IF rest = <<>> THEN Null ELSE Arr(rest)
removeFromArr(items, i) ==
    IF i > Len(items) THEN Arr(items)
    ELSE IF i < Len(items) THEN Arr([items EXCEPT ![i] = Null])
    ELSE IF i = 1 THEN Null ELSE Arr(SubSeq(items, 1, i - 1))
\* delete obj[part], and the container with its last field.
Without(v, part) ==
    IF part \in Fields
    THEN LET rest == [n \in DOMAIN v.fields \ {part} |-> v.fields[n]] IN IF rest = <<>> THEN Null ELSE Obj(rest)
    ELSE removeFromArr(v.items, IndexOf[part])
combineFn_arrayAppend(old, x) ==
    CASE old = Null     -> Arr(<<x>>)
      [] old.t = "arr"  -> Arr(Append(old.items, x))
      [] OTHER          -> Thrown

RECURSIVE setPathInternal(_, _, _, _)
setPathInternal(v, path, x, type) ==
    IF path = <<>> THEN IF type = "append" THEN combineFn_arrayAppend(v, x) ELSE x
    ELSE IF v = Null /\ type = "del" THEN Null
    ELSE LET part == Head(path)
             here == IF v # Null THEN v ELSE IF part \in Fields THEN Obj(<<>>) ELSE Arr(<<>>)
             inner == setPathInternal(Child(here, part), Tail(path), x, type)
         IN  IF here.t # (IF part \in Fields THEN "obj" ELSE "arr") THEN Thrown
             ELSE IF type = "del" /\ Len(path) = 1 THEN Without(here, part)
             ELSE IF inner = Thrown THEN Thrown
             ELSE IF type = "del" /\ inner = Null THEN Without(here, part)
             ELSE Put(here, part, inner)

----------------------------------------------------------------------------
(* jsonDeepEqual (util.ts): an array and an object are compared by their   *)
(* keys, and have none in common                                           *)

Count(v) == IF v.t = "obj" THEN Cardinality(DOMAIN v.fields) ELSE Len(v.items)
RECURSIVE jsonDeepEqual(_, _)
jsonDeepEqual(v, w) ==
    IF {v, w} \cap {Null, Leaf} # {} THEN v = w
    ELSE /\ Count(v) = Count(w)
         /\ CASE v.t = "arr" /\ w.t = "arr" -> \A i \in DOMAIN v.items : jsonDeepEqual(v.items[i], w.items[i])
              [] v.t = "obj" /\ w.t = "obj" -> \A n \in DOMAIN v.fields : n \in DOMAIN w.fields /\ jsonDeepEqual(v.fields[n], w.fields[n])
              [] OTHER                      -> Count(v) = 0

----------------------------------------------------------------------------

Paths == BoundedSeq(Fields \cup {"0", "2"}, MaxPath)
Values == {Leaf, Null, Obj(<<>>), Arr(<<>>)}
\* applyCommand; what throws has changed
\* nothing yet.
applyCommand(type, path, x) ==
    LET new == setPathInternal(doc, path, x, type) IN
    /\ last.n < MaxCommands
    /\ doc' = IF new = Thrown THEN doc ELSE new
    /\ last' = [n |-> last.n + 1, type |-> type, path |-> path, value |-> x, before |-> doc, ok |-> new # Thrown]

StartDocs == {
    Null, Obj("a" :> Obj("b" :> Leaf)), Arr(<<Leaf, Leaf, Leaf>>),
    Obj("a" :> Arr(<<Leaf, Obj("b" :> Leaf), Leaf>>) @@ "b" :> Leaf)}
IJsonInit ==
    /\ doc \in StartDocs
    /\ last = [n |-> 0, type |-> "set", path |-> <<>>, value |-> doc, before |-> doc, ok |-> TRUE]
IJsonNext == \E path \in Paths :
    \/ \E x \in Values : applyCommand("set", path, x) \/ (x # Null /\ applyCommand("append", path, x))
    \/ applyCommand("del", path, Null)

----------------------------------------------------------------------------
(* Properties *)

\* No field of an object is null or an empty container.
RECURSIVE Tidy(_)
Tidy(v) == ~isEmpty(v) /\ (v.t = "obj" => \A n \in DOMAIN v.fields : Tidy(v.fields[n]))
Apart(p, q) == ~IsPrefix(p, q) /\ ~IsPrefix(q, p)
\* What a path leads to is changed by commands at it, above it or below it alone.
OthersStay == last.n > 0 => \A q \in Paths : Apart(q, last.path) => getPath(doc, q) = getPath(last.before, q)
\* What was set is read, what was deleted is not, and what was appended comes after what
\* was there.
ReadsBack == last.ok =>
    LET now == getPath(doc, last.path)
        was == getPath(last.before, last.path)
    IN  CASE last.type = "set"    -> now = last.value
          [] last.type = "del"    -> now = Null
          [] last.type = "append" -> now = Arr(Append(IF was = Null THEN <<>> ELSE was.items, last.value))
\* A deletion leaves no empty container on its way, but for an array that was empty before.
NothingEmptyLeft == last.ok /\ last.type = "del" =>
    \A i \in 0..(Len(last.path) - 1) :
        LET q == SubSeq(last.path, 1, i) IN
        isEmpty(getPath(doc, q)) => getPath(doc, q) = Null \/ getPath(last.before, q) = Arr(<<>>)
\* A leaf that was set where there was nothing, under names alone, is taken away again with
\* all that was made for it.
UndoneByDelete ==
    last.ok /\ last.type = "set" /\ last.value = Leaf /\ last.path # <<>> /\ Range(last.path) \subseteq Fields
    /\ (last.before = Null \/ Tidy(last.before)) /\ getPath(last.before, last.path) = Null
        => setPathInternal(doc, last.path, Null, "del") = last.before
\* Two documents are equal when they are the same, but that an empty array and an empty
\* object are alike (util.ts:84-120).
RECURSIVE Shape(_)
Shape(v) ==
    IF v.t = "obj" THEN Obj([n \in DOMAIN v.fields |-> Shape(v.fields[n])])
    ELSE IF v.t = "arr" /\ v.items # <<>> THEN Arr([i \in DOMAIN v.items |-> Shape(v.items[i])])
    ELSE IF v.t = "arr" THEN Obj(<<>>) ELSE v
EqualIfSame == \A w \in StartDocs \cup {doc, last.before} :
    jsonDeepEqual(doc, w) = (Shape(doc) = Shape(w)) /\ jsonDeepEqual(w, doc) = jsonDeepEqual(doc, w)
\* Commands keep the laws of a store of paths (ijson.ts:33-58, 140-209), and documents
\* compare as they should.
PathLaws == OthersStay /\ ReadsBack /\ NothingEmptyLeft /\ UndoneByDelete /\ EqualIfSame
=============================================================================
