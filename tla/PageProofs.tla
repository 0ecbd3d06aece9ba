------------------------------ MODULE PageProofs ------------------------------
(***************************************************************************)
(* Proofs about parts of a page, each for every bound and any number of    *)
(* pages.                                                                  *)
(***************************************************************************)
EXTENDS TabName, ConfigEditor, TabBar, PageFocus, PageKeys, TermMenu, Badges, TreeView,
        AppKeys, DataLemmas

-----------------------------------------------------------------------------
(* TabName: a name that a page does not show yet is on its way, or was passed over *)

NameText == Names \cup {""}
NameType ==
  /\ name \in Names /\ vertical \in BOOLEAN
  /\ known \in [NamePages -> Names] /\ shown \in [NamePages -> NameText]
  /\ originalName \in [NamePages -> Names]
  /\ editing \subseteq NamePages
  /\ renames \in Seq(Names) /\ nameNews \in [NamePages -> Seq(Names)]
  /\ refused \in Nat /\ passedOver \subseteq NamePages

\* Name n is in a call under way, or on its way to page p.
Coming(p, n) ==
  \/ \E i \in 1 .. Len(renames): renames[i] = n
  \/ \E i \in 1 .. Len(nameNews[p]): nameNews[p][i] = n

\* Each page has, or will have, the stored name; it shows what it has, or else a name that
\* differs from that will come, and be written by React, or one such was passed over.
NameInv ==
  /\ NameType
  /\ \A p \in NamePages:
       /\ originalName[p] = truncateTabName(known[p])
       /\ IF nameNews[p] = <<>> THEN known[p] = name ELSE nameNews[p][Len(nameNews[p])] = name
       /\ p \notin editing \cup passedOver /\ refused = 0 =>
            \/ truncateTabName(shown[p]) = truncateTabName(known[p])
            \/ \E n \in Names: Coming(p, n) /\ truncateTabName(n) # truncateTabName(known[p])

LEMMA Truncated ==
  /\ \A n \in Names: n \in NameText /\ truncateTabName(n) \in Names
  /\ \A n \in NameText:
       truncateTabName(n) \in NameText /\ truncateTabName(truncateTabName(n)) = truncateTabName(n)
  BY DEF truncateTabName, Names, NameText

LEMMA NameInitInv == NameInit => NameInv
<1> SUFFICES ASSUME NameInit PROVE NameInv
  OBVIOUS
<1>1. name \in Names /\ truncateTabName(name) \in Names
  BY Truncated DEF NameInit
<1>2. NameType
  <2>1. \A x \in Names: [p \in NamePages |-> x] \in [NamePages -> Names]
    OBVIOUS
  <2>2. \A x \in Names: [p \in NamePages |-> x] \in [NamePages -> NameText]
    BY Truncated
  <2>3. /\ known \in [NamePages -> Names] /\ shown \in [NamePages -> NameText]
        /\ originalName \in [NamePages -> Names]
    BY <1>1, <2>1, <2>2 DEF NameInit
  <2>4. renames \in Seq(Names) /\ nameNews \in [NamePages -> Seq(Names)]
    BY DEF NameInit
  <2> QED
    BY <2>3, <2>4 DEF NameInit, NameType
<1> QED
  BY <1>1, <1>2, Truncated DEF NameInit, NameInv, NameType

\* The end of an edit: the name that is left was the page's, or it is sent.
LEMMA HandleBlurInv ==
  ASSUME NameInv, NEW p \in NamePages, NEW text \in NameText, handleBlur(p, text),
         NEW text2, text2 = NewText(text, originalName[p])
  PROVE  NameInv'
<1>0. /\ renames \in Seq(Names) /\ originalName[p] \in Names /\ originalName[p] = truncateTabName(known[p])
      /\ known[p] \in Names /\ shown \in [NamePages -> NameText]
  BY DEF NameInv, NameType
<1>1. text2 \in Names
  <2>1. text2 = NewText(text, originalName[p])
    OBVIOUS
  <2>2. text \in Names \/ text = ""
    BY Zenon DEF NameText
  <2>3. text = "" => NewText(text, originalName[p]) = originalName[p]
    BY Zenon DEF NewText
  <2>4. text # "" => NewText(text, originalName[p]) = text
    BY Zenon DEF NewText
  <2> QED
    BY <1>0, <2>1, <2>2, <2>3, <2>4, Zenon
<1>2. /\ editing' = editing \ {p} /\ shown' = [shown EXCEPT ![p] = text2]
      /\ renames' = IF Sends(text2, originalName[p]) THEN Append(renames, text2) ELSE renames
      /\ UNCHANGED <<name, known, originalName, nameNews, vertical, passedOver, refused>>
  BY DEF handleBlur
<1>3. Sends(text2, originalName[p]) \/ text2 = originalName[p]
  BY DEF Sends
<1>4. /\ renames' \in Seq(Names)
      /\ \A i \in 1 .. Len(renames): i \in 1 .. Len(renames') /\ renames'[i] = renames[i]
      /\ Sends(text2, originalName[p]) => Len(renames) + 1 \in 1 .. Len(renames') /\ renames'[Len(renames) + 1] = text2
  <2>1. CASE Sends(text2, originalName[p])
    <3>1. renames' = Append(renames, text2)
      BY <1>2, <2>1
    <3> QED
      BY <1>0, <1>1, <3>1, Appended
  <2>2. CASE ~Sends(text2, originalName[p])
    <3>1. renames' = renames
      BY <1>2, <2>2
    <3> QED
      BY <1>0, <2>2, <3>1
  <2> QED
    BY <2>1, <2>2
<1>5. NameType'
  BY <1>1, <1>2, <1>4, Truncated DEF NameInv, NameType
<1>6. \A q \in NamePages, n \in Names: Coming(q, n) => Coming(q, n)'
  BY <1>2, <1>4 DEF Coming
<1>7. Sends(text2, originalName[p]) => Coming(p, text2)'
  <2>1. Sends(text2, originalName[p]) => Len(renames) + 1 \in 1 .. Len(renames') /\ renames'[Len(renames) + 1] = text2
    BY <1>4
  <2>2. Sends(text2, originalName[p]) => \E i \in 1 .. Len(renames'): renames'[i] = text2
    BY <2>1
  <2> QED
    BY <2>2 DEF Coming
<1>9. ASSUME NEW q \in NamePages, q \notin editing' \cup passedOver', refused' = 0
      PROVE  \/ truncateTabName(shown'[q]) = truncateTabName(known[q])
             \/ \E n \in Names: Coming(q, n)' /\ truncateTabName(n) # truncateTabName(known[q])
  <2>1. CASE q = p
    <3>1. shown'[p] = text2
      BY <1>0, <1>2
    <3>2. text2 = originalName[p] => truncateTabName(text2) = truncateTabName(known[p])
      BY <1>0, Truncated
    <3> QED
      <4>1. CASE Sends(text2, originalName[p]) /\ truncateTabName(text2) # truncateTabName(known[p])
        <5>1. Coming(p, text2)'
          BY <1>7, <4>1
        <5> QED
          BY <1>1, <2>1, <4>1, <5>1
      <4>2. CASE truncateTabName(text2) = truncateTabName(known[p])
        BY <2>1, <3>1, <4>2
      <4> QED
        BY <1>3, <3>2, <4>1, <4>2
  <2>2. CASE q # p
    <3>1. q \notin editing \cup passedOver /\ refused = 0 /\ shown'[q] = shown[q]
      BY <1>0, <1>2, <1>9, <2>2
    <3>2. \/ truncateTabName(shown[q]) = truncateTabName(known[q])
          \/ \E n \in Names: Coming(q, n) /\ truncateTabName(n) # truncateTabName(known[q])
      BY <3>1 DEF NameInv
    <3> QED
      BY <1>6, <3>1, <3>2
  <2> QED
    BY <2>1, <2>2
<1>10. ASSUME NEW q \in NamePages
       PROVE  /\ originalName'[q] = truncateTabName(known'[q])
              /\ IF nameNews'[q] = <<>> THEN known'[q] = name' ELSE nameNews'[q][Len(nameNews'[q])] = name'
              /\ q \notin editing' \cup passedOver' /\ refused' = 0 =>
                   \/ truncateTabName(shown'[q]) = truncateTabName(known'[q])
                   \/ \E n \in Names: Coming(q, n)' /\ truncateTabName(n) # truncateTabName(known'[q])
  BY <1>2, <1>9 DEF NameInv
<1> QED
  BY <1>2, <1>5, <1>10 DEF NameInv, truncateTabName

LEMMA NameArrivesInv ==
  ASSUME NameInv, NEW p \in NamePages, NameArrives(p)
  PROVE  NameInv'
<1> DEFINE new == Head(nameNews[p])
           q0 == nameNews[p]
<1>0. /\ q0 \in Seq(Names) /\ q0 # <<>> /\ q0[Len(q0)] = name
      /\ known \in [NamePages -> Names] /\ originalName \in [NamePages -> Names]
      /\ shown \in [NamePages -> NameText] /\ nameNews \in [NamePages -> Seq(Names)]
  BY DEF NameInv, NameType, NameArrives
<1>1. /\ new \in Names /\ new = q0[1]
      /\ Tail(q0) \in Seq(Names) /\ Len(Tail(q0)) = Len(q0) - 1 /\ Len(q0) \in Nat \ {0}
      /\ \A i \in 1 .. Len(Tail(q0)): Tail(q0)[i] = q0[i + 1]
      /\ \A i \in 2 .. Len(q0): i - 1 \in 1 .. Len(Tail(q0)) /\ Tail(q0)[i - 1] = q0[i]
  BY <1>0, Shortened
<1>2. /\ nameNews' = [nameNews EXCEPT ![p] = Tail(q0)]
      /\ known' = [known EXCEPT ![p] = new]
      /\ shown' = [shown EXCEPT ![p] = IF truncateTabName(new) # truncateTabName(known[p]) THEN truncateTabName(new)
                                       ELSE shown[p]]
      /\ passedOver' = IF truncateTabName(new) # truncateTabName(known[p]) THEN passedOver \ {p} ELSE passedOver
      /\ originalName' = [originalName EXCEPT ![p] = truncateTabName(new)]
      /\ UNCHANGED <<name, editing, renames, vertical, refused>>
  BY DEF NameArrives, Differs
<1>3. truncateTabName(new) \in Names
  BY <1>1, Truncated
<1>4. NameType'
  BY <1>0, <1>1, <1>2, <1>3, Truncated DEF NameInv, NameType
<1>6. nameNews'[p] = Tail(q0) /\ known'[p] = new /\ originalName'[p] = truncateTabName(new)
  BY <1>0, <1>2
<1>5. /\ p \notin editing \cup passedOver /\ refused = 0 =>
          \/ truncateTabName(shown[p]) = truncateTabName(known[p])
          \/ \E n \in Names: Coming(p, n) /\ truncateTabName(n) # truncateTabName(known[p])
      /\ \A n \in Names: Coming(p, n) => (\E i \in 1 .. Len(renames): renames[i] = n) \/ \E i \in 1 .. Len(q0): q0[i] = n
  BY DEF NameInv, Coming
<1> HIDE DEF new, q0
<1>7. IF nameNews'[p] = <<>> THEN known'[p] = name' ELSE nameNews'[p][Len(nameNews'[p])] = name'
  <2>1. q0[Len(q0)] = name
    BY <1>0
  <2>2. CASE Tail(q0) = <<>>
    <3>1. Len(q0) = 1
      BY <1>0, <2>2, Shortened
    <3> QED
      BY <1>1, <1>2, <1>6, <2>1, <2>2, <3>1
  <2>3. CASE Tail(q0) # <<>>
    <3>0. Len(Tail(q0)) # 0
      BY <1>1, <2>3
    <3>1. Len(q0) \in 2 .. Len(q0)
      BY <1>1, <3>0
    <3>2. Tail(q0)[Len(q0) - 1] = name
      BY <1>1, <2>1, <3>1
    <3> QED
      BY <1>1, <1>2, <1>6, <2>3, <3>2
  <2> QED
    BY <2>2, <2>3
<1>8. ASSUME p \notin editing \cup passedOver', refused = 0
      PROVE  \/ truncateTabName(shown'[p]) = truncateTabName(new)
             \/ \E n \in Names: Coming(p, n)' /\ truncateTabName(n) # truncateTabName(new)
  <2>1. CASE truncateTabName(new) # truncateTabName(known[p])
    <3>1. shown'[p] = truncateTabName(new)
      BY <1>0, <1>2, <2>1
    <3> QED
      BY <1>1, <3>1, Truncated
  <2>2. CASE truncateTabName(new) = truncateTabName(known[p]) /\ truncateTabName(shown[p]) = truncateTabName(known[p])
    <3>1. shown'[p] = shown[p]
      BY <1>0, <1>2, <2>2
    <3> QED
      BY <2>2, <3>1
  <2>3. CASE /\ truncateTabName(new) = truncateTabName(known[p])
             /\ \E n \in Names: Coming(p, n) /\ truncateTabName(n) # truncateTabName(known[p])
    <3>1. PICK n \in Names: Coming(p, n) /\ truncateTabName(n) # truncateTabName(known[p])
      BY <2>3
    <3>2. n # new
      BY <2>3, <3>1
    <3>3. Coming(p, n)'
      <4>1. CASE \E i \in 1 .. Len(renames): renames[i] = n
        BY <1>2, <4>1 DEF Coming
      <4>2. CASE \E i \in 1 .. Len(q0): q0[i] = n
        <5>1. PICK i \in 1 .. Len(q0): q0[i] = n
          BY <4>2
        <5>2. i # 1
          BY <1>1, <3>2, <5>1
        <5>3. i \in 2 .. Len(q0)
          BY <1>1, <5>2
        <5>4. i - 1 \in 1 .. Len(Tail(q0)) /\ Tail(q0)[i - 1] = n
          BY <1>1, <5>1, <5>3
        <5> QED
          BY <1>6, <5>4 DEF Coming
      <4> QED
        BY <1>5, <3>1, <4>1, <4>2
    <3> QED
      BY <2>3, <3>1, <3>3
  <2>4. truncateTabName(new) = truncateTabName(known[p]) => p \notin editing \cup passedOver
    BY <1>2, <1>8
  <2> QED
    BY <1>5, <1>8, <2>1, <2>2, <2>3, <2>4
<1>9. ASSUME NEW q \in NamePages, q # p
      PROVE  /\ nameNews'[q] = nameNews[q] /\ known'[q] = known[q] /\ shown'[q] = shown[q]
             /\ originalName'[q] = originalName[q] /\ \A n \in Names: Coming(q, n)' <=> Coming(q, n)
             /\ q \in passedOver' <=> q \in passedOver
  <2>1. nameNews'[q] = nameNews[q] /\ renames' = renames
    BY <1>0, <1>2, <1>9
  <2>2. \A n \in Names: Coming(q, n)' <=> Coming(q, n)
    BY <2>1 DEF Coming
  <2> QED
    BY <1>0, <1>2, <1>9, <2>1, <2>2
<1>10. ASSUME NEW q \in NamePages
       PROVE  /\ originalName'[q] = truncateTabName(known'[q])
              /\ IF nameNews'[q] = <<>> THEN known'[q] = name' ELSE nameNews'[q][Len(nameNews'[q])] = name'
              /\ q \notin editing' \cup passedOver' /\ refused' = 0 =>
                  \/ truncateTabName(shown'[q]) = truncateTabName(known'[q])
                  \/ \E n \in Names: Coming(q, n)' /\ truncateTabName(n) # truncateTabName(known'[q])
  <2>1. CASE q = p
    BY <1>2, <1>6, <1>7, <1>8, <2>1
  <2>2. CASE q # p
    BY <1>2, <1>9, <2>2 DEF NameInv
  <2> QED
    BY <2>1, <2>2
<1> QED
  BY <1>2, <1>4, <1>10 DEF NameInv, truncateTabName

LEMMA NamePassesInv ==
  ASSUME NameInv, NEW p \in NamePages, NamePasses(p)
  PROVE  NameInv'
<1> DEFINE q0 == nameNews[p]
<1>0. /\ q0 \in Seq(Names) /\ Len(q0) > 1 /\ q0[Len(q0)] = name /\ nameNews \in [NamePages -> Seq(Names)]
  BY DEF NameInv, NameType, NamePasses
<1>1. /\ Head(q0) = q0[1] /\ q0[1] \in Names
      /\ Tail(q0) \in Seq(Names) /\ Len(Tail(q0)) = Len(q0) - 1 /\ Len(q0) \in Nat \ {0}
      /\ \A i \in 2 .. Len(q0): i - 1 \in 1 .. Len(Tail(q0)) /\ Tail(q0)[i - 1] = q0[i]
  BY <1>0, Shortened
<1>2. /\ nameNews' = [nameNews EXCEPT ![p] = Tail(q0)]
      /\ passedOver' = IF truncateTabName(q0[1]) # truncateTabName(known[p]) THEN passedOver \cup {p} ELSE passedOver
      /\ UNCHANGED <<name, known, shown, originalName, editing, renames, vertical, refused>>
  BY <1>1 DEF NamePasses, Differs
<1>3. NameType'
  BY <1>0, <1>1, <1>2 DEF NameInv, NameType
<1>4. /\ nameNews'[p] = Tail(q0)
      /\ \A q \in NamePages \ {p}: nameNews'[q] = nameNews[q]
  BY <1>0, <1>2
<1>5. /\ Tail(q0) # <<>> /\ Tail(q0)[Len(Tail(q0))] = name
  <2>1. Len(q0) \in 2 .. Len(q0)
    BY <1>0, <1>1
  <2>2. Tail(q0)[Len(q0) - 1] = name /\ Len(Tail(q0)) # 0
    BY <1>0, <1>1, <2>1
  <2>3. Len(Tail(q0)) = Len(q0) - 1
    BY <1>1
  <2>4. Tail(q0)[Len(Tail(q0))] = name
    BY <2>2, <2>3, Zenon
  <2>5. Tail(q0) = <<>> => Len(Tail(q0)) = 0
    <3>1. Len(<<>>) = 0
      OBVIOUS
    <3> QED
      BY <3>1, Zenon
  <2> QED
    BY <2>2, <2>4, <2>5, Zenon
<1>6. ASSUME NEW n \in Names, Coming(p, n), n # q0[1] PROVE Coming(p, n)'
  <2>1. CASE \E i \in 1 .. Len(renames): renames[i] = n
    BY <1>2, <2>1 DEF Coming
  <2>2. CASE \E i \in 1 .. Len(q0): q0[i] = n
    <3>1. PICK i \in 1 .. Len(q0): q0[i] = n
      BY <2>2
    <3>2. i \in 2 .. Len(q0)
      BY <1>1, <1>6, <3>1
    <3>3. i - 1 \in 1 .. Len(Tail(q0)) /\ Tail(q0)[i - 1] = n
      BY <1>1, <3>1, <3>2
    <3> QED
      BY <1>4, <3>3 DEF Coming
  <2> QED
    BY <1>6, <2>1, <2>2 DEF Coming
<1>7. ASSUME NEW q \in NamePages, q # p, NEW n \in Names, Coming(q, n) PROVE Coming(q, n)'
  BY <1>2, <1>4, <1>7 DEF Coming
<1>8. ASSUME NEW q \in NamePages, q \notin editing' \cup passedOver', refused' = 0
      PROVE  \/ truncateTabName(shown[q]) = truncateTabName(known[q])
             \/ \E n \in Names: Coming(q, n)' /\ truncateTabName(n) # truncateTabName(known[q])
  <2>1. /\ q \notin editing \cup passedOver /\ refused = 0
        /\ q = p => truncateTabName(q0[1]) = truncateTabName(known[p])
    BY <1>2, <1>8
  <2>2. \/ truncateTabName(shown[q]) = truncateTabName(known[q])
        \/ \E n \in Names: Coming(q, n) /\ truncateTabName(n) # truncateTabName(known[q])
    BY <2>1 DEF NameInv
  <2>3. ASSUME NEW n \in Names, Coming(q, n), truncateTabName(n) # truncateTabName(known[q]) PROVE Coming(q, n)'
    <3>1. CASE q = p
      <4>1. n # q0[1]
        BY <2>1, <2>3, <3>1
      <4> QED
        BY <1>6, <2>3, <3>1, <4>1
    <3>2. CASE q # p
      BY <1>7, <2>3, <3>2
    <3> QED
      BY <3>1, <3>2
  <2> QED
    BY <2>2, <2>3
<1>9. ASSUME NEW q \in NamePages
      PROVE  /\ originalName'[q] = truncateTabName(known'[q])
             /\ IF nameNews'[q] = <<>> THEN known'[q] = name' ELSE nameNews'[q][Len(nameNews'[q])] = name'
             /\ q \notin editing' \cup passedOver' /\ refused' = 0 =>
                  \/ truncateTabName(shown'[q]) = truncateTabName(known'[q])
                  \/ \E n \in Names: Coming(q, n)' /\ truncateTabName(n) # truncateTabName(known'[q])
  <2>1. CASE q = p
    BY <1>2, <1>4, <1>5, <1>8, <2>1 DEF NameInv
  <2>2. CASE q # p
    BY <1>2, <1>4, <1>8, <2>2 DEF NameInv
  <2> QED
    BY <2>1, <2>2
<1> QED
  BY <1>2, <1>3, <1>9 DEF NameInv, truncateTabName

LEMMA UpdateTabNameInv ==
  ASSUME NameInv, NEW i, UpdateTabName(i)
  PROVE  NameInv'
<1>0. renames \in Seq(Names) /\ nameNews \in [NamePages -> Seq(Names)]
  BY DEF NameInv, NameType
<1>1. /\ i \in 1 .. Len(renames) /\ name' = renames[i] /\ renames' = RemoveAt(renames, i)
      /\ nameNews' = [p \in NamePages |-> Append(nameNews[p], name')]
      /\ UNCHANGED <<known, shown, originalName, editing, vertical, passedOver, refused>>
  BY <1>0 DEF UpdateTabName
<1>2. name' \in Names
  BY <1>0, <1>1
<1>3. ASSUME NEW p \in NamePages
      PROVE  /\ nameNews'[p] \in Seq(Names) /\ nameNews'[p] # <<>>
             /\ nameNews'[p][Len(nameNews'[p])] = name'
             /\ Len(nameNews'[p]) \in 1 .. Len(nameNews'[p])
             /\ \A k \in 1 .. Len(nameNews[p]): k \in 1 .. Len(nameNews'[p]) /\ nameNews'[p][k] = nameNews[p][k]
  <2>1. nameNews'[p] = Append(nameNews[p], name') /\ nameNews[p] \in Seq(Names)
    BY <1>0, <1>1, <1>3
  <2> QED
    BY <1>2, <2>1, Appended
<1>4. /\ renames' \in Seq(Names)
      /\ \A k \in 1 .. Len(renames): k # i => \E j \in 1 .. Len(renames'): renames'[j] = renames[k]
  BY <1>0, <1>1, RemoveAtFacts
<1>5. NameType'
  <2>1. nameNews' \in [NamePages -> Seq(Names)]
    BY <1>1, <1>3
  <2> QED
    BY <1>1, <1>2, <1>4, <2>1 DEF NameInv, NameType
<1>6. ASSUME NEW p \in NamePages, NEW n \in Names, Coming(p, n) PROVE Coming(p, n)'
  <2>1. CASE \E k \in 1 .. Len(renames): renames[k] = n
    <3>1. PICK k \in 1 .. Len(renames): renames[k] = n
      BY <2>1
    <3>2. CASE k = i
      BY <1>1, <1>3, <3>1, <3>2 DEF Coming
    <3>3. CASE k # i
      BY <1>4, <3>1, <3>3 DEF Coming
    <3> QED
      BY <3>2, <3>3
  <2>2. CASE \E k \in 1 .. Len(nameNews[p]): nameNews[p][k] = n
    BY <1>3, <2>2 DEF Coming
  <2> QED
    BY <1>6, <2>1, <2>2 DEF Coming
<1>7. ASSUME NEW p \in NamePages
      PROVE  /\ originalName'[p] = truncateTabName(known'[p])
             /\ IF nameNews'[p] = <<>> THEN known'[p] = name' ELSE nameNews'[p][Len(nameNews'[p])] = name'
             /\ p \notin editing' \cup passedOver' /\ refused' = 0 =>
                  \/ truncateTabName(shown'[p]) = truncateTabName(known'[p])
                  \/ \E n \in Names: Coming(p, n)' /\ truncateTabName(n) # truncateTabName(known'[p])
  BY <1>1, <1>3, <1>6 DEF NameInv
<1> QED
  BY <1>1, <1>5, <1>7 DEF NameInv, truncateTabName

LEMMA NameStepInv ==
  ASSUME NameInv, [NameNext]_nameVars
  PROVE  NameInv'
<1>1. ASSUME NEW p \in NamePages, startRename(p) PROVE NameInv'
  <2>1. /\ UNCHANGED <<name, known, shown, originalName, renames, nameNews, vertical, passedOver, refused>>
        /\ editing' = editing \cup {p} /\ p \in NamePages
    BY <1>1 DEF startRename
  <2>2. NameType'
    BY <2>1 DEF NameInv, NameType
  <2>3. ASSUME NEW q \in NamePages
        PROVE  /\ q \notin editing' => q \notin editing
               /\ \A n: Coming(q, n)' <=> Coming(q, n)
    BY <2>1 DEF Coming
  <2> QED
    BY <2>1, <2>2, <2>3 DEF NameInv, truncateTabName
<1>2. ASSUME NEW p \in NamePages, NEW t \in NameText, TypeName(p, t) PROVE NameInv'
  <2>1. NameType'
    BY <1>2 DEF TypeName, NameInv, NameType
  <2> QED
    BY <1>2, <2>1 DEF TypeName, NameInv, NameType, Coming, truncateTabName
<1>3. ASSUME NEW p \in NamePages, Blur(p) \/ Escape(p) PROVE NameInv'
  <2>1. shown[p] \in NameText /\ originalName[p] \in NameText
    BY Truncated DEF NameInv, NameType
  <2> QED
    BY <1>3, <2>1, HandleBlurInv DEF Blur, Escape
<1>4. ASSUME NEW i, RenameRefused(i) PROVE NameInv'
  <2>1. renames' \in Seq(Names) /\ refused' \in Nat /\ refused' # 0
    BY <1>4, RemoveAtFacts DEF RenameRefused, NameInv, NameType
  <2> QED
    BY <1>4, <2>1 DEF RenameRefused, NameInv, NameType, truncateTabName
<1>5. CASE UNCHANGED nameVars
  BY <1>5 DEF nameVars, NameInv, NameType, Coming, truncateTabName
<1>6. ASSUME NEW p \in NamePages, NameArrives(p) \/ NamePasses(p) PROVE NameInv'
  BY <1>6, NameArrivesInv, NamePassesInv
<1>7. CASE \E p \in NamePages: \/ startRename(p) \/ Blur(p) \/ Escape(p) \/ NameArrives(p) \/ NamePasses(p)
                             \/ \E t \in NameText: TypeName(p, t)
  BY <1>1, <1>2, <1>3, <1>6, <1>7, Zenon
<1>8. CASE \E i \in 1 .. MaxRenames: UpdateTabName(i) \/ RenameRefused(i)
  BY <1>4, <1>8, UpdateTabNameInv, Zenon
<1> QED
  BY <1>5, <1>7, <1>8, Zenon DEF NameNext, NameText

\* Whatever is typed, put back, stored and refused in whatever order, all pages show the
\* stored name once all has arrived and nobody edits, unless it passed over a name.
THEOREM NamesAlwaysAgree == NameSpec => []NamesAgree
<1>1. NameInv => NamesAgree
  BY DEF NameInv, NamesAgree, Coming
<1> QED
  BY <1>1, NameInitInv, NameStepInv, PTL DEF NameSpec

-----------------------------------------------------------------------------
(* ConfigEditor: as long as the user waits for each answer, at most one call is under way *)

EditorType ==
  [file: ConfFiles \cup {NoFile}, text: Texts, edited: BOOLEAN, loading: BOOLEAN, saving: BOOLEAN,
   error: BOOLEAN, invalid: BOOLEAN]
ConfType ==
  /\ disk \in [ConfFiles -> Texts] /\ metaFile \in ConfFiles \cup {NoFile}
  /\ editor \in EditorType
  /\ reads \subseteq ConfFiles /\ writes \subseteq [file: ConfFiles, text: Texts]
  /\ muddled \in BOOLEAN

\* What is written is of the file that is shown, and is marked as edited until it is written;
\* what is neither edited nor being read is what the file holds.
ConfInv ==
  /\ ConfType
  /\ ~muddled =>
       /\ reads = {} \/ writes = {}
       /\ \A f, g \in reads: f = g
       /\ \A v, w \in writes: v = w
       /\ \A w \in writes: w.file = editor.file /\ editor.edited
       /\ reads = {} /\ editor.file # NoFile =>
            /\ metaFile = editor.file
            /\ editor.edited \/ ShownText(editor.text) = ShownText(disk[editor.file])

LEMMA ConfFacts ==
  /\ \A t \in Texts: ShownText(t) \in Texts /\ ShownText(ShownText(t)) = ShownText(t) /\ Formatted(t) \in Texts
  /\ \A m: InitialFile(m) \in ConfFiles
  /\ NoFile \notin ConfFiles /\ "" \in Texts /\ {"", "raw"} \subseteq Texts
  BY DEF ShownText, Formatted, Texts, InitialFile, ConfFiles, ConfigFiles, Deprecated, NoFile

LEMMA ConfInitInv == ConfInit => ConfInv
<1> SUFFICES ASSUME ConfInit PROVE ConfInv
  OBVIOUS
<1>1. /\ editor \in EditorType /\ editor.file = NoFile
  BY ConfFacts DEF ConfInit, EditorType
<1>2. disk \in [ConfFiles -> Texts]
  BY ConfFacts DEF ConfInit
<1>3. InitialFile(metaFile) \in ConfFiles
  BY ConfFacts
<1> QED
  BY <1>1, <1>2, <1>3 DEF ConfInit, ConfInv, ConfType

LEMMA ReadAnswersInv ==
  ASSUME ConfInv, NEW f \in ConfFiles, ReadAnswers(f)
  PROVE  ConfInv'
<1>1. /\ f \in reads /\ reads' = reads \ {f} /\ editor' = FileRead(editor, f) /\ metaFile' = f
      /\ UNCHANGED <<disk, writes, muddled>>
  BY DEF ReadAnswers
<1>2. disk \in [ConfFiles -> Texts] /\ disk[f] \in Texts /\ editor \in EditorType
  BY DEF ConfInv, ConfType
<1>3. ShownText(disk[f]) \in Texts
  BY <1>2, ConfFacts
<1>4. /\ editor' \in EditorType /\ editor'.file = f /\ editor'.text = ShownText(disk[f])
  BY <1>1, <1>2, <1>3 DEF FileRead, EditorType
<1>5. ShownText(editor'.text) = ShownText(disk'[f])
  BY <1>1, <1>2, <1>4, ConfFacts
<1>6. ~muddled => writes = {} /\ reads' = {}
  BY <1>1 DEF ConfInv
<1>7. ConfType'
  BY <1>1, <1>4 DEF ConfInv, ConfType
<1> QED
  BY <1>1, <1>4, <1>5, <1>6, <1>7 DEF ConfInv, ShownText

LEMMA SaveInv ==
  ASSUME ConfInv, saveFile
  PROVE  ConfInv'
<1>1. /\ editor.file # NoFile /\ editor.edited
      /\ muddled' = (muddled \/ Busy) /\ UNCHANGED <<disk, metaFile, reads>>
  BY DEF saveFile, Acted, Quick
<1>2. editor \in EditorType
  BY DEF ConfInv, ConfType
<1>3. editor.file \in ConfFiles /\ editor.text \in Texts /\ Formatted(editor.text) \in Texts
  BY <1>1, <1>2, ConfFacts DEF EditorType
<1>4. /\ editor' \in EditorType /\ editor'.file = editor.file /\ editor'.text = editor.text /\ editor'.edited
  BY <1>1, <1>2 DEF saveFile, BeginsSave, Invalid, EditorType
<1>5. writes' \in {writes, writes \cup {[file |-> editor.file, text |-> Formatted(editor.text)]}}
  BY DEF saveFile
<1>6. [file |-> editor.file, text |-> Formatted(editor.text)] \in [file: ConfFiles, text: Texts]
  BY <1>3
<1>7. ConfType'
  BY <1>1, <1>4, <1>5, <1>6 DEF ConfInv, ConfType, Busy
<1>8. ~muddled' => ~muddled /\ reads = {} /\ writes = {}
  BY <1>1 DEF Busy
<1> QED
  BY <1>1, <1>4, <1>5, <1>7, <1>8 DEF ConfInv

LEMMA WriteAnswersInv ==
  ASSUME ConfInv, NEW w \in writes, WriteAnswers(w)
  PROVE  ConfInv'
<1>1. /\ writes' = writes \ {w} /\ disk' = [disk EXCEPT ![w.file] = w.text] /\ editor' = Saved(editor, w.text)
      /\ UNCHANGED <<metaFile, reads, muddled>>
  BY DEF WriteAnswers
<1>2. w.file \in ConfFiles /\ w.text \in Texts /\ editor \in EditorType /\ disk \in [ConfFiles -> Texts]
  BY DEF ConfInv, ConfType
<1>3. /\ editor' \in EditorType /\ editor'.file = editor.file /\ editor'.text = w.text
  BY <1>1, <1>2 DEF Saved, EditorType
<1>4. disk' \in [ConfFiles -> Texts] /\ disk'[w.file] = w.text
  BY <1>1, <1>2
<1>5. ConfType'
  BY <1>1, <1>3, <1>4 DEF ConfInv, ConfType
<1>6. ~muddled => writes' = {} /\ reads = {} /\ w.file = editor.file
  BY <1>1 DEF ConfInv
<1> QED
  BY <1>1, <1>3, <1>4, <1>5, <1>6 DEF ConfInv, ShownText

LEMMA ConfStepInv ==
  ASSUME ConfInv, [ConfNext]_confVars
  PROVE  ConfInv'
<1>0. editor \in EditorType
  BY DEF ConfInv, ConfType
<1>1. ASSUME NEW f \in ConfFiles, ReadRefused(f) PROVE ConfInv'
  <2>1. /\ editor' \in EditorType
    BY <1>0, <1>1, ConfFacts DEF ReadRefused, ReadFails, EditorType
  <2> QED
    BY <1>1, <2>1 DEF ReadRefused, ConfInv, ConfType
<1>2. ASSUME NEW w \in writes, WriteFails(w) PROVE ConfInv'
  <2>1. editor' \in EditorType /\ editor'.file = editor.file /\ editor'.text = editor.text /\ editor'.edited = editor.edited
    BY <1>0, <1>2 DEF WriteFails, SaveFails, EditorType
  <2>2. writes' = writes \ {w} /\ UNCHANGED <<disk, metaFile, reads, muddled>>
    BY <1>2 DEF WriteFails
  <2>3. ConfType'
    BY <2>1, <2>2 DEF ConfInv, ConfType
  <2> QED
    BY <2>1, <2>2, <2>3 DEF ConfInv, ShownText
<1>3. ASSUME NEW t \in Texts, Type(t) PROVE ConfInv'
  <2>1. editor' \in EditorType /\ editor'.file = editor.file /\ editor'.edited
    BY <1>0, <1>3 DEF Type, EditorType
  <2>2. muddled' = (muddled \/ Busy) /\ UNCHANGED <<disk, metaFile, reads, writes>>
    BY <1>3 DEF Type, Acted, Quick
  <2>3. ConfType'
    BY <2>1, <2>2 DEF ConfInv, ConfType, Busy
  <2>4. ~muddled' => ~muddled /\ reads = {} /\ writes = {}
    BY <2>2 DEF Busy
  <2> QED
    BY <2>1, <2>2, <2>3, <2>4 DEF ConfInv
<1>4. ASSUME NEW f \in ConfFiles, handleFileSelect(f) PROVE ConfInv'
  <2>1. editor' \in EditorType
    BY <1>0, <1>4 DEF handleFileSelect, BeginsLoad, EditorType
  <2>2. muddled' = (muddled \/ Busy) /\ reads' = reads \cup {f} /\ UNCHANGED <<disk, metaFile, writes>>
    BY <1>4 DEF handleFileSelect, Acted, Quick
  <2>3. ConfType'
    BY <2>1, <2>2 DEF ConfInv, ConfType, Busy
  <2>4. ~muddled' => ~muddled /\ reads = {} /\ writes = {}
    BY <2>2 DEF Busy
  <2> QED
    BY <2>2, <2>3, <2>4 DEF ConfInv
<1>5. CASE ClearErrors
  <2>1. editor' \in EditorType /\ editor'.file = editor.file /\ editor'.text = editor.text /\ editor'.edited = editor.edited
    BY <1>0, <1>5 DEF ClearErrors, EditorType
  <2>2. UNCHANGED <<disk, metaFile, reads, writes, muddled>>
    BY <1>5 DEF ClearErrors, Quick
  <2>3. ConfType'
    BY <2>1, <2>2 DEF ConfInv, ConfType
  <2> QED
    BY <2>1, <2>2, <2>3 DEF ConfInv, ShownText
<1>6. CASE checkPresetsJsonExists \/ UNCHANGED confVars
  <2>1. UNCHANGED <<disk, metaFile, editor, reads, writes, muddled>>
    BY <1>6 DEF checkPresetsJsonExists, confVars
  <2>2. ConfType'
    BY <2>1 DEF ConfInv, ConfType
  <2> QED
    BY <2>1, <2>2 DEF ConfInv, ShownText
<1> QED
  BY <1>1, <1>2, <1>3, <1>4, <1>5, <1>6, ReadAnswersInv, SaveInv, WriteAnswersInv DEF ConfNext

\* A user who waits for each answer always sees what the selected file holds, or that it was
\* edited, whatever is typed, saved, refused and selected.
THEOREM EditorAlwaysTells == ConfSpec => []EditorTells
<1>1. ConfInv => EditorTells
  BY DEF ConfInv, EditorTells, Busy
<1> QED
  BY <1>1, ConfInitInv, ConfStepInv, PTL DEF ConfSpec

-----------------------------------------------------------------------------
(* TabBar: an order that a page shows and that is not stored is about to be sent *)

\* Orders are arrays of tabs; nothing depends on what is in them.
AnyQueue(q) == \E S: q \in Seq(S)
BarType ==
  /\ DOMAIN copies = Pages2 /\ DOMAIN bars = Pages2
  /\ DOMAIN late = Pages2 /\ \A p \in Pages2: "on" \in DOMAIN late[p]
  /\ {"dragged", "page"} \subseteq DOMAIN drag /\ (drag = NoDrag \/ drag.page \in Pages2)
  /\ AnyQueue(orders) /\ DOMAIN wsNews = Pages2 /\ \A p \in Pages2: AnyQueue(wsNews[p])

\* An array is in a call under way, is to be sent, or will be when the mouse is let go.
WillBeSent == orders # <<>> \/ (\E p \in Pages2: late[p].on) \/ drag.dragged

\* The last workspace on its way to a page is the stored one; a page that none is on its way
\* to shows it, or an array will be sent.
BarInv ==
  /\ BarType
  /\ \A p \in Pages2:
       IF wsNews[p] = <<>> THEN WillBeSent \/ (bars[p] = order /\ copies[p] = order)
       ELSE wsNews[p][Len(wsNews[p])] = order

LEMMA QueueGrows ==
  ASSUME NEW q, AnyQueue(q), NEW e
  PROVE  AnyQueue(Append(q, e)) /\ Append(q, e) # <<>> /\ Append(q, e)[Len(Append(q, e))] = e
<1>1. PICK S: q \in Seq(S)
  BY DEF AnyQueue
<1>2. q \in Seq(S \cup {e})
  BY <1>1
<1>3. Append(q, e) \in Seq(S \cup {e}) /\ Append(q, e) # <<>> /\ Append(q, e)[Len(Append(q, e))] = e
  BY SMTT(30), <1>2, Appended
<1> QED
  BY <1>3 DEF AnyQueue

LEMMA QueueShrinks ==
  ASSUME NEW q, AnyQueue(q), q # <<>>
  PROVE  /\ AnyQueue(Tail(q))
         /\ IF Tail(q) = <<>> THEN Head(q) = q[Len(q)] ELSE Tail(q)[Len(Tail(q))] = q[Len(q)]
<1>1. PICK S: q \in Seq(S)
  BY DEF AnyQueue
<1> DEFINE t == Tail(q)
<1>2. /\ Head(q) = q[1] /\ t \in Seq(S) /\ Len(q) \in Nat \ {0} /\ Len(t) = Len(q) - 1
      /\ t = <<>> <=> Len(q) = 1
      /\ \A i \in 2 .. Len(q): t[i - 1] = q[i]
  BY <1>1, Shortened
<1> HIDE DEF t
<1>3. CASE t # <<>>
  <2>1. Len(q) \in 2 .. Len(q)
    BY <1>2, <1>3
  <2> QED
    BY <1>2, <1>3, <2>1 DEF t, AnyQueue
<1>4. CASE t = <<>>
  BY <1>2, <1>4 DEF t, AnyQueue
<1> QED
  BY <1>3, <1>4

LEMMA NoDragMoves == ~NoDrag.dragged
  BY DEF NoDrag

LEMMA BarInitInv == BarInit => BarInv
<1> SUFFICES ASSUME BarInit PROVE BarInv
  OBVIOUS
<1>1. AnyQueue(<<>>)
  <2>1. <<>> \in Seq({})
    OBVIOUS
  <2> QED
    BY <2>1 DEF AnyQueue
<1>2. {"dragged", "page"} \subseteq DOMAIN NoDrag
  BY DEF NoDrag
<1>3. "on" \in DOMAIN NotLate
  BY DEF NotLate
<1> QED
  BY <1>1, <1>2, <1>3 DEF BarInit, BarInv, BarType

\* What is stored is broadcast to all pages.
LEMMA BroadcastInv ==
  ASSUME BarInv, NEW ids, order' = ids, wsNews' = Broadcast(ids), AnyQueue(orders)',
         UNCHANGED <<copies, bars, drag, late>>
  PROVE  BarInv'
<1>1. ASSUME NEW p \in Pages2
      PROVE  AnyQueue(wsNews'[p]) /\ wsNews'[p] # <<>> /\ wsNews'[p][Len(wsNews'[p])] = order'
  BY QueueGrows DEF Broadcast, BarInv, BarType
<1>2. DOMAIN wsNews' = Pages2
  BY DEF Broadcast
<1> QED
  BY <1>1, <1>2 DEF BarInv, BarType, AnyQueue

LEMMA WorkspaceArrivesInv ==
  ASSUME BarInv, NEW p \in Pages2, WorkspaceArrives(p)
  PROVE  BarInv'
<1>1. /\ wsNews[p] # <<>> /\ AnyQueue(wsNews[p])
      /\ copies' = [copies EXCEPT ![p] = Head(wsNews[p])]
      /\ bars' = [bars EXCEPT ![p] = Head(wsNews[p])]
      /\ wsNews' = [wsNews EXCEPT ![p] = Tail(wsNews[p])]
      /\ UNCHANGED <<order, orders>>
  BY DEF WorkspaceArrives, BarInv, BarType
<1>2. /\ {"dragged", "page"} \subseteq DOMAIN drag' /\ drag'.dragged = drag.dragged
      /\ drag' = NoDrag \/ drag'.page \in Pages2
  <2>1. CASE drag.page = p
    BY <2>1 DEF WorkspaceArrives, BarInv, BarType
  <2>2. CASE drag.page # p
    BY <2>2 DEF WorkspaceArrives, BarInv, BarType
  <2> QED
    BY <2>1, <2>2
<1>3. /\ DOMAIN late' = Pages2
      /\ \A q \in Pages2: "on" \in DOMAIN late'[q] /\ late'[q].on = late[q].on
  BY DEF WorkspaceArrives, BarInv, BarType
<1>5. WillBeSent' <=> WillBeSent
  BY <1>1, <1>2, <1>3 DEF WillBeSent
<1>6. /\ AnyQueue(wsNews'[p])
      /\ IF wsNews'[p] = <<>> THEN bars'[p] = order /\ copies'[p] = order
         ELSE wsNews'[p][Len(wsNews'[p])] = order
  BY <1>1, QueueShrinks DEF BarInv, BarType
<1>7. \A q \in Pages2: q # p =>
        wsNews'[q] = wsNews[q] /\ bars'[q] = bars[q] /\ copies'[q] = copies[q]
  BY <1>1 DEF BarInv, BarType
<1>8. DOMAIN copies' = Pages2 /\ DOMAIN bars' = Pages2 /\ DOMAIN wsNews' = Pages2
  BY <1>1 DEF BarInv, BarType
<1>9. BarType'
  <2>1. \A q \in Pages2: AnyQueue(wsNews'[q])
    BY <1>6, <1>7 DEF BarInv, BarType
  <2> QED
    BY <1>1, <1>2, <1>3, <1>8, <2>1 DEF BarInv, BarType, AnyQueue
<1>10. \A q \in Pages2:
         IF wsNews'[q] = <<>> THEN WillBeSent' \/ (bars'[q] = order' /\ copies'[q] = order')
         ELSE wsNews'[q][Len(wsNews'[q])] = order'
  BY <1>1, <1>5, <1>6, <1>7 DEF BarInv
<1> QED
  BY <1>9, <1>10 DEF BarInv

\* As long as an array will be sent, pages may show whatever they like.
LEMMA SentLaterInv ==
  ASSUME BarInv, BarType', WillBeSent', UNCHANGED <<order, wsNews>>
  PROVE  BarInv'
  BY DEF BarInv

LEMMA BarStepInv ==
  ASSUME BarInv, [BarNext]_barVars
  PROVE  BarInv'
<1>1. ASSUME NEW p \in Pages2, NEW t, handleDragStart(p, t) PROVE BarInv'
  <2>1. /\ {"dragged", "page"} \subseteq DOMAIN drag' /\ ~drag'.dragged /\ drag = NoDrag /\ drag'.page \in Pages2
        /\ UNCHANGED <<order, copies, bars, late, orders, wsNews>>
    BY <1>1 DEF handleDragStart
  <2>2. WillBeSent' <=> WillBeSent
    BY <2>1, NoDragMoves DEF WillBeSent
  <2>3. BarType'
    BY <2>1 DEF BarInv, BarType, AnyQueue
  <2> QED
    BY <2>1, <2>2, <2>3 DEF BarInv
<1>2. ASSUME NEW at, handleMouseMove(at) PROVE BarInv'
  <2>1. /\ {"dragged", "page"} \subseteq DOMAIN drag' /\ drag'.dragged /\ drag'.page \in Pages2
        /\ UNCHANGED <<order, orders, wsNews>>
    BY <1>2 DEF handleMouseMove, Counts, BarInv, BarType
  <2>2. DOMAIN copies' = Pages2 /\ DOMAIN bars' = Pages2
    BY <1>2 DEF handleMouseMove, BarInv, BarType
  <2>3. DOMAIN late' = Pages2 /\ \A q \in Pages2: "on" \in DOMAIN late'[q]
    <3>1. CASE drag.live
      BY <1>2, <3>1 DEF handleMouseMove, BarInv, BarType
    <3>2. CASE ~drag.live
      BY <1>2, <3>2 DEF handleMouseMove, BarInv, BarType
    <3> QED
      BY <3>1, <3>2
  <2>4. BarType'
    BY <2>1, <2>2, <2>3 DEF BarInv, BarType, AnyQueue
  <2> QED
    BY <2>1, <2>4, SentLaterInv DEF WillBeSent
<1>3. CASE handleMouseUp
  <2>1. drag' = NoDrag /\ ~drag'.dragged /\ {"dragged", "page"} \subseteq DOMAIN drag'
        /\ drag.page \in Pages2 /\ UNCHANGED <<order, copies, bars, orders, wsNews>>
    BY <1>3 DEF handleMouseUp, NoDrag, BarInv, BarType
  <2>2. CASE drag.dragged
    <3>1. /\ DOMAIN late' = Pages2 /\ late'[drag.page].on
          /\ \A q \in Pages2: "on" \in DOMAIN late'[q]
      BY <1>3, <2>2 DEF handleMouseUp, BarInv, BarType
    <3>2. BarType'
      BY <2>1, <3>1 DEF BarInv, BarType, AnyQueue
    <3> QED
      BY <2>1, <2>2, <3>1, <3>2, SentLaterInv DEF WillBeSent
  <2>3. CASE ~drag.dragged
    <3>1. UNCHANGED late
      BY <1>3, <2>3 DEF handleMouseUp
    <3>2. WillBeSent' <=> WillBeSent
      BY <2>1, <2>3, <3>1 DEF WillBeSent
    <3>3. BarType'
      BY <2>1, <3>1 DEF BarInv, BarType, AnyQueue
    <3> QED
      BY <2>1, <3>1, <3>2, <3>3 DEF BarInv
  <2> QED
    BY <2>2, <2>3
<1>4. ASSUME NEW p \in Pages2, setUpdatedTabsDebounced(p) PROVE BarInv'
  <2>1. AnyQueue(orders') /\ orders' # <<>> /\ UNCHANGED <<order, copies, bars, drag, wsNews>>
    BY <1>4, QueueGrows DEF setUpdatedTabsDebounced, BarInv, BarType
  <2>2. DOMAIN late' = Pages2 /\ \A q \in Pages2: "on" \in DOMAIN late'[q]
    BY <1>4 DEF setUpdatedTabsDebounced, BarInv, BarType, NotLate
  <2>3. BarType'
    BY <2>1, <2>2 DEF BarInv, BarType, AnyQueue
  <2> QED
    BY <2>1, <2>3, SentLaterInv DEF WillBeSent, BarInv
<1>5. ASSUME NEW p \in Pages2, NEW t, NEW to, DropTab(p, t, to) PROVE BarInv'
  <2>1. AnyQueue(orders') /\ orders' # <<>> /\ UNCHANGED <<order, copies, drag, late, wsNews>>
    BY <1>5, QueueGrows DEF DropTab, BarInv, BarType
  <2>2. DOMAIN bars' = Pages2
    BY <1>5 DEF DropTab, BarInv, BarType
  <2>3. BarType'
    BY <2>1, <2>2 DEF BarInv, BarType, AnyQueue
  <2> QED
    BY <2>1, <2>3, SentLaterInv DEF WillBeSent, BarInv
<1>6. CASE UpdateWorkspaceTabIds
  <2>1. AnyQueue(orders')
    BY <1>6, QueueShrinks DEF UpdateWorkspaceTabIds, BarInv, BarType
  <2> QED
    BY <1>6, <2>1, BroadcastInv DEF UpdateWorkspaceTabIds, AnyQueue
<1>7. ASSUME NEW t, CreateTab(t) \/ CloseTab(t) PROVE BarInv'
  <2>1. PICK ids: ChangeTabs(ids)
    BY <1>7 DEF CreateTab, CloseTab
  <2> QED
    BY <2>1, BroadcastInv DEF ChangeTabs, BarInv, BarType, AnyQueue
<1>8. CASE UNCHANGED barVars
  BY <1>8 DEF barVars, BarInv, BarType, WillBeSent, AnyQueue
<1> QED
  BY <1>1, <1>2, <1>3, <1>4, <1>5, <1>6, <1>7, <1>8, WorkspaceArrivesInv DEF BarNext

\* However drags, orders and tabs made and closed overlap, when all has arrived every page
\* shows the tabs in the order that is stored.
THEOREM BarsAlwaysAgree == BarSpec => []BarsAgree
<1>1. BarInv => BarsAgree
  BY NoDragMoves DEF BarInv, BarsAgree, BarsSettled, Underway, WillBeSent
<1> QED
  BY <1>1, BarInitInv, BarStepInv, PTL DEF BarSpec

-----------------------------------------------------------------------------
(* PageFocus: the focus is where the node is, or React will commit *)

FocusType ==
  /\ panes \subseteq Panes /\ finding \subseteq Panes
  /\ node \in panes \cup {Body}
  /\ dom.of \in panes \cup {Body} /\ dom = [at |-> dom.at, of |-> dom.of]

\* A block is clicked only while React has committed the node.  A block that has the focus is
\* the focused one, or keeps it for a search, or a commit will move the one or the other.
FocusInv ==
  /\ FocusType
  /\ clicked = {} \/ (seen = node /\ \E b \in panes: clicked = {b})
  /\ node = Body => dom.of = Body
  /\ dom.of # Body => dom.of = node \/ node \in finding \/ clicked # {} \/ seen # node

LEMMA FocusInitInv == FocusInit => FocusInv
  BY FocusAssumption DEF FocusInit, FocusInv, FocusType, NoElement

\* What giveFocus leaves: the block's element, or the focused element if the block is searched.
LEMMA Given ==
  ASSUME NEW b
  PROVE  /\ b \in finding => giveFocus(b) = dom
         /\ b \notin finding => giveFocus(b) = In(b) /\ giveFocus(b).of = b
  BY DEF giveFocus, In

LEMMA CommitInv == FocusInv /\ Commit => FocusInv'
<1> SUFFICES ASSUME FocusInv, Commit PROVE FocusInv'
  OBVIOUS
<1>0. UNCHANGED <<panes, finding>> /\ seen' = node /\ clicked' = BecomesClicked \ clicked /\ ~Committed0
  BY DEF Commit
<1>1. CASE clicked = {}
  <2>1. UNCHANGED <<node, dom>> /\ seen # node /\ clicked' = IF node # Body THEN {node} ELSE {}
    BY <1>0, <1>1 DEF Commit, Committed0, BecomesClicked
  <2> QED
    BY <1>0, <2>1 DEF FocusInv, FocusType
<1>2. ASSUME NEW b \in panes, clicked = {b}, seen = node PROVE FocusInv'
  <2>1. node' = b /\ dom' = Target(b) /\ clicked' = {}
    BY <1>0, <1>2 DEF Commit, BecomesClicked
  <2>2. dom' = In(b) \/ (dom' = dom /\ b \in finding)
    BY <2>1, Given DEF Target
  <2> QED
    BY <1>0, <2>1, <2>2, FocusAssumption DEF FocusInv, FocusType, In
<1> QED
  BY <1>1, <1>2 DEF FocusInv

LEMMA TimerFiresInv ==
  ASSUME FocusInv, NEW b, TimerFires(b)
  PROVE  FocusInv'
<1>0. clicked = {} /\ UNCHANGED <<panes, seen, clicked, finding>>
  BY DEF TimerFires
<1>1. ASSUME NEW t, refocusNode(t) PROVE FocusInv'
  <2>1. CASE t \in panes
    <3>1. dom' = giveFocus(t) /\ node' = IF giveFocus(t) # dom THEN handleChildFocus(giveFocus(t), t) ELSE t
      BY <1>1, <2>1 DEF refocusNode, Focuses
    <3>2. node' = t /\ (dom' = In(t) \/ (dom' = dom /\ t \in finding))
      BY <3>1, Given DEF handleChildFocus
    <3> QED
      BY <1>0, <2>1, <3>2, FocusAssumption DEF FocusInv, FocusType, In
  <2>2. CASE t \notin panes
    BY <1>0, <1>1, <2>2 DEF refocusNode, FocusInv, FocusType
  <2> QED
    BY <2>1, <2>2
<1>2. ASSUME node = Body, NEW f \in panes, node' = f, UNCHANGED dom PROVE FocusInv'
  BY <1>0, <1>2, FocusAssumption DEF FocusInv, FocusType
<1> QED
  BY <1>1, <1>2 DEF TimerFires, globalRefocus

\* An element of a block takes the focus while all is committed: its block is focused.
LEMMA FocusesInv ==
  ASSUME FocusInv, NEW b \in panes, Committed0, NEW e, e \in {In(b), NoElement},
         Focuses(e, node), finding' = finding \/ finding' = finding \ {b}, UNCHANGED <<panes, seen, clicked>>,
         e = NoElement => finding' = finding
  PROVE  FocusInv'
<1>1. CASE e = NoElement
  <2>1. dom' = NoElement /\ node' = node
    BY <1>1 DEF Focuses, handleChildFocus, NoElement
  <2> QED
    BY <1>1, <2>1 DEF FocusInv, FocusType, NoElement
<1>2. CASE e = In(b) /\ e # dom
  <2>1. dom' = In(b) /\ node' = b
    BY <1>2 DEF Focuses, handleChildFocus, In, Committed0
  <2> QED
    BY <2>1, FocusAssumption DEF FocusInv, FocusType, In, Committed0
<1>3. CASE e = In(b) /\ e = dom
  <2>1. dom' = dom /\ node' = node /\ dom.of = b
    BY <1>3 DEF Focuses, In
  <2> QED
    BY <2>1, FocusAssumption DEF FocusInv, FocusType, Committed0
<1> QED
  BY <1>1, <1>2, <1>3

LEMMA FocusStepInv ==
  ASSUME FocusInv, [FocusNext]_focusVars
  PROVE  FocusInv'
<1>1. ASSUME NEW b \in panes, MouseDown(b) \/ ElementFocused(b) PROVE FocusInv'
  <2>1. /\ Committed0 /\ finding' = finding /\ UNCHANGED <<panes, seen, clicked>>
        /\ \E e \in {In(b), NoElement} : Focuses(e, node)
    BY <1>1 DEF MouseDown, ElementFocused, UserActs, Act
  <2>2. PICK e \in {In(b), NoElement}: Focuses(e, node)
    BY <2>1
  <2> QED
    BY <2>1, <2>2, FocusesInv
<1>2. ASSUME NEW b \in panes, CloseSearch(b) PROVE FocusInv'
  <2>1. /\ Committed0 /\ finding' = finding \ {b} /\ UNCHANGED <<panes, seen, clicked>> /\ Focuses(In(b), node)
    BY <1>2 DEF CloseSearch, UserActs, Act
  <2>2. In(b) \in {In(b), NoElement} /\ In(b) # NoElement
    BY DEF In, NoElement
  <2> QED
    BY <2>1, <2>2, FocusesInv
<1>3. ASSUME NEW b \in panes, ClickBlock(b) PROVE FocusInv'
  BY <1>3 DEF ClickBlock, UserActs, Act, Committed0, FocusInv, FocusType
<1>4. ASSUME NEW b \in panes, focusFromPointerEnter(b) PROVE FocusInv'
  <2>1. /\ Committed0 /\ UNCHANGED <<panes, seen, clicked, finding>>
        /\ ~(seen = b /\ dom = In(b)) /\ dom' = giveFocus(b)
        /\ node' = IF giveFocus(b) # dom \/ seen # b THEN b ELSE node
    BY <1>4 DEF focusFromPointerEnter, UserActs, Act
  <2>2. node' = b /\ (dom' = In(b) \/ (dom' = dom /\ b \in finding))
    BY <2>1, Given DEF Committed0
  <2> QED
    BY <2>1, <2>2, FocusAssumption DEF FocusInv, FocusType, In, Committed0
<1>5. ASSUME NEW b \in panes, switchBlock(b) \/ FocusMoves(b) PROVE FocusInv'
  <2>1. Committed0 /\ node' = b /\ UNCHANGED <<panes, seen, clicked, dom, finding>>
    BY <1>5 DEF switchBlock, FocusMoves, UserActs, Act
  <2> QED
    BY <2>1, FocusAssumption DEF FocusInv, FocusType, Committed0
<1>6. ASSUME NEW b \in panes, RemovePane(b) PROVE FocusInv'
  <2>1. /\ Committed0 /\ panes' = panes \ {b} /\ finding' = finding \ {b} /\ UNCHANGED <<seen, clicked>>
        /\ node' \in IF node # b THEN {node} ELSE IF panes = {b} THEN {Body} ELSE panes \ {b}
        /\ dom' = IF dom.of = b THEN NoElement ELSE dom
    BY <1>6 DEF RemovePane, Act
  <2> QED
    BY <2>1, FocusAssumption DEF FocusInv, FocusType, Committed0, NoElement
<1>7. ASSUME NEW b \in Panes, AddPane(b) PROVE FocusInv'
  BY <1>7, FocusAssumption DEF AddPane, Act, FocusInv, FocusType, Committed0
<1>8. CASE activateSearch
  <2>1. /\ Committed0 /\ node \in panes /\ finding' = finding \cup {node}
        /\ dom' = SearchOf(node) /\ node' = node /\ UNCHANGED <<panes, seen, clicked>>
    BY <1>8 DEF activateSearch, Focuses, handleChildFocus, UserActs, Act, Committed0, SearchOf
  <2> QED
    BY <2>1, FocusAssumption DEF FocusInv, FocusType, SearchOf
<1>9. CASE pushModal \/ popModal
  <2>1. dom'.of = Body /\ dom' = [at |-> dom'.at, of |-> dom'.of] /\ UNCHANGED <<panes, node, seen, clicked, finding>>
    BY <1>9 DEF pushModal, popModal, NoElement
  <2> QED
    BY <2>1 DEF FocusInv, FocusType
<1>10. ASSUME NEW b \in panes, RefocusLater(b) PROVE FocusInv'
  BY <1>10 DEF RefocusLater, FocusInv, FocusType
<1>11. CASE UNCHANGED focusVars
  BY <1>11 DEF focusVars, FocusInv, FocusType
<1> QED
  BY <1>1, <1>2, <1>3, <1>4, <1>5, <1>6, <1>7, <1>8, <1>9, <1>10, <1>11, CommitInv, TimerFiresInv DEF FocusNext

\* However clicks, timers, searches, dialogs and changes of the layout interleave, what is
\* typed once all is committed goes to the focused block, unless that one's search is open.
THEOREM FocusAlwaysAgrees == FocusSpec => []FocusAgrees
<1>1. FocusInv => FocusAgrees
  BY DEF FocusInv, FocusAgrees, Committed0
<1> QED
  BY <1>1, FocusInitInv, FocusStepInv, PTL DEF FocusSpec

-----------------------------------------------------------------------------
(* PageKeys: the last state that a page was sent, and the keys under way *)

KeyKinds == {"first", "second", "global", "block", "text"}
Outcomes == {"split", "swallowed", "chord", "global", "block", "text"}
KeyMessages == [what: {"key", "reinject"}, key: [kind: KeyKinds, id: Nat]]
StateMessages == [what: {"state"}, on: BOOLEAN]
PageMessages == KeyMessages \cup StateMessages
KeysType ==
  /\ front \in Pages /\ inbox \in [Pages -> Seq(PageMessages)] /\ fate \in Seq(Seq(Outcomes))
  /\ simple \in [Pages -> BOOLEAN] /\ delayed \in [Pages -> BOOLEAN]

\* What a page will take Ctrl and Shift to be once it took the messages s: the last state in
\* them, or what it took them to be.  If they are held then r.
Ends(s, b, r) ==
  /\ (\A j \in 1 .. Len(s): s[j].what # "state") /\ b => r
  /\ \A j \in 1 .. Len(s):
       s[j].what = "state" /\ s[j].on /\ (\A k \in 1 .. Len(s): k > j => s[k].what # "state") => r
Right(p) == p = front /\ {"Control", "Shift"} \subseteq held /\ "Meta" \notin held

\* The key i is under way to page p as its j-th message.
UnderWay(p, j, i) == j \in 1 .. Len(inbox[p]) /\ inbox[p][j].what # "state" /\ inbox[p][j].key.id = i
KeysInv ==
  /\ KeysType
  /\ \A p \in Pages: (delayed[p] => simple[p]) /\ Ends(inbox[p], simple[p], Right(p))
  /\ \A p \in Pages, j, i \in Nat: UnderWay(p, j, i) => i \in 1 .. Len(fate)
  /\ \A p, q \in Pages, j, k, i \in Nat: UnderWay(p, j, i) /\ UnderWay(q, k, i) => p = q /\ j = k
  /\ \A i \in 1 .. Len(fate):
       Len(fate[i]) = (IF \E p \in Pages, j \in Nat: UnderWay(p, j, i) THEN 0 ELSE 1)

LEMMA EndsFacts ==
  ASSUME NEW s \in Seq(PageMessages), NEW b \in BOOLEAN, NEW r \in BOOLEAN
  PROVE  /\ \A on \in BOOLEAN: (on => r) => Ends(Append(s, StateOf(on)), b, r)
         /\ \A m \in KeyMessages: Ends(s, b, r) => Ends(Append(s, m), b, r)
         /\ s # <<>> /\ Ends(s, b, r) =>
              /\ s[1].what # "state" => Ends(Tail(s), b, r)
              /\ s[1].what = "state" => Ends(Tail(s), s[1].on, r)
<1>1. ASSUME NEW on \in BOOLEAN, on => r PROVE Ends(Append(s, StateOf(on)), b, r)
  <2> DEFINE m == StateOf(on)
             t == Append(s, m)
  <2>1. m.what = "state" /\ m.on = on /\ m \in PageMessages
    BY DEF StateOf, PageMessages, StateMessages
  <2> HIDE DEF m
  <2>2. /\ Len(s) \in Nat /\ Len(s) + 1 \in 1 .. Len(t) /\ t[Len(s) + 1] = m
        /\ \A j \in 1 .. Len(t): j \in 1 .. Len(s) \/ j = Len(s) + 1
    BY <2>1, Appended
  <2> HIDE DEF t
  <2>3. \A j \in 1 .. Len(t): j # Len(s) + 1 => Len(s) + 1 > j
    BY <2>2
  <2>4. Ends(t, b, r)
    BY <1>1, <2>1, <2>2, <2>3 DEF Ends
  <2> QED
    BY <2>4 DEF t, m
<1>2. ASSUME NEW m \in KeyMessages, Ends(s, b, r) PROVE Ends(Append(s, m), b, r)
  <2> DEFINE t == Append(s, m)
  <2>1. m.what # "state" /\ m \in PageMessages
    BY DEF PageMessages, KeyMessages
  <2>2. /\ Len(s) \in Nat /\ t[Len(s) + 1] = m
        /\ \A j \in 1 .. Len(s): j \in 1 .. Len(t)
        /\ \A j \in 1 .. Len(s): t[j] = s[j]
        /\ \A j \in 1 .. Len(t): j \in 1 .. Len(s) \/ j = Len(s) + 1
    BY <2>1, Appended
  <2> HIDE DEF t
  <2>3. Ends(t, b, r)
    BY <1>2, <2>1, <2>2 DEF Ends
  <2> QED
    BY <2>3 DEF t
<1>3. ASSUME s # <<>>, Ends(s, b, r)
      PROVE  /\ s[1].what # "state" => Ends(Tail(s), b, r)
             /\ s[1].what = "state" => Ends(Tail(s), s[1].on, r)
  <2> DEFINE t == Tail(s)
  <2>1. /\ Len(s) \in Nat \ {0} /\ Len(t) = Len(s) - 1
        /\ \A j \in 1 .. Len(t): j + 1 \in 1 .. Len(s) /\ t[j] = s[j + 1]
        /\ \A j \in 2 .. Len(s): j - 1 \in 1 .. Len(t) /\ t[j - 1] = s[j]
    BY <1>3, Shortened
  <2> HIDE DEF t
  <2>2. 1 \in 1 .. Len(s) /\ \A j \in 1 .. Len(s): j = 1 \/ (j \in 2 .. Len(s) /\ j > 1)
    BY <2>1
  <2>3. ASSUME NEW j \in 1 .. Len(t), t[j].what = "state", t[j].on,
               \A k \in 1 .. Len(t): k > j => t[k].what # "state"
        PROVE  r
    <3>1. \A k \in 1 .. Len(s): k > j + 1 => k - 1 \in 1 .. Len(t) /\ k - 1 > j /\ t[k - 1] = s[k]
      BY <2>1
    <3>2. \A k \in 1 .. Len(s): k > j + 1 => s[k].what # "state"
      BY <2>3, <3>1
    <3>3. j + 1 \in 1 .. Len(s) /\ s[j + 1] = t[j]
      BY <2>1
    <3> QED
      BY <1>3, <2>3, <3>2, <3>3 DEF Ends
  <2>4. ASSUME \A j \in 1 .. Len(t): t[j].what # "state"
        PROVE  \A j \in 2 .. Len(s): s[j].what # "state"
    BY <2>1, <2>4
  <2>5. CASE s[1].what # "state"
    <3>1. (\A j \in 1 .. Len(t): t[j].what # "state") => \A j \in 1 .. Len(s): s[j].what # "state"
      BY <2>2, <2>4, <2>5
    <3>2. Ends(t, b, r)
      BY <1>3, <2>3, <3>1 DEF Ends
    <3> QED
      BY <2>5, <3>2 DEF t
  <2>6. CASE s[1].what = "state"
    <3>1. (\A j \in 1 .. Len(t): t[j].what # "state") /\ s[1].on => r
      <4>1. \A k \in 1 .. Len(s): k > 1 => k \in 2 .. Len(s)
        BY <2>2
      <4> QED
        BY <1>3, <2>2, <2>4, <2>6, <4>1 DEF Ends
    <3>2. Ends(t, s[1].on, r)
      BY <2>3, <3>1 DEF Ends
    <3> QED
      BY <2>6, <3>2 DEF t
  <2> QED
    BY <2>5, <2>6
<1> QED
  BY <1>1, <1>2, <1>3

LEMMA KeysInitInv == KeysInit => KeysInv
<1> SUFFICES ASSUME KeysInit PROVE KeysInv
  OBVIOUS
<1>1. KeysType
  BY DEF KeysInit, KeysType
<1>2. \A p \in Pages: inbox[p] = <<>> /\ ~simple[p] /\ ~delayed[p]
  BY DEF KeysInit
<1>3. fate = <<>>
  BY DEF KeysInit
<1> QED
  BY <1>1, <1>2, <1>3 DEF KeysInv, Ends, UnderWay

\* States are sent to some pages, and what is right for the others stays.
LEMMA StatesSentInv ==
  ASSUME KeysInv, front' \in Pages, inbox' \in [Pages -> Seq(PageMessages)], UNCHANGED <<fate, simple, delayed>>,
         \A q \in Pages:
           \/ inbox'[q] = inbox[q] /\ (Right(q) => Right(q)')
           \/ \E on \in BOOLEAN: inbox'[q] = Append(inbox[q], StateOf(on)) /\ (on => Right(q)')
  PROVE  KeysInv'
<1>1. \A q \in Pages: Right(q) \in BOOLEAN /\ Right(q)' \in BOOLEAN
  BY DEF Right
<1>2. ASSUME NEW q \in Pages PROVE Ends(inbox'[q], simple[q], Right(q)')
  <2>0. inbox[q] \in Seq(PageMessages) /\ simple[q] \in BOOLEAN /\ Ends(inbox[q], simple[q], Right(q))
    BY DEF KeysInv, KeysType
  <2>1. CASE inbox'[q] = inbox[q] /\ (Right(q) => Right(q)')
    BY <2>0, <2>1 DEF Ends
  <2>2. ASSUME NEW on \in BOOLEAN, inbox'[q] = Append(inbox[q], StateOf(on)), on => Right(q)'
        PROVE  Ends(inbox'[q], simple[q], Right(q)')
    <3> DEFINE r == Right(q)'
    <3>1. r \in BOOLEAN /\ (on => r)
      BY <1>1, <2>2
    <3> HIDE DEF r
    <3>2. Ends(Append(inbox[q], StateOf(on)), simple[q], r)
      BY <2>0, <3>1, EndsFacts
    <3> QED
      BY <2>2, <3>2 DEF r
  <2> QED
    BY <2>1, <2>2
<1>3. ASSUME NEW q \in Pages, NEW j, NEW i PROVE UnderWay(q, j, i)' <=> UnderWay(q, j, i)
  <2>1. CASE inbox'[q] = inbox[q]
    BY <2>1 DEF UnderWay
  <2>2. ASSUME NEW on \in BOOLEAN, inbox'[q] = Append(inbox[q], StateOf(on))
        PROVE  UnderWay(q, j, i)' <=> UnderWay(q, j, i)
    <3> DEFINE s == inbox[q]
               m == StateOf(on)
               t == Append(s, m)
    <3>1. m \in PageMessages /\ m.what = "state" /\ s \in Seq(PageMessages)
      BY DEF StateOf, PageMessages, StateMessages, KeysInv, KeysType
    <3> HIDE DEF m, s
    <3>2. /\ t[Len(s) + 1] = m
          /\ \A k \in 1 .. Len(s): k \in 1 .. Len(t)
          /\ \A k \in 1 .. Len(s): t[k] = s[k]
          /\ \A k \in 1 .. Len(t): k \in 1 .. Len(s) \/ k = Len(s) + 1
      BY <3>1, Appended
    <3>3. inbox'[q] = t
      BY <2>2 DEF m, s
    <3> HIDE DEF t
    <3>4. j \in 1 .. Len(t) /\ t[j].what # "state" <=> j \in 1 .. Len(s) /\ s[j].what # "state"
      BY <3>1, <3>2
    <3>5. UnderWay(q, j, i)' <=> j \in 1 .. Len(t) /\ t[j].what # "state" /\ t[j].key.id = i
      BY <3>3 DEF UnderWay
    <3>6. UnderWay(q, j, i) <=> j \in 1 .. Len(s) /\ s[j].what # "state" /\ s[j].key.id = i
      BY DEF UnderWay, s
    <3> QED
      BY <3>2, <3>4, <3>5, <3>6
  <2> QED
    BY <2>1, <2>2
<1>4. KeysType'
  BY DEF KeysInv, KeysType
<1>5. \A q \in Pages: (delayed'[q] => simple'[q]) /\ Ends(inbox'[q], simple'[q], Right(q)')
  BY <1>2 DEF KeysInv
<1>6. \A q \in Pages, j, i \in Nat: UnderWay(q, j, i)' => i \in 1 .. Len(fate')
  BY <1>3 DEF KeysInv
<1>7. \A q, z \in Pages, j, k, i \in Nat: UnderWay(q, j, i)' /\ UnderWay(z, k, i)' => q = z /\ j = k
  BY <1>3 DEF KeysInv
<1>8. ASSUME NEW i \in 1 .. Len(fate')
      PROVE  Len(fate'[i]) = (IF \E q \in Pages, j \in Nat: UnderWay(q, j, i)' THEN 0 ELSE 1)
  <2>1. (\E q \in Pages, j \in Nat: UnderWay(q, j, i)') <=> (\E q \in Pages, j \in Nat: UnderWay(q, j, i))
    BY <1>3
  <2>2. Len(fate[i]) = (IF \E q \in Pages, j \in Nat: UnderWay(q, j, i) THEN 0 ELSE 1)
    BY DEF KeysInv
  <2> QED
    BY <2>1, <2>2
<1> QED
  BY <1>4, <1>5, <1>6, <1>7, <1>8 DEF KeysInv

\* A page is sent a state: what it sends is right, for the page and all others.
LEMMA ModifiersInv ==
  ASSUME KeysInv, [\E key \in {"Control", "Shift", "Meta"} : HoldDown(key) \/ LetGo(key)]_keyVars
         \/ \E p \in Pages: FrontMoves(p)
  PROVE  KeysInv'
<1>0. front \in Pages /\ inbox \in [Pages -> Seq(PageMessages)]
  BY DEF KeysInv, KeysType
<1>1. ASSUME NEW on \in BOOLEAN, setCtrlShift(front, on), front' \in Pages, UNCHANGED <<fate, simple, delayed>>,
             \A q \in Pages: IF q = front THEN on => Right(q)' ELSE Right(q) => Right(q)'
      PROVE  KeysInv'
  <2>1. inbox' = [inbox EXCEPT ![front] = Append(@, StateOf(on))]
    BY <1>1 DEF setCtrlShift, Give
  <2>2. StateOf(on) \in PageMessages
    BY DEF StateOf, PageMessages, StateMessages
  <2>3. inbox'[front] = Append(inbox[front], StateOf(on)) /\ \A q \in Pages: q # front => inbox'[q] = inbox[q]
    BY <1>0, <2>1
  <2>4. Append(inbox[front], StateOf(on)) \in Seq(PageMessages)
    BY <1>0, <2>2, Appended
  <2>5. inbox' \in [Pages -> Seq(PageMessages)]
    BY <1>0, <2>1, <2>4
  <2>6. ASSUME NEW q \in Pages
        PROVE  \/ inbox'[q] = inbox[q] /\ (Right(q) => Right(q)')
               \/ \E on1 \in BOOLEAN: inbox'[q] = Append(inbox[q], StateOf(on1)) /\ (on1 => Right(q)')
    BY <1>1, <2>3
  <2> QED
    BY <1>1, <2>5, <2>6, StatesSentInv
<1>2. ASSUME NEW key \in {"Control", "Shift", "Meta"}, HoldDown(key) PROVE KeysInv'
  <2> DEFINE on == Both /\ "Meta" \notin held'
  <2>1. /\ on \in BOOLEAN /\ setCtrlShift(front, on) /\ held' = held \cup {key}
        /\ UNCHANGED <<front, fate, simple, delayed>>
    BY <1>2 DEF HoldDown, pageVars, Both
  <2>2. \A q \in Pages: IF q = front THEN on => Right(q)' ELSE Right(q) => Right(q)'
    BY <2>1 DEF Right, Both
  <2> HIDE DEF on
  <2> QED
    BY <1>0, <1>1, <2>1, <2>2
<1>3. ASSUME NEW key \in {"Control", "Shift", "Meta"}, LetGo(key) PROVE KeysInv'
  <2>1. /\ key \in held /\ held' = held \ {key} /\ UNCHANGED <<front, fate, simple, delayed>>
        /\ IF Up(key).tells THEN setCtrlShift(front, Up(key).on) ELSE UNCHANGED <<lastState, inbox>>
    BY <1>3 DEF LetGo, pageVars
  <2>2. /\ Up(key).tells \in BOOLEAN /\ Up(key).on \in BOOLEAN
        /\ \A q \in Pages: q = front /\ Up(key).on => Right(q)'
        /\ ~Up(key).tells => ~Right(front)
    BY <2>1 DEF Up, Right, Both
  <2>3. \A q \in Pages: q # front => ~Right(q)
    BY DEF Right
  <2>4. CASE Up(key).tells
    <3> DEFINE on == Up(key).on
    <3>1. on \in BOOLEAN /\ setCtrlShift(front, on) /\ \A q \in Pages: q = front /\ on => Right(q)'
      BY <2>1, <2>2, <2>4
    <3> HIDE DEF on
    <3> QED
      BY <1>0, <1>1, <2>1, <2>3, <3>1
  <2>5. CASE ~Up(key).tells
    <3>1. UNCHANGED inbox
      BY <2>1, <2>5
    <3>2. \A q \in Pages: inbox'[q] = inbox[q] /\ (Right(q) => Right(q)')
      BY <2>2, <2>3, <2>5, <3>1
    <3> QED
      BY <1>0, <2>1, <3>1, <3>2, StatesSentInv
  <2> QED
    BY <2>2, <2>4, <2>5
<1>4. ASSUME NEW p \in Pages, FrontMoves(p) PROVE KeysInv'
  <2>1. setCtrlShift(front, FALSE) /\ front' \in Pages /\ UNCHANGED <<fate, simple, delayed>>
    BY <1>4 DEF FrontMoves, BlurTells, pageVars
  <2>2. \A q \in Pages: q # front => ~Right(q)
    BY DEF Right
  <2> QED
    BY <1>1, <2>1, <2>2
<1>5. CASE UNCHANGED keyVars
  <2>1. UNCHANGED <<front, inbox, held, fate, simple, delayed>>
    BY <1>5 DEF keyVars
  <2>2. \A q \in Pages: inbox'[q] = inbox[q] /\ (Right(q) => Right(q)')
    BY <2>1 DEF Right
  <2> QED
    BY <1>0, <2>1, <2>2, StatesSentInv
<1> QED
  BY <1>2, <1>3, <1>4, <1>5

\* A new key is sent to one page, once.
LEMMA PressKeyInv ==
  ASSUME KeysInv, NEW kind \in KeyKinds, PressKey(kind)
  PROVE  KeysInv'
<1> DEFINE i == Len(fate) + 1
           s == inbox[front]
<1>0. /\ front \in Pages /\ inbox \in [Pages -> Seq(PageMessages)] /\ fate \in Seq(Seq(Outcomes))
      /\ s \in Seq(PageMessages) /\ i \in Nat
  BY DEF KeysInv, KeysType
<1>1. PICK m \in KeyMessages: m.key.id = i /\ inbox' = [inbox EXCEPT ![front] = @ \o <<m>>]
  <2> DEFINE k == [kind |-> kind, id |-> i]
             m1 == [what |-> "reinject", key |-> k]
             m2 == [what |-> "key", key |-> k]
  <2>1. m1 \in KeyMessages /\ m1.key.id = i /\ m2 \in KeyMessages /\ m2.key.id = i
    BY <1>0 DEF KeyMessages
  <2>2. inbox' = [inbox EXCEPT ![front] = @ \o (IF chordMode[front] THEN <<m1>> ELSE <<m2>>)]
    BY DEF PressKey, SentInChord
  <2> HIDE DEF k, m1, m2
  <2> QED
    BY <2>1, <2>2
<1>2. m \in PageMessages /\ m.what # "state"
  BY DEF PageMessages, KeyMessages
<1> DEFINE t == Append(s, m)
<1>3. inbox' = [inbox EXCEPT ![front] = t]
  <2>1. s \o <<m>> = Append(s, m)
    BY <1>0, <1>2, AppendIsConcat
  <2> QED
    BY <1>1, <2>1
<1>4. /\ t \in Seq(PageMessages) /\ Len(s) \in Nat /\ Len(s) + 1 \in 1 .. Len(t) /\ t[Len(s) + 1] = m
      /\ \A j \in 1 .. Len(s): j \in 1 .. Len(t)
      /\ \A j \in 1 .. Len(s): t[j] = s[j]
      /\ \A j \in 1 .. Len(t): j \in 1 .. Len(s) \/ j = Len(s) + 1
  BY <1>0, <1>2, Appended
<1>5. /\ UNCHANGED <<held, front, simple, delayed>> /\ fate' = Append(fate, <<>>)
  BY DEF PressKey, pageVars
<1>6. /\ fate' \in Seq(Seq(Outcomes)) /\ Len(fate) \in Nat /\ i \in 1 .. Len(fate') /\ fate'[i] = <<>>
      /\ \A n \in 1 .. Len(fate): n \in 1 .. Len(fate')
      /\ \A n \in 1 .. Len(fate): fate'[n] = fate[n]
      /\ \A n \in 1 .. Len(fate'): n \in 1 .. Len(fate) \/ n = i
  <2>1. <<>> \in Seq(Outcomes)
    OBVIOUS
  <2> QED
    BY <1>0, <1>5, <2>1, Appended
<1>7. inbox'[front] = t /\ \A q \in Pages: q # front => inbox'[q] = inbox[q]
  BY <1>0, <1>3
<1>8. KeysType'
  BY <1>0, <1>3, <1>4, <1>5, <1>6 DEF KeysInv, KeysType
<1>9. ASSUME NEW q \in Pages, NEW j \in Nat, NEW n \in Nat
      PROVE  UnderWay(q, j, n)' <=> UnderWay(q, j, n) \/ (q = front /\ j = Len(s) + 1 /\ n = i)
  <2> HIDE DEF i, t
  <2>1. CASE q = front
    <3>1. UnderWay(q, j, n)' <=> j \in 1 .. Len(t) /\ t[j].what # "state" /\ t[j].key.id = n
      BY <1>7, <2>1 DEF UnderWay
    <3>2. UnderWay(q, j, n) <=> j \in 1 .. Len(s) /\ s[j].what # "state" /\ s[j].key.id = n
      BY <2>1 DEF UnderWay
    <3> HIDE DEF s
    <3> QED
      BY <1>1, <1>2, <1>4, <2>1, <3>1, <3>2
  <2>2. CASE q # front
    BY <1>7, <2>2 DEF UnderWay
  <2> QED
    BY <2>1, <2>2
<1>10. i \notin 1 .. Len(fate) /\ Len(s) + 1 \in Nat /\ Len(s) + 1 \notin 1 .. Len(s)
  <2>1. Len(fate) \in Nat /\ Len(s) \in Nat
    BY <1>4, <1>6
  <2> HIDE DEF s, t
  <2> QED
    BY <2>1
<1>11. \A q \in Pages, j \in Nat: ~UnderWay(q, j, i)
  BY <1>0, <1>10 DEF KeysInv
<1>12. ASSUME NEW q \in Pages PROVE Ends(inbox'[q], simple[q], Right(q))
  <2>1. Ends(inbox[q], simple[q], Right(q)) /\ inbox[q] \in Seq(PageMessages) /\ simple[q] \in BOOLEAN /\ Right(q) \in BOOLEAN
    BY DEF KeysInv, KeysType, Right
  <2> HIDE DEF t
  <2>2. CASE q = front
    <3> DEFINE r == Right(q)
    <3> HIDE DEF r
    <3>1. Ends(Append(inbox[q], m), simple[q], r)
      BY <2>1, EndsFacts DEF r
    <3> QED
      BY <1>7, <2>2, <3>1 DEF t, s, r
  <2> QED
    BY <1>7, <2>1, <2>2
<1>13. \A q \in Pages: Right(q)' = Right(q)
  BY <1>5 DEF Right
<1> DEFINE W(q, j, n) == UnderWay(q, j, n)
           V(q, j, n) == UnderWay(q, j, n)'
<1> HIDE DEF i, s, t
<1>14. \A q \in Pages, j, n \in Nat: V(q, j, n) <=> W(q, j, n) \/ (q = front /\ j = Len(s) + 1 /\ n = i)
  BY <1>9
<1>15. /\ \A p \in Pages, j, n \in Nat: W(p, j, n) => n \in 1 .. Len(fate)
       /\ \A p, q \in Pages, j, k, n \in Nat: W(p, j, n) /\ W(q, k, n) => p = q /\ j = k
       /\ \A n \in 1 .. Len(fate): Len(fate[n]) = (IF \E p \in Pages, j \in Nat: W(p, j, n) THEN 0 ELSE 1)
       /\ \A q \in Pages, j \in Nat: ~W(q, j, i)
  BY <1>11 DEF KeysInv
<1> HIDE DEF W, V
<1>16. \A p \in Pages, j, n \in Nat: V(p, j, n) => n \in 1 .. Len(fate')
  BY <1>6, <1>14, <1>15
<1>17. \A p, q \in Pages, j, k, n \in Nat: V(p, j, n) /\ V(q, k, n) => p = q /\ j = k
  BY <1>14, <1>15
<1>18. ASSUME NEW n \in 1 .. Len(fate')
       PROVE  Len(fate'[n]) = (IF \E p \in Pages, j \in Nat: V(p, j, n) THEN 0 ELSE 1)
  <2>0. n \in Nat
    BY <1>6
  <2>1. CASE n = i
    <3>1. V(front, Len(s) + 1, n)
      BY <1>0, <1>10, <1>14, <2>0, <2>1
    <3>2. Len(fate'[n]) = 0
      BY <1>6, <2>1
    <3> QED
      BY <1>0, <1>10, <3>1, <3>2
  <2>2. CASE n # i
    <3>1. n \in 1 .. Len(fate) /\ fate'[n] = fate[n]
      BY <1>6, <2>2
    <3>2. \A p \in Pages, j \in Nat: V(p, j, n) <=> W(p, j, n)
      BY <1>14, <2>0, <2>2
    <3> QED
      BY <1>15, <3>1, <3>2
  <2> QED
    BY <2>1, <2>2
<1>19. \A p \in Pages: (delayed'[p] => simple'[p]) /\ Ends(inbox'[p], simple'[p], Right(p)')
  BY <1>5, <1>12, <1>13 DEF KeysInv
<1> QED
  BY <1>8, <1>16, <1>17, <1>18, <1>19 DEF KeysInv, V

\* What comes of a message that a page takes: a key gets its one outcome, a state is taken over.
LEMMA PageTakesFacts ==
  ASSUME KeysInv, NEW p \in Pages, PageTakes(p), NEW m, m = inbox[p][1]
  PROVE  /\ inbox[p] # <<>> /\ m \in PageMessages /\ inbox' = [inbox EXCEPT ![p] = Tail(@)]
         /\ UNCHANGED <<held, front>>
         /\ m.what # "state" =>
              /\ UNCHANGED <<simple, delayed>>
              /\ \E o \in Outcomes: fate' = [fate EXCEPT ![m.key.id] = Append(@, o)]
         /\ m.what = "state" =>
              /\ UNCHANGED fate /\ m.on \in BOOLEAN /\ simple' = [simple EXCEPT ![p] = m.on]
              /\ delayed' = IF m.on THEN delayed ELSE [delayed EXCEPT ![p] = FALSE]
<1>1. inbox[p] \in Seq(PageMessages) /\ inbox[p] # <<>>
  BY DEF KeysInv, KeysType, PageTakes
<1>2. m = Head(inbox[p]) /\ m \in PageMessages
  BY <1>1, Shortened
<1>3. m.what \in {"key", "reinject", "state"} /\ (m.what = "state" => m.on \in BOOLEAN)
  BY <1>2 DEF PageMessages, KeyMessages, StateMessages
<1>4. /\ UNCHANGED <<held, front>> /\ inbox' = [inbox EXCEPT ![p] = Tail(@)]
      /\ CASE m.what = "key"      -> handleTerminalKeydown(p, m.key) \/ appHandleKeyDown(p, m.key, "text")
           [] m.what = "reinject" -> appHandleKeyDown(p, m.key, "swallowed")
           [] m.what = "state"    -> IF m.on THEN setControlShift(p) ELSE unsetControlShift(p)
  BY <1>2 DEF PageTakes
<1>5. ASSUME NEW k, NEW otherwise \in Outcomes, appHandleKeyDown(p, k, otherwise)
      PROVE  UNCHANGED <<simple, delayed>> /\ \E o \in Outcomes: fate' = [fate EXCEPT ![k.id] = Append(@, o)]
  <2>1. Handled(p, k) \in Outcomes \cup {"none"}
    BY DEF Handled, Outcomes
  <2> DEFINE o == IF Handled(p, k) = "none" THEN otherwise ELSE Handled(p, k)
  <2>2. UNCHANGED <<simple, delayed>> /\ fate' = [fate EXCEPT ![k.id] = Append(@, o)]
    BY <1>5 DEF appHandleKeyDown, Becomes
  <2>3. o \in Outcomes
    BY <2>1
  <2> HIDE DEF o
  <2> QED
    BY <2>2, <2>3
<1>6. ASSUME NEW k, handleTerminalKeydown(p, k)
      PROVE  UNCHANGED <<simple, delayed>> /\ \E o \in Outcomes: fate' = [fate EXCEPT ![k.id] = Append(@, o)]
  <2>1. CASE k.kind = "block"
    <3>1. UNCHANGED <<simple, delayed>> /\ fate' = [fate EXCEPT ![k.id] = Append(@, "block")]
      BY <1>6, <2>1 DEF handleTerminalKeydown, Becomes, pageVars
    <3>2. "block" \in Outcomes
      BY DEF Outcomes
    <3> QED
      BY <3>1, <3>2
  <2>2. CASE k.kind # "block"
    <3>1. appHandleKeyDown(p, k, "text")
      BY <1>6, <2>2 DEF handleTerminalKeydown
    <3>2. "text" \in Outcomes
      BY DEF Outcomes
    <3> QED
      BY <1>5, <3>1, <3>2
  <2> QED
    BY <2>1, <2>2
<1>7. CASE m.what = "state"
  BY <1>1, <1>2, <1>3, <1>4, <1>7 DEF setControlShift, unsetControlShift
<1>8. CASE m.what # "state"
  <2>1. handleTerminalKeydown(p, m.key) \/ appHandleKeyDown(p, m.key, "text") \/ appHandleKeyDown(p, m.key, "swallowed")
    BY <1>3, <1>4, <1>8
  <2>2. UNCHANGED <<simple, delayed>> /\ \E o \in Outcomes: fate' = [fate EXCEPT ![m.key.id] = Append(@, o)]
    <3>1. "text" \in Outcomes /\ "swallowed" \in Outcomes
      BY DEF Outcomes
    <3>2. CASE handleTerminalKeydown(p, m.key)
      BY <1>6, <3>2
    <3>3. CASE appHandleKeyDown(p, m.key, "text")
      BY <1>5, <3>1, <3>3
    <3>4. CASE appHandleKeyDown(p, m.key, "swallowed")
      BY <1>5, <3>1, <3>4
    <3> QED
      BY <2>1, <3>2, <3>3, <3>4
  <2> QED
    BY <1>1, <1>2, <1>4, <1>8, <2>2
<1> QED
  BY <1>7, <1>8

LEMMA PageTakesInv ==
  ASSUME KeysInv, NEW p \in Pages, PageTakes(p)
  PROVE  KeysInv'
<1> DEFINE s == inbox[p]
           t == Tail(s)
           m == s[1]
<1>0. /\ inbox \in [Pages -> Seq(PageMessages)] /\ fate \in Seq(Seq(Outcomes)) /\ s \in Seq(PageMessages)
      /\ simple \in [Pages -> BOOLEAN] /\ delayed \in [Pages -> BOOLEAN]
  BY DEF KeysInv, KeysType
<1>1. /\ s # <<>> /\ m \in PageMessages /\ inbox' = [inbox EXCEPT ![p] = t]
      /\ UNCHANGED <<held, front>>
      /\ m.what # "state" =>
           /\ UNCHANGED <<simple, delayed>>
           /\ \E o \in Outcomes: fate' = [fate EXCEPT ![m.key.id] = Append(@, o)]
      /\ m.what = "state" =>
           /\ UNCHANGED fate /\ m.on \in BOOLEAN /\ simple' = [simple EXCEPT ![p] = m.on]
           /\ delayed' = IF m.on THEN delayed ELSE [delayed EXCEPT ![p] = FALSE]
  BY PageTakesFacts
<1>2. /\ t \in Seq(PageMessages) /\ Len(s) \in Nat \ {0} /\ Len(t) = Len(s) - 1
      /\ \A j \in 1 .. Len(t): j + 1 \in 1 .. Len(s) /\ t[j] = s[j + 1]
      /\ \A j \in 2 .. Len(s): j - 1 \in 1 .. Len(t) /\ t[j - 1] = s[j]
  BY <1>0, <1>1, Shortened
<1>3. inbox' \in [Pages -> Seq(PageMessages)] /\ inbox'[p] = t /\ \A q \in Pages: q # p => inbox'[q] = inbox[q]
  BY <1>0, <1>1, <1>2
<1>4. \A q \in Pages: Right(q)' = Right(q)
  BY <1>1 DEF Right
<1>5. ASSUME NEW q \in Pages
      PROVE  (delayed'[q] => simple'[q]) /\ Ends(inbox'[q], simple'[q], Right(q)')
  <2>1. /\ Ends(inbox[q], simple[q], Right(q)) /\ inbox[q] \in Seq(PageMessages) /\ simple[q] \in BOOLEAN
        /\ Right(q) \in BOOLEAN /\ (delayed[q] => simple[q])
    BY DEF KeysInv, KeysType, Right
  <2>2. CASE q = p
    <3> DEFINE r == Right(p)
               b == simple[p]
    <3>1. r \in BOOLEAN /\ b \in BOOLEAN /\ Ends(s, b, r)
      BY <2>1, <2>2
    <3> HIDE DEF r, b
    <3>2. (m.what # "state" => Ends(t, b, r)) /\ (m.what = "state" => Ends(t, m.on, r))
      BY <1>0, <1>1, <3>1, EndsFacts
    <3> HIDE DEF s, t, m
    <3>3. Ends(t, simple'[p], Right(p))
      BY <1>0, <1>1, <3>2 DEF r, b
    <3>4. delayed'[p] => simple'[p]
      BY <1>0, <1>1, <2>1, <2>2
    <3> QED
      BY <1>3, <1>4, <2>2, <3>3, <3>4
  <2>3. CASE q # p
    <3> HIDE DEF s, t, m
    <3>1. simple'[q] = simple[q] /\ delayed'[q] = delayed[q]
      BY <1>0, <1>1, <2>3
    <3> QED
      BY <1>3, <1>4, <2>1, <2>3, <3>1
  <2> QED
    BY <2>2, <2>3
<1>6. 1 \in 1 .. Len(s) /\ \A j \in 1 .. Len(s): j = 1 \/ j \in 2 .. Len(s)
  <2>1. Len(s) \in Nat \ {0}
    BY <1>2
  <2> HIDE DEF s
  <2> QED
    BY <2>1
\* A message under way is one that was, one place further behind in the queue that was taken from.
<1> DEFINE W(q, j, n) == UnderWay(q, j, n)
           V(q, j, n) == UnderWay(q, j, n)'
<1>7. ASSUME NEW q \in Pages, NEW j \in Nat, NEW n \in Nat
      PROVE  /\ q # p => (V(q, j, n) <=> W(q, j, n))
             /\ q = p => (V(q, j, n) <=> j # 0 /\ W(q, j + 1, n))
  <2>1. CASE q # p
    BY <1>3, <2>1 DEF UnderWay
  <2>2. CASE q = p
    <3>1. V(q, j, n) <=> j \in 1 .. Len(t) /\ t[j].what # "state" /\ t[j].key.id = n
      BY <1>3, <2>2 DEF UnderWay
    <3>2. W(q, j + 1, n) <=> j + 1 \in 1 .. Len(s) /\ s[j + 1].what # "state" /\ s[j + 1].key.id = n
      BY <2>2 DEF UnderWay
    <3>3. j # 0 /\ j + 1 \in 1 .. Len(s) <=> j \in 1 .. Len(t)
      <4>1. Len(s) \in Nat /\ Len(t) = Len(s) - 1
        BY <1>2
      <4> HIDE DEF s, t
      <4> QED
        BY <4>1
    <3> HIDE DEF s, t, V, W
    <3> QED
      BY <1>2, <2>2, <3>1, <3>2, <3>3
  <2> QED
    BY <2>1, <2>2
<1>8. /\ \A q \in Pages, j, n \in Nat: W(q, j, n) => n \in 1 .. Len(fate)
      /\ \A q1, q2 \in Pages, j, k, n \in Nat: W(q1, j, n) /\ W(q2, k, n) => q1 = q2 /\ j = k
      /\ \A n \in 1 .. Len(fate): Len(fate[n]) = (IF \E q \in Pages, j \in Nat: W(q, j, n) THEN 0 ELSE 1)
  BY DEF KeysInv
<1>9. \A n: W(p, 1, n) <=> m.what # "state" /\ m.key.id = n
  BY <1>6 DEF UnderWay
<1>10. m.what # "state" => m.key.id \in Nat
  BY <1>1 DEF PageMessages, KeyMessages, StateMessages
<1>11. \A j \in 1 .. Len(s): j \in Nat /\ (j = 1 \/ (j - 1 \in Nat /\ j - 1 # 0 /\ (j - 1) + 1 = j))
  <2>1. Len(s) \in Nat \ {0}
    BY <1>2
  <2> HIDE DEF s
  <2> QED
    BY <2>1
<1>12. \A j, n \in Nat: W(p, j, n) => j \in 1 .. Len(s)
  BY DEF UnderWay
<1> HIDE DEF s, t, m, W, V
\* What is still under way.
<1>13. ASSUME NEW n \in Nat
       PROVE  (\E q \in Pages, j \in Nat: V(q, j, n)) <=>
                (\E q \in Pages, j \in Nat: W(q, j, n)) /\ ~W(p, 1, n)
  <2>1. ASSUME NEW q \in Pages, NEW j \in Nat, V(q, j, n)
        PROVE  (\E q1 \in Pages, j1 \in Nat: W(q1, j1, n)) /\ ~W(p, 1, n)
    <3>0. j + 1 \in Nat /\ (j # 0 => j + 1 # 1)
      OBVIOUS
    <3>1. CASE q = p
      <4>1. W(p, j + 1, n) /\ j + 1 # 1
        BY <1>7, <2>1, <3>0, <3>1
      <4> QED
        BY <1>8, <3>0, <4>1
    <3>2. CASE q # p
      <4>1. W(q, j, n)
        BY <1>7, <2>1, <3>2
      <4> QED
        BY <1>8, <3>2, <4>1
    <3> QED
      BY <3>1, <3>2
  <2>2. ASSUME NEW q \in Pages, NEW j \in Nat, W(q, j, n), ~W(p, 1, n)
        PROVE  \E q1 \in Pages, j1 \in Nat: V(q1, j1, n)
    <3>1. CASE q = p
      <4>1. j # 1 /\ j \in 1 .. Len(s)
        BY <1>12, <2>2, <3>1
      <4>2. j - 1 \in Nat /\ j - 1 # 0 /\ (j - 1) + 1 = j
        BY <1>11, <4>1
      <4>3. V(p, j - 1, n)
        BY <1>7, <2>2, <3>1, <4>2
      <4> QED
        BY <4>2, <4>3
    <3>2. CASE q # p
      BY <1>7, <2>2, <3>2
    <3> QED
      BY <3>1, <3>2
  <2> QED
    BY <2>1, <2>2
<1>14. \A q1, q2 \in Pages, j, k, n \in Nat: V(q1, j, n) /\ V(q2, k, n) => q1 = q2 /\ j = k
  <2>1. \A j, k \in Nat: j + 1 \in Nat /\ k + 1 \in Nat /\ (j + 1 = k + 1 => j = k)
    OBVIOUS
  <2> QED
    BY <1>7, <1>8, <2>1
\* The key that was taken has its outcome, the others have what they had.
<1>15. /\ fate' \in Seq(Seq(Outcomes)) /\ Len(fate') = Len(fate)
       /\ \A n \in 1 .. Len(fate):
            IF W(p, 1, n) THEN Len(fate'[n]) = Len(fate[n]) + 1 ELSE fate'[n] = fate[n]
  <2>1. CASE m.what = "state"
    BY <1>0, <1>1, <1>9, <2>1
  <2>2. CASE m.what # "state"
    <3> DEFINE i == m.key.id
    <3>1. i \in Nat /\ W(p, 1, i)
      BY <1>9, <1>10, <2>2
    <3>2. i \in 1 .. Len(fate)
      <4>1. 1 \in Nat
        OBVIOUS
      <4> QED
        BY <1>8, <3>1, <4>1
    <3>3. PICK o \in Outcomes: fate' = [fate EXCEPT ![i] = Append(@, o)]
      BY <1>1, <2>2
    <3>4. \A n: W(p, 1, n) <=> n = i
      BY <1>9, <2>2
    <3> HIDE DEF i
    <3> DEFINE a == Append(fate[i], o)
    <3>5. fate[i] \in Seq(Outcomes)
      BY <1>0, <3>2
    <3>6. a \in Seq(Outcomes) /\ Len(a) = Len(fate[i]) + 1
      BY <3>5, Appended
    <3> HIDE DEF a
    <3>7. fate' = [fate EXCEPT ![i] = a]
      BY <3>3 DEF a
    <3>8. fate' \in Seq(Seq(Outcomes)) /\ Len(fate') = Len(fate)
      BY <1>0, <3>2, <3>6, <3>7
    <3>9. \A n \in 1 .. Len(fate): fate'[n] = IF n = i THEN a ELSE fate[n]
      BY <1>0, <3>7
    <3> QED
      BY <3>4, <3>6, <3>8, <3>9
  <2> QED
    BY <2>1, <2>2
<1>16. KeysType'
  <2>1. simple' \in [Pages -> BOOLEAN] /\ delayed' \in [Pages -> BOOLEAN]
    BY <1>0, <1>1
  <2> QED
    BY <1>1, <1>3, <1>15, <2>1 DEF KeysInv, KeysType
<1>17. ASSUME NEW n \in 1 .. Len(fate')
       PROVE  Len(fate'[n]) = (IF \E q \in Pages, j \in Nat: V(q, j, n) THEN 0 ELSE 1)
  <2>1. n \in 1 .. Len(fate) /\ n \in Nat /\ 1 \in Nat
    BY <1>15
  <2>2. CASE W(p, 1, n)
    <3>1. Len(fate[n]) = 0 /\ Len(fate'[n]) = Len(fate[n]) + 1
      BY <1>8, <1>15, <2>1, <2>2
    <3> QED
      BY <1>13, <2>1, <2>2, <3>1
  <2>3. CASE ~W(p, 1, n)
    BY <1>8, <1>13, <1>15, <2>1, <2>3
  <2> QED
    BY <2>2, <2>3
<1>18. \A q \in Pages, j, n \in Nat: V(q, j, n) => n \in 1 .. Len(fate')
  BY <1>8, <1>13, <1>15
<1> QED
  BY <1>5, <1>14, <1>16, <1>17, <1>18 DEF KeysInv, V

LEMMA KeysStepInv ==
  ASSUME KeysInv, [KeysNext]_keyVars
  PROVE  KeysInv'
<1>0. simple \in [Pages -> BOOLEAN] /\ delayed \in [Pages -> BOOLEAN] /\ front \in Pages
  BY DEF KeysInv, KeysType
\* Steps that leave the queues and what is held alone.
<1>1. ASSUME UNCHANGED <<held, front, inbox, fate>>, simple' \in [Pages -> BOOLEAN], delayed' \in [Pages -> BOOLEAN],
             \A p \in Pages: (simple'[p] => simple[p]) /\ (delayed'[p] => simple'[p])
      PROVE  KeysInv'
  <2>1. \A p \in Pages: Right(p)' = Right(p)
    BY <1>1 DEF Right
  <2>2. \A p \in Pages, j, i \in Nat: UnderWay(p, j, i)' <=> UnderWay(p, j, i)
    BY <1>1 DEF UnderWay
  <2>3. \A p \in Pages: Ends(inbox'[p], simple'[p], Right(p)')
    BY <1>1, <2>1 DEF KeysInv, Ends
  <2>4. KeysType'
    BY <1>1 DEF KeysInv, KeysType
  <2> QED
    BY <1>1, <2>2, <2>3, <2>4 DEF KeysInv
<1>2. ASSUME NEW p \in Pages, setKeyboardChordMode(p) \/ ChordModeTimeout(p) \/ ChordTimeout(p) PROVE KeysInv'
  <2>1. UNCHANGED <<held, front, inbox, fate, simple, delayed>>
    BY <1>2 DEF setKeyboardChordMode, ChordModeTimeout, ChordTimeout, pageVars
  <2> QED
    BY <1>0, <1>1, <2>1 DEF KeysInv
<1>3. ASSUME NEW p \in Pages, OverlayTimer(p) PROVE KeysInv'
  <2>1. UNCHANGED <<held, front, inbox, fate, simple>> /\ delayed' = [delayed EXCEPT ![p] = @ \/ simple[p]]
    BY <1>3 DEF OverlayTimer
  <2>2. delayed' \in [Pages -> BOOLEAN] /\ \A q \in Pages: delayed'[q] => delayed[q] \/ simple[q]
    BY <1>0, <2>1
  <2> QED
    BY <1>0, <1>1, <2>1, <2>2 DEF KeysInv
<1>4. CASE keyboardMouseDownHandler
  <2>1. /\ UNCHANGED <<held, front, inbox, fate>>
        /\ simple' = [simple EXCEPT ![front] = FALSE] /\ delayed' = [delayed EXCEPT ![front] = FALSE]
    BY <1>4 DEF keyboardMouseDownHandler, unsetControlShift
  <2>2. /\ simple' \in [Pages -> BOOLEAN] /\ delayed' \in [Pages -> BOOLEAN]
        /\ \A q \in Pages: (simple'[q] <=> simple[q] /\ q # front) /\ (delayed'[q] <=> delayed[q] /\ q # front)
    BY <1>0, <2>1
  <2> QED
    BY <1>1, <2>1, <2>2 DEF KeysInv
<1>5. ASSUME NEW kind \in KeyKinds, PressKey(kind) PROVE KeysInv'
  BY <1>5, PressKeyInv
<1> QED
  BY <1>2, <1>3, <1>4, <1>5, PageTakesInv, ModifiersInv DEF KeysNext, KeyKinds

\* However presses, chords, timers, moves of the focus and the messages to pages interleave,
\* a key that reached a page has one outcome, and no page is left showing block numbers.
THEOREM KeysAlwaysArrive == KeysSpec => []KeysArrive
<1>1. KeysInv => KeysArrive
  <2> SUFFICES ASSUME KeysInv PROVE KeysArrive
    OBVIOUS
  <2>1. OverlayReleased
    <3>1. ASSUME NEW p \in Pages, delayed[p], inbox[p] = <<>> PROVE Right(p)
      BY <3>1 DEF KeysInv, Ends
    <3> QED
      BY <3>1 DEF OverlayReleased, Right
  <2>2. EachKeyOnce
    <3>0. fate \in Seq(Seq(Outcomes)) /\ inbox \in [Pages -> Seq(PageMessages)]
      BY DEF KeysInv, KeysType
    <3>1. DOMAIN fate = 1 .. Len(fate) /\ \A p \in Pages: DOMAIN inbox[p] = 1 .. Len(inbox[p])
      BY <3>0
    <3>2. ASSUME NEW i
          PROVE  (\E p \in Pages : \E j \in DOMAIN inbox[p] : inbox[p][j].what # "state" /\ inbox[p][j].key.id = i)
                   <=> \E p \in Pages, j \in Nat: UnderWay(p, j, i)
      <4>1. \A p \in Pages: \A j \in 1 .. Len(inbox[p]): j \in Nat
        BY <3>0
      <4> QED
        BY <3>1, <4>1 DEF UnderWay
    <3> QED
      BY <3>1, <3>2 DEF KeysInv, EachKeyOnce
  <2> QED
    BY <2>1, <2>2 DEF KeysArrive
<1> QED
  BY <1>1, KeysInitInv, KeysStepInv, PTL DEF KeysSpec

-----------------------------------------------------------------------------
(* TermMenu: what the terminal has, and the last block that was sent to it *)

Values(k) ==
  CASE k = "cursor" -> {Unset, "block", "underline", "bar"}
    [] k = "blink" -> {Unset, "on", "off"}
    [] OTHER -> Offered[k] \cup {Unset}
AllValues == UNION {Values(k): k \in Keys}
\* What may be set at once: some keys, each to one of its values.
Changes == {f \in UNION {[d -> AllValues]: d \in SUBSET Keys}: \A k \in DOMAIN f: f[k] \in Values(k)}
Metas == {f \in Changes: DOMAIN f = Keys}
Calls == [is: {"set"}, keys: Changes] \cup [is: {"update"}, keys: Metas]

\* After what s holds the page will have m: the last block sent to it, or the one it has.
WillHave(s, has, m) ==
  /\ (\A j \in 1 .. Len(s): s[j].is # "update") => has = m
  /\ \A j \in 1 .. Len(s):
       s[j].is = "update" /\ (\A k \in 1 .. Len(s): k > j => s[k].is # "update") => s[j].keys = m

MenuInv ==
  /\ meta \in Metas /\ pageMeta \in Metas /\ menu \subseteq Metas /\ setting \in Seq(Calls)
  /\ WillHave(setting, pageMeta, meta)
  /\ options = [k \in Options |-> options[k]]
  /\ \A k \in Subscribed: options[k] = Effective(k, pageMeta, settings)
  /\ options["font"] = drawn.font /\ options["theme"] = drawn.theme[1] /\ options["transparency"] = drawn.theme[2]

LEMMA WillHaveFacts ==
  ASSUME NEW s \in Seq(Calls), NEW has, NEW m
  PROVE  /\ \A c \in Calls: c.is = "update" /\ c.keys = m => WillHave(Append(s, c), has, m)
         /\ \A c \in Calls: c.is # "update" /\ WillHave(s, has, m) => WillHave(Append(s, c), has, m)
         /\ s # <<>> /\ s[1].is = "update" /\ WillHave(s, has, m) => WillHave(Tail(s), s[1].keys, m)
<1>1. ASSUME NEW c \in Calls
      PROVE  /\ c.is = "update" /\ c.keys = m => WillHave(Append(s, c), has, m)
             /\ c.is # "update" /\ WillHave(s, has, m) => WillHave(Append(s, c), has, m)
  <2> DEFINE t == Append(s, c)
  <2>1. /\ Len(s) \in Nat /\ Len(s) + 1 \in 1 .. Len(t) /\ t[Len(s) + 1] = c
        /\ \A j \in 1 .. Len(s): j \in 1 .. Len(t)
        /\ \A j \in 1 .. Len(s): t[j] = s[j]
        /\ \A j \in 1 .. Len(t): j \in 1 .. Len(s) \/ j = Len(s) + 1
    BY Appended
  <2> HIDE DEF t
  <2>2. \A j \in 1 .. Len(t): j # Len(s) + 1 => Len(s) + 1 > j
    BY <2>1
  <2>3. CASE c.is = "update" /\ c.keys = m
    <3>1. WillHave(t, has, m)
      BY <2>1, <2>2, <2>3 DEF WillHave
    <3> QED
      BY <2>3, <3>1 DEF t
  <2>4. CASE c.is # "update" /\ WillHave(s, has, m)
    <3>1. WillHave(t, has, m)
      BY <2>1, <2>4 DEF WillHave
    <3> QED
      BY <2>4, <3>1 DEF t
  <2> QED
    BY <2>3, <2>4
<1>2. ASSUME s # <<>>, s[1].is = "update", WillHave(s, has, m) PROVE WillHave(Tail(s), s[1].keys, m)
  <2> DEFINE t == Tail(s)
  <2>1. /\ Len(s) \in Nat \ {0} /\ Len(t) = Len(s) - 1
        /\ \A j \in 1 .. Len(t): j + 1 \in 1 .. Len(s) /\ t[j] = s[j + 1]
        /\ \A j \in 2 .. Len(s): j - 1 \in 1 .. Len(t) /\ t[j - 1] = s[j]
    BY <1>2, Shortened
  <2> HIDE DEF t
  <2>2. 1 \in 1 .. Len(s) /\ \A j \in 1 .. Len(s): j > 1 => j \in 2 .. Len(s)
    BY <2>1
  <2>3. ASSUME NEW j \in 1 .. Len(t), t[j].is = "update", \A k \in 1 .. Len(t): k > j => t[k].is # "update"
        PROVE  t[j].keys = m
    <3>1. \A k \in 1 .. Len(s): k > j + 1 => k - 1 \in 1 .. Len(t) /\ k - 1 > j /\ t[k - 1] = s[k]
      BY <2>1
    <3>2. \A k \in 1 .. Len(s): k > j + 1 => s[k].is # "update"
      BY <2>3, <3>1
    <3>3. j + 1 \in 1 .. Len(s) /\ s[j + 1] = t[j]
      BY <2>1
    <3> QED
      BY <1>2, <2>3, <3>2, <3>3 DEF WillHave
  <2>4. ASSUME \A j \in 1 .. Len(t): t[j].is # "update" PROVE s[1].keys = m
    <3>1. \A k \in 1 .. Len(s): k > 1 => s[k].is # "update"
      BY <2>1, <2>2, <2>4
    <3> QED
      BY <1>2, <2>2, <3>1 DEF WillHave
  <2>5. WillHave(t, s[1].keys, m)
    BY <2>3, <2>4 DEF WillHave
  <2> QED
    BY <2>5 DEF t
<1> QED
  BY <1>1, <1>2

LEMMA ChangeFacts ==
  /\ \A m \in Metas: m \in Changes /\ DOMAIN m = Keys /\ \A k \in Keys: m[k] \in Values(k)
  /\ \A f \in Changes: DOMAIN f \subseteq Keys /\ \A k \in DOMAIN f: f[k] \in Values(k)
  BY DEF Metas, Changes

LEMMA MergedFacts ==
  ASSUME NEW m \in Metas, NEW f \in Changes
  PROVE  Merged(m, f) \in Metas
<1>1. /\ DOMAIN m = Keys /\ \A k \in Keys: m[k] \in Values(k)
      /\ DOMAIN f \subseteq Keys /\ \A k \in DOMAIN f: f[k] \in Values(k)
  BY ChangeFacts
<1> DEFINE g == Merged(m, f)
<1>2. g = [k \in Keys |-> g[k]] /\ \A k \in Keys: g[k] \in Values(k)
  BY <1>1 DEF Merged
<1>3. g \in [Keys -> AllValues]
  <2>1. \A k \in Keys: g[k] \in AllValues
    BY <1>2 DEF AllValues
  <2> HIDE DEF g
  <2> QED
    BY <1>2, <2>1
<1>4. Keys \in SUBSET Keys
  OBVIOUS
<1> HIDE DEF g
<1>5. g \in UNION {[d -> AllValues]: d \in SUBSET Keys} /\ DOMAIN g = Keys
  BY <1>3, <1>4
<1>6. g \in Metas
  BY <1>2, <1>5 DEF Metas, Changes
<1> QED
  BY <1>6 DEF g

\* A change that is given key by key.
LEMMA SomeChanges ==
  ASSUME NEW d \in SUBSET Keys, NEW f, f = [k \in d |-> f[k]], \A k \in d: f[k] \in Values(k)
  PROVE  f \in Changes /\ (d = Keys => f \in Metas)
<1>1. \A k \in d: f[k] \in AllValues
  BY DEF AllValues
<1>2. f \in [d -> AllValues] /\ DOMAIN f = d
  BY <1>1
<1>3. f \in UNION {[c -> AllValues]: c \in SUBSET Keys}
  BY <1>2
<1> QED
  BY <1>2, <1>3 DEF Changes, Metas

LEMMA ItemsAreChanges ==
  /\ \A g \in Submenus: \A item \in Items(g): item \in Changes
  /\ \A v \in {"block", "bar"}: [cursor |-> v] \in Changes
  /\ [blink |-> "on"] \in Changes
  /\ NoMeta \in Metas
<1>1. ASSUME NEW g \in DOMAIN Offered, NEW item \in Items(g) PROVE item \in Changes
  <2>1. g # "cursors"
    BY DEF Offered
  <2>2. PICK v \in Offered[g]: item = [k \in {g} |-> v]
    BY <2>1 DEF Items
  <2>3. g # "cursor" /\ g # "blink" /\ {g} \in SUBSET Keys
    BY DEF Offered, Keys
  <2>4. v \in Values(g)
    BY <2>3 DEF Values
  <2>5. item = [k \in {g} |-> item[k]] /\ \A k \in {g}: item[k] \in Values(k)
    BY <2>2, <2>4
  <2> QED
    BY <2>3, <2>5, SomeChanges
<1>2. ASSUME NEW c \in {Unset, "block", "underline", "bar"}, NEW b \in {Unset, "on", "off"}
      PROVE  [cursor |-> c, blink |-> b] \in Changes
  <2> DEFINE f == [cursor |-> c, blink |-> b]
             d == {"cursor", "blink"}
  <2>1. c \in Values("cursor") /\ b \in Values("blink") /\ d \in SUBSET Keys
    BY DEF Values, Keys
  <2>2. f = [k \in d |-> f[k]] /\ f["cursor"] = c /\ f["blink"] = b
    OBVIOUS
  <2> HIDE DEF f
  <2>3. \A k \in d: f[k] \in Values(k)
    BY <2>1, <2>2
  <2> HIDE DEF d
  <2>4. f \in Changes
    BY <2>1, <2>2, <2>3, SomeChanges
  <2> QED
    BY <2>4 DEF f
<1>3. ASSUME NEW item \in Items("cursors") PROVE item \in Changes
  <2>1. \E c \in {Unset, "block", "underline", "bar"}, b \in {Unset, "on", "off"}: item = [cursor |-> c, blink |-> b]
    BY DEF Items, CursorItems
  <2> QED
    BY <1>2, <2>1
<1>4. ASSUME NEW k \in {"cursor", "blink"}, NEW v \in Values(k), NEW f, f = [x \in {k} |-> v] PROVE f \in Changes
  <2>1. {k} \in SUBSET Keys
    BY DEF Keys
  <2>2. f = [x \in {k} |-> f[x]] /\ \A x \in {k}: f[x] \in Values(x)
    BY <1>4
  <2> QED
    BY <2>1, <2>2, SomeChanges
<1>5. ASSUME NEW v \in {"block", "bar"} PROVE [cursor |-> v] \in Changes
  <2>1. v \in Values("cursor") /\ [cursor |-> v] = [x \in {"cursor"} |-> v]
    BY DEF Values
  <2> QED
    BY <1>4, <2>1
<1>6. [blink |-> "on"] \in Changes
  <2>1. "on" \in Values("blink") /\ [blink |-> "on"] = [x \in {"blink"} |-> "on"]
    BY DEF Values
  <2> QED
    BY <1>4, <2>1
<1>7. NoMeta \in Metas
  <2>1. \A k \in Keys: Unset \in Values(k)
    BY DEF Values
  <2>2. NoMeta = [k \in Keys |-> NoMeta[k]] /\ \A k \in Keys: NoMeta[k] \in Values(k)
    BY <2>1 DEF NoMeta
  <2>3. Keys \in SUBSET Keys
    OBVIOUS
  <2> QED
    BY <2>2, <2>3, SomeChanges
<1> QED
  BY <1>1, <1>3, <1>5, <1>6, <1>7 DEF Submenus

LEMMA MenuInitInv == MenuInit => MenuInv
<1> SUFFICES ASSUME MenuInit PROVE MenuInv
  OBVIOUS
<1>1. meta \in Metas /\ pageMeta \in Metas /\ menu \subseteq Metas /\ setting \in Seq(Calls)
  BY ItemsAreChanges DEF MenuInit
<1>2. WillHave(setting, pageMeta, meta)
  BY DEF MenuInit, WillHave
<1>3. /\ options = [k \in Options |-> options[k]]
      /\ \A k \in Options: options[k] = Effective(k, pageMeta, settings)
  BY DEF MenuInit, MadeWith
<1>4. /\ drawn.font = Effective("font", pageMeta, settings) /\ drawn.theme[1] = Effective("theme", pageMeta, settings)
      /\ drawn.theme[2] = Effective("transparency", pageMeta, settings)
  BY DEF MenuInit, Look
<1>5. Subscribed \subseteq Options /\ {"font", "theme", "transparency"} \subseteq Options
  BY DEF Subscribed, Options
<1> QED
  BY <1>1, <1>2, <1>3, <1>4, <1>5 DEF MenuInv

LEMMA NotifiedFacts ==
  ASSUME NEW m, NEW s, NEW o, o = Notified(options, m, s)
  PROVE  /\ o = [k \in Options |-> o[k]]
         /\ \A k \in Subscribed: o[k] = Effective(k, m, s)
         /\ \A k \in {"font", "theme", "transparency"}: o[k] = options[k]
<1>1. Subscribed \subseteq Options /\ {"font", "theme", "transparency"} \subseteq Options
      /\ \A k \in {"font", "theme", "transparency"}: k \notin Subscribed
  BY DEF Subscribed, Options
<1> QED
  BY <1>1 DEF Notified

LEMMA MenuStepInv ==
  ASSUME MenuInv, [MenuNext]_menuVars
  PROVE  MenuInv'
<1>0. /\ meta \in Metas /\ pageMeta \in Metas /\ setting \in Seq(Calls) /\ WillHave(setting, pageMeta, meta)
  BY DEF MenuInv
<1>1. CASE OpenMenu \/ CloseMenu
  BY <1>1 DEF OpenMenu, CloseMenu, MenuInv
<1>2. ASSUME NEW g \in Submenus, NEW item \in Items(g), Choose(item) PROVE MenuInv'
  <2> DEFINE c == [is |-> "set", keys |-> item]
  <2>1. c \in Calls /\ c.is # "update"
    BY ItemsAreChanges DEF Calls
  <2>2. menu' = {} /\ setting' = Append(setting, c) /\ UNCHANGED <<meta, pageMeta, settings, options, drawn>>
    BY <1>2 DEF Choose
  <2> HIDE DEF c
  <2>3. Append(setting, c) \in Seq(Calls) /\ WillHave(Append(setting, c), pageMeta, meta)
    BY <1>0, <2>1, WillHaveFacts, Appended
  <2> QED
    BY <2>2, <2>3 DEF MenuInv
\* The block is stored and sent to the page.
<1>3. ASSUME NEW s \in Seq(Calls), meta' \in Metas, setting' = Append(s, [is |-> "update", keys |-> meta']),
             UNCHANGED <<pageMeta, settings, menu, options, drawn>>
      PROVE  MenuInv'
  <2> DEFINE c == [is |-> "update", keys |-> meta']
  <2>1. c \in Calls /\ c.is = "update" /\ c.keys = meta' /\ setting' = Append(s, c)
    BY <1>3 DEF Calls
  <2> HIDE DEF c
  <2>2. Append(s, c) \in Seq(Calls) /\ WillHave(Append(s, c), pageMeta, meta')
    BY <2>1, WillHaveFacts, Appended
  <2> QED
    BY <1>3, <2>1, <2>2 DEF MenuInv
<1>4. CASE SetMeta
  <2>1. /\ setting # <<>> /\ Head(setting).is = "set" /\ meta' = Merged(meta, Head(setting).keys)
        /\ setting' = Append(Tail(setting), [is |-> "update", keys |-> meta'])
        /\ UNCHANGED <<pageMeta, settings, menu, options, drawn>>
    BY <1>4 DEF SetMeta
  <2>2. Head(setting) \in Calls /\ Tail(setting) \in Seq(Calls)
    BY <1>0, <2>1, Shortened
  <2>3. Head(setting).keys \in Changes
    BY <2>1, <2>2 DEF Calls
  <2>4. meta' \in Metas
    BY <1>0, <2>1, <2>3, MergedFacts
  <2> QED
    BY <1>3, <2>1, <2>2, <2>4
<1>5. ASSUME NEW ks \in Changes, OthersSetMeta(ks) PROVE MenuInv'
  <2>1. /\ meta' = Merged(meta, ks) /\ setting' = Append(setting, [is |-> "update", keys |-> meta'])
        /\ UNCHANGED <<pageMeta, settings, menu, options, drawn>>
    BY <1>5 DEF OthersSetMeta
  <2>2. meta' \in Metas
    BY <1>0, <2>1, MergedFacts
  <2> QED
    BY <1>0, <1>3, <2>1, <2>2
<1>6. CASE UpdateArrives
  <2>1. /\ setting # <<>> /\ Head(setting).is = "update" /\ pageMeta' = Head(setting).keys
        /\ setting' = Tail(setting) /\ options' = Notified(options, pageMeta', settings)
        /\ UNCHANGED <<meta, settings, menu, drawn>>
    BY <1>6 DEF UpdateArrives
  <2>2. Head(setting) \in Calls /\ Head(setting) = setting[1] /\ Tail(setting) \in Seq(Calls)
    BY <1>0, <2>1, Shortened
  <2>3. pageMeta' \in Metas
    BY <2>1, <2>2 DEF Calls
  <2>4. WillHave(Tail(setting), setting[1].keys, meta)
    BY <1>0, <2>1, <2>2, WillHaveFacts
  <2>5. /\ options' = [k \in Options |-> options'[k]]
        /\ \A k \in Subscribed: options'[k] = Effective(k, pageMeta', settings)
        /\ \A k \in {"font", "theme", "transparency"}: options'[k] = options[k]
    BY <2>1, NotifiedFacts
  <2>6. WillHave(setting', pageMeta', meta')
    BY <2>1, <2>2, <2>4
  <2> QED
    BY <2>1, <2>2, <2>3, <2>5, <2>6 DEF MenuInv
<1>7. ASSUME NEW k0, NEW v, SettingsChange(k0, v) PROVE MenuInv'
  <2>1. options' = Notified(options, pageMeta, settings') /\ UNCHANGED <<meta, pageMeta, setting, menu, drawn>>
    BY <1>7 DEF SettingsChange
  <2>2. /\ options' = [k \in Options |-> options'[k]]
        /\ \A k \in Subscribed: options'[k] = Effective(k, pageMeta, settings')
        /\ \A k \in {"font", "theme", "transparency"}: options'[k] = options[k]
    BY <2>1, NotifiedFacts
  <2> QED
    BY <2>1, <2>2 DEF MenuInv
<1>8. CASE CommitOptions
  <2> DEFINE now == Look(pageMeta, settings)
  <2>1. /\ drawn' = now /\ UNCHANGED <<meta, pageMeta, settings, setting, menu>>
        /\ options' = IF now.font # drawn.font \/ now.settings # drawn.settings THEN MadeWith(pageMeta, settings)
                      ELSE [options EXCEPT !.theme = now.theme[1], !.transparency = now.theme[2]]
    BY <1>8 DEF CommitOptions
  <2>2. /\ now.font = Effective("font", pageMeta, settings) /\ now.theme[1] = Effective("theme", pageMeta, settings)
        /\ now.theme[2] = Effective("transparency", pageMeta, settings)
    BY DEF Look
  <2>3. /\ Subscribed \subseteq Options /\ {"font", "theme", "transparency"} \subseteq Options
        /\ "theme" \notin Subscribed /\ "transparency" \notin Subscribed /\ "theme" # "transparency"
        /\ "font" # "theme" /\ "font" # "transparency"
    BY DEF Subscribed, Options
  <2> HIDE DEF now
  <2>6. ASSUME options' = [k \in Options |-> options'[k]],
               \A k \in Subscribed: options'[k] = Effective(k, pageMeta, settings),
               options'["font"] = now.font, options'["theme"] = now.theme[1], options'["transparency"] = now.theme[2]
        PROVE  MenuInv'
    <3>1. UNCHANGED <<meta, pageMeta, settings, setting, menu>>
      BY <2>1
    <3>2. drawn' = now
      BY <2>1
    <3>3. options'["font"] = drawn'.font /\ options'["theme"] = drawn'.theme[1] /\ options'["transparency"] = drawn'.theme[2]
      BY <2>6, <3>2
    <3>4. \A k \in Subscribed: options'[k] = Effective(k, pageMeta', settings')
      BY <2>6, <3>1
    <3>5. options' = [k \in Options |-> options'[k]]
      BY <2>6
    <3> QED
      BY <3>1, <3>3, <3>4, <3>5 DEF MenuInv
  <2>4. CASE now.font # drawn.font \/ now.settings # drawn.settings
    <3>1. options' = [k \in Options |-> options'[k]] /\ \A k \in Options: options'[k] = Effective(k, pageMeta, settings)
      BY <2>1, <2>4 DEF MadeWith
    <3> QED
      <4>1. options'["font"] = now.font /\ options'["theme"] = now.theme[1] /\ options'["transparency"] = now.theme[2]
        BY <2>2, <2>3, <3>1
      <4>2. \A k \in Subscribed: options'[k] = Effective(k, pageMeta, settings)
        BY <2>3, <3>1
      <4> QED
        BY <2>6, <3>1, <4>1, <4>2
  <2>5. CASE now.font = drawn.font /\ now.settings = drawn.settings
    <3>1. options' = [options EXCEPT !["theme"] = now.theme[1], !["transparency"] = now.theme[2]]
      BY <2>1, <2>5
    <3>2. /\ options' = [k \in Options |-> options'[k]] /\ options'["theme"] = now.theme[1]
          /\ options'["transparency"] = now.theme[2]
          /\ \A k \in Options: k # "theme" /\ k # "transparency" => options'[k] = options[k]
      BY <2>3, <3>1 DEF MenuInv
    <3> QED
      <4>1. \A k \in Subscribed: options'[k] = Effective(k, pageMeta, settings)
        BY <2>3, <3>2 DEF MenuInv
      <4>2. options'["font"] = now.font
        BY <2>3, <2>5, <3>2 DEF MenuInv
      <4> QED
        BY <2>6, <3>2, <4>1, <4>2
  <2> QED
    BY <2>4, <2>5
<1>9. CASE UNCHANGED menuVars
  BY <1>9 DEF menuVars, MenuInv
<1> QED
  BY <1>1, <1>2, <1>4, <1>5, <1>6, <1>7, <1>8, <1>9, ItemsAreChanges DEF MenuNext

\* Whatever a block's meta is, one item of each submenu is checked.
LEMMA OneItem ==
  ASSUME NEW m \in Metas, NEW g \in Submenus
  PROVE  \E i \in Items(g): {x \in Items(g): Checked(g, x, m)} = {i}
<1>0. \A k \in Keys: m[k] \in Values(k)
  BY ChangeFacts
<1>1. CASE g = "cursors"
  <2> DEFINE Item(c, b) == [cursor |-> c, blink |-> b]
  <2>0. m["cursor"] \in {Unset, "block", "underline", "bar"} /\ m["blink"] \in {Unset, "on", "off"}
    <3>1. m["cursor"] \in Values("cursor") /\ m["blink"] \in Values("blink")
      BY <1>0 DEF Keys
    <3> QED
      BY <3>1 DEF Values
  <2>3. /\ \A x \in Items(g): \/ x = Item(Unset, Unset)
                              \/ \E c \in {"block", "underline", "bar"}, b \in {"on", "off"}: x = Item(c, b)
        /\ Item(Unset, Unset) \in Items(g)
        /\ \A c \in {"block", "underline", "bar"}, b \in {"on", "off"}: Item(c, b) \in Items(g)
    BY <1>1 DEF Items, CursorItems
  <2>1. CASE m.cursor = Unset /\ m.blink = Unset
    <3>1. \A x: Checked(g, x, m) <=> x.cursor = Unset
      BY <1>1, <2>1 DEF Checked
    <3>2. Item(Unset, Unset).cursor = Unset
          /\ \A c \in {"block", "underline", "bar"}, b \in {"on", "off"}: Item(c, b).cursor # Unset
      BY DEF Unset
    <3> HIDE DEF Item
    <3>3. \A x \in Items(g): Checked(g, x, m) <=> x = Item(Unset, Unset)
      BY <2>3, <3>1, <3>2
    <3> QED
      BY <2>3, <3>3
  <2>2. CASE ~(m.cursor = Unset /\ m.blink = Unset)
    <3> DEFINE c0 == normalizeCursorStyle(m.cursor)
               b0 == IF m.blink = "on" THEN "on" ELSE "off"
    <3>1. \A x: Checked(g, x, m) <=> x.cursor = c0 /\ (x.blink = "on" <=> m.blink = "on") /\ x.cursor # Unset
      BY <1>1, <2>2 DEF Checked
    <3>2. c0 \in {"block", "underline", "bar"} /\ b0 \in {"on", "off"} /\ (b0 = "on" <=> m.blink = "on")
      BY DEF normalizeCursorStyle
    <3>3. /\ Item(Unset, Unset).cursor = Unset
          /\ \A c \in {"block", "underline", "bar"}, b \in {"on", "off"}:
               Item(c, b).cursor = c /\ Item(c, b).blink = b /\ c # Unset
      BY DEF Unset
    <3> HIDE DEF Item, c0, b0
    <3>4. \A x \in Items(g): Checked(g, x, m) <=> x = Item(c0, b0)
      <4>1. Checked(g, Item(c0, b0), m)
        BY <3>1, <3>2, <3>3
      <4>2. ASSUME NEW x \in Items(g), Checked(g, x, m) PROVE x = Item(c0, b0)
        <5>1. PICK c \in {"block", "underline", "bar"}, b \in {"on", "off"}: x = Item(c, b)
          BY <2>3, <3>1, <3>3, <4>2
        <5>2. c = c0 /\ (b = "on" <=> b0 = "on")
          BY <3>1, <3>2, <3>3, <4>2, <5>1
        <5>3. b = b0
          BY <3>2, <5>2
        <5> QED
          BY <5>1, <5>2, <5>3
      <4> QED
        BY <4>1, <4>2
    <3>5. Item(c0, b0) \in Items(g)
      BY <2>3, <3>2
    <3> QED
      BY <3>4, <3>5
  <2> QED
    BY <2>1, <2>2
<1>2. CASE g # "cursors"
  <2> DEFINE Item(v) == [k \in {g} |-> v]
             v0 == IF g \in {"clearonstart", "runonstart"} THEN (IF m[g] = "on" THEN "on" ELSE "off") ELSE m[g]
  <2>1. g \in DOMAIN Offered /\ Items(g) = {Item(v): v \in Offered[g]} /\ g \in Keys
    BY <1>2 DEF Submenus, Items, Keys
  <2>2. g # "cursor" /\ g # "blink"
    BY <2>1 DEF Offered
  <2>3. m[g] \in Offered[g] \cup {Unset}
    BY <1>0, <2>1, <2>2 DEF Values
  <2>4. v0 \in Offered[g]
    <3>1. CASE g \in {"clearonstart", "runonstart"}
      <4>1. Offered[g] = {"on", "off"}
        BY <3>1 DEF Offered
      <4> QED
        BY <3>1, <4>1
    <3>2. CASE g \notin {"clearonstart", "runonstart"}
      <4>1. Unset \in Offered[g]
        BY <2>1, <3>2 DEF Offered
      <4> QED
        BY <2>3, <3>2, <4>1
    <3> QED
      BY <3>1, <3>2
  <2>5. \A v \in Offered[g]: Checked(g, Item(v), m) <=> v = v0
    <3>1. CASE g \in {"clearonstart", "runonstart"}
      <4>1. Offered[g] = {"on", "off"}
        BY <3>1 DEF Offered
      <4>2. \A v: Checked(g, Item(v), m) <=> (v = "on" <=> m[g] = "on")
        BY <1>2, <3>1 DEF Checked
      <4> QED
        BY <3>1, <4>1, <4>2
    <3>2. CASE g \notin {"clearonstart", "runonstart"}
      BY <1>2, <3>2 DEF Checked
    <3> QED
      BY <3>1, <3>2
  <2> HIDE DEF Item, v0
  <2> QED
    BY <2>1, <2>4, <2>5
<1> QED
  BY <1>1, <1>2

\* However choices, what others set and what arrives and is committed interleave, an open menu
\* has one item of each submenu checked, and the terminal in the end has what was asked for.
THEOREM MenuAlwaysTells == MenuSpec => []MenuTells
<1>1. MenuInv => MenuTells
  <2> SUFFICES ASSUME MenuInv PROVE MenuTells
    OBVIOUS
  <2>1. OneChecked
    <3>1. ASSUME NEW m \in menu, NEW g \in Submenus
          PROVE  Cardinality({i \in Items(g) : Checked(g, i, m)}) = 1
      <4>1. m \in Metas
        BY DEF MenuInv
      <4>2. PICK i \in Items(g): {x \in Items(g): Checked(g, x, m)} = {i}
        BY <4>1, OneItem
      <4> QED
        BY <4>2, FS_Singleton
    <3> QED
      BY <3>1 DEF OneChecked
  <2>2. ASSUME setting = <<>>, drawn = Look(pageMeta, settings) PROVE options = MadeWith(meta, settings)
    <3>1. pageMeta = meta
      BY <2>2 DEF MenuInv, WillHave
    <3>2. /\ drawn.font = Effective("font", meta, settings) /\ drawn.theme[1] = Effective("theme", meta, settings)
          /\ drawn.theme[2] = Effective("transparency", meta, settings)
      BY <2>2, <3>1 DEF Look
    <3>3. \A k \in Options: k \in Subscribed \cup {"font", "theme", "transparency"}
      BY DEF Options, Subscribed
    <3>4. \A k \in Options: options[k] = Effective(k, meta, settings)
      BY <3>1, <3>2, <3>3 DEF MenuInv
    <3>5. options = [k \in Options |-> options[k]]
      BY DEF MenuInv
    <3> QED
      BY <3>4, <3>5 DEF MadeWith
  <2> QED
    BY <2>1, <2>2 DEF MenuTells, TermApplies
<1> QED
  BY <1>1, MenuInitInv, MenuStepInv, PTL DEF MenuSpec

-----------------------------------------------------------------------------
(* Badges: the page and the store come to the same, and no badge stays that is looked at *)

BadgeSet == [id: Nat, priority: Nat, linked: BOOLEAN]
BadgeMaps == [Refs -> SUBSET BadgeSet]
EventKinds == {"clearall", "clear", "clearbyid", "set"}
EventSet == [kind: EventKinds, ref: Refs, set: SUBSET BadgeSet, all: {NoBadges}]

\* The badge b of r becomes f when the events q are applied to it.
At(r, b, e) == IF Touches(e, r) THEN AppliedAt(b, e) ELSE b
StepsAt(r) == {<<b, e, At(r, b, e)>>: b \in SUBSET BadgeSet, e \in EventSet}
LeadsAt(r, b, q, f) == Path(StepsAt(r), SUBSET BadgeSet, b, q, f)

\* The badges that events and maps can put on a page.
SetsOf(e) == IF e.kind = "set" THEN e.set ELSE {}
Queued(q) == UNION {SetsOf(q[i]): i \in 1 .. Len(q)}
InMap(m) == UNION {m[r]: r \in Refs}
Distinct(q) == \A i, j \in 1 .. Len(q): i # j => SetsOf(q[i]) \cap SetsOf(q[j]) = {}

LEMMA AtFacts ==
  ASSUME NEW r, NEW b \in SUBSET BadgeSet, NEW e \in EventSet
  PROVE  /\ At(r, b, e) \in SUBSET BadgeSet /\ At(r, b, e) \subseteq b \cup SetsOf(e)
         /\ e.kind = "clear" /\ e.ref = r => At(r, b, e) = {}
         /\ Touches(e, r) => AppliedAt(b, e) = At(r, b, e)
<1>1. e.kind \in EventKinds /\ e.set \in SUBSET BadgeSet
  BY DEF EventSet
<1>2. CASE ~Touches(e, r)
  BY <1>2 DEF At, Touches
<1>3. CASE Touches(e, r)
  <2>1. At(r, b, e) = AppliedAt(b, e)
    BY <1>3 DEF At
  <2>2. CASE e.kind \in {"clearall", "clear"}
    BY <2>1, <2>2 DEF AppliedAt
  <2>3. CASE e.kind = "clearbyid"
    <3>1. AppliedAt(b, e) = b \ {x \in b : \E y \in e.set : x.id = y.id}
      BY <2>3 DEF AppliedAt
    <3> QED
      BY <2>1, <2>3, <3>1
  <2>4. CASE e.kind = "set"
    <3>1. AppliedAt(b, e) = b \/ AppliedAt(b, e) = e.set
      BY <2>4 DEF AppliedAt
    <3>2. SetsOf(e) = e.set
      BY <2>4 DEF SetsOf
    <3> QED
      BY <1>1, <2>1, <2>4, <3>1, <3>2
  <2> QED
    BY <1>1, <2>2, <2>3, <2>4 DEF EventKinds
<1> QED
  BY <1>2, <1>3

LEMMA AppliedFacts ==
  ASSUME NEW m \in BadgeMaps, NEW e \in EventSet
  PROVE  /\ Applied(m, e) \in BadgeMaps
         /\ \A r \in Refs: Applied(m, e)[r] = At(r, m[r], e) /\ Applied(m, e)[r] \subseteq m[r] \cup SetsOf(e)
         /\ e.kind = "clear" => Applied(m, e)[e.ref] = {}
         /\ InMap(Applied(m, e)) \subseteq InMap(m) \cup SetsOf(e)
<1>1. e.ref \in Refs /\ \A r \in Refs: m[r] \in SUBSET BadgeSet
  BY DEF EventSet, BadgeMaps
<1>2. \A r \in Refs: /\ At(r, m[r], e) \in SUBSET BadgeSet /\ At(r, m[r], e) \subseteq m[r] \cup SetsOf(e)
                     /\ e.kind = "clear" /\ e.ref = r => At(r, m[r], e) = {}
  BY <1>1, AtFacts
<1>3. Applied(m, e) = [r \in Refs |-> At(r, m[r], e)]
  BY DEF Applied, At
<1> QED
  BY <1>1, <1>2, <1>3 DEF BadgeMaps, InMap

LEMMA LeadsFacts ==
  ASSUME NEW r, NEW b \in SUBSET BadgeSet, NEW q \in Seq(EventSet)
  PROVE  /\ \A f: LeadsAt(r, b, <<>>, f) => b = f
         /\ \A f \in SUBSET BadgeSet: \A e \in EventSet: LeadsAt(r, b, q, f) => LeadsAt(r, b, Append(q, e), At(r, f, e))
         /\ \A f: q # <<>> /\ LeadsAt(r, b, q, f) => LeadsAt(r, At(r, b, q[1]), Tail(q), f)
         /\ (\A i \in 1 .. Len(q): ~Touches(q[i], r)) => LeadsAt(r, b, q, b)
<1>1. \A f: LeadsAt(r, b, <<>>, f) => b = f
  BY PathFacts DEF LeadsAt
<1>2. ASSUME NEW f \in SUBSET BadgeSet, NEW e \in EventSet, LeadsAt(r, b, q, f)
      PROVE  LeadsAt(r, b, Append(q, e), At(r, f, e))
  <2>1. <<f, e, At(r, f, e)>> \in StepsAt(r) /\ At(r, f, e) \in SUBSET BadgeSet
    BY AtFacts DEF StepsAt
  <2> QED
    BY <1>2, <2>1, PathFacts DEF LeadsAt
<1>3. ASSUME NEW f, q # <<>>, LeadsAt(r, b, q, f) PROVE LeadsAt(r, At(r, b, q[1]), Tail(q), f)
  <2>1. PICK c \in SUBSET BadgeSet: <<b, q[1], c>> \in StepsAt(r) /\ Path(StepsAt(r), SUBSET BadgeSet, c, Tail(q), f)
    BY <1>3, PathFacts DEF LeadsAt
  <2>2. c = At(r, b, q[1])
    BY <2>1 DEF StepsAt
  <2> QED
    BY <2>1, <2>2 DEF LeadsAt
<1>4. ASSUME \A i \in 1 .. Len(q): ~Touches(q[i], r) PROVE LeadsAt(r, b, q, b)
  <2> DEFINE st == [i \in 0 .. Len(q) |-> b]
  <2>1. st \in [0 .. Len(q) -> SUBSET BadgeSet] /\ st[0] = b /\ st[Len(q)] = b
    <3>1. Len(q) \in Nat
      OBVIOUS
    <3> QED
      BY <3>1
  <2>2. ASSUME NEW i \in 1 .. Len(q) PROVE <<st[i - 1], q[i], st[i]>> \in StepsAt(r)
    <3>1. st[i - 1] = b /\ st[i] = b /\ q[i] \in EventSet
      OBVIOUS
    <3>2. At(r, b, q[i]) = b
      BY <1>4 DEF At
    <3> QED
      BY <3>1, <3>2 DEF StepsAt
  <2> QED
    BY <2>1, <2>2 DEF Path, LeadsAt
<1> QED
  BY <1>1, <1>2, <1>3, <1>4

LEMMA QueuedFacts ==
  ASSUME NEW q \in Seq(EventSet)
  PROVE  /\ Queued(<<>>) = {} /\ Distinct(<<>>)
         /\ \A e \in EventSet:
              /\ Queued(Append(q, e)) = Queued(q) \cup SetsOf(e)
              /\ Distinct(q) /\ SetsOf(e) \cap Queued(q) = {} => Distinct(Append(q, e))
         /\ q # <<>> =>
              /\ Queued(q) = Queued(Tail(q)) \cup SetsOf(q[1])
              /\ Distinct(q) => Distinct(Tail(q)) /\ SetsOf(q[1]) \cap Queued(Tail(q)) = {}
<1>1. Queued(<<>>) = {} /\ Distinct(<<>>)
  BY DEF Queued, Distinct
<1>2. ASSUME NEW e \in EventSet
      PROVE  /\ Queued(Append(q, e)) = Queued(q) \cup SetsOf(e)
             /\ Distinct(q) /\ SetsOf(e) \cap Queued(q) = {} => Distinct(Append(q, e))
  <2> DEFINE t == Append(q, e)
  <2>1. /\ Len(q) + 1 \in 1 .. Len(t) /\ t[Len(q) + 1] = e
        /\ \A i \in 1 .. Len(q): i \in 1 .. Len(t)
        /\ \A i \in 1 .. Len(q): t[i] = q[i]
        /\ \A i \in 1 .. Len(t): i \in 1 .. Len(q) \/ i = Len(q) + 1
    BY Appended
  <2> HIDE DEF t
  <2>2. Queued(t) = Queued(q) \cup SetsOf(e)
    BY <2>1 DEF Queued
  <2>3. ASSUME Distinct(q), SetsOf(e) \cap Queued(q) = {} PROVE Distinct(t)
    <3>1. \A i \in 1 .. Len(q): SetsOf(q[i]) \cap SetsOf(e) = {}
      BY <2>3 DEF Queued
    <3>2. ASSUME NEW i \in 1 .. Len(t), NEW j \in 1 .. Len(t), i # j PROVE SetsOf(t[i]) \cap SetsOf(t[j]) = {}
      <4>1. CASE i \in 1 .. Len(q) /\ j \in 1 .. Len(q)
        BY <2>1, <2>3, <3>2, <4>1 DEF Distinct
      <4>2. CASE i = Len(q) + 1
        BY <2>1, <3>1, <3>2, <4>2
      <4>3. CASE j = Len(q) + 1
        BY <2>1, <3>1, <3>2, <4>3
      <4> QED
        BY <2>1, <4>1, <4>2, <4>3
    <3> QED
      BY <3>2 DEF Distinct
  <2> QED
    BY <2>2, <2>3 DEF t
<1>3. ASSUME q # <<>>
      PROVE  /\ Queued(q) = Queued(Tail(q)) \cup SetsOf(q[1])
             /\ Distinct(q) => Distinct(Tail(q)) /\ SetsOf(q[1]) \cap Queued(Tail(q)) = {}
  <2> DEFINE t == Tail(q)
  <2>1. /\ Len(q) \in Nat \ {0} /\ Len(t) = Len(q) - 1
        /\ \A i \in 1 .. Len(t): i + 1 \in 1 .. Len(q) /\ t[i] = q[i + 1]
        /\ \A i \in 2 .. Len(q): i - 1 \in 1 .. Len(t) /\ t[i - 1] = q[i]
    BY <1>3, Shortened
  <2> HIDE DEF t
  <2>2. 1 \in 1 .. Len(q) /\ \A i \in 1 .. Len(q): i = 1 \/ i \in 2 .. Len(q)
    BY <2>1
  <2>3. \A i, j \in 1 .. Len(t): i + 1 # 1 /\ (i # j => i + 1 # j + 1)
    BY <2>1
  <2>4. Queued(q) = Queued(t) \cup SetsOf(q[1])
    <3>1. Queued(t) \subseteq Queued(q)
      BY <2>1 DEF Queued
    <3>2. Queued(q) \subseteq Queued(t) \cup SetsOf(q[1])
      BY <2>1, <2>2 DEF Queued
    <3>3. SetsOf(q[1]) \subseteq Queued(q)
      BY <2>2 DEF Queued
    <3> QED
      BY <3>1, <3>2, <3>3
  <2>5. ASSUME Distinct(q) PROVE Distinct(t) /\ SetsOf(q[1]) \cap Queued(t) = {}
    <3>1. Distinct(t)
      BY <2>1, <2>3, <2>5 DEF Distinct
    <3>2. \A i \in 1 .. Len(t): SetsOf(q[1]) \cap SetsOf(t[i]) = {}
      BY <2>1, <2>2, <2>3, <2>5 DEF Distinct
    <3> QED
      BY <3>1, <3>2 DEF Queued
  <2> QED
    BY <2>4, <2>5 DEF t
<1> QED
  BY <1>1, <1>2, <1>3

Remembered == UNION {committed[r][3]: r \in DOMAIN committed}
OnPage == InMap(badges) \cup Remembered
\* What is on its way to the page: the answer of GetAllBadges, or events.
ToCome ==
  IF loading = "answered" THEN InMap(toPage[1].all) ELSE IF loading = "done" THEN Queued(toPage) ELSE {}
Sent == UNION {SetsOf(x.event): x \in sending}
Seen == OnPage \cup ToCome \cup InMap(kept) \cup Queued(toStore) \cup Sent
Old == {x \in BadgeSet: x.id <= badgeIds}
ClearComes(r) ==
  \/ \E e \in published: e.kind = "clear" /\ e.ref = r
  \/ \E x \in sending: "page" \in x.to /\ x.event.kind = "clear" /\ x.event.ref = r
  \/ \E i \in 1 .. Len(toPage): toPage[i].kind = "clear" /\ toPage[i].ref = r

BadgesType ==
  /\ badges \in BadgeMaps /\ kept \in BadgeMaps /\ badgeIds \in Nat /\ attends.block \in BadgeBlocks
  /\ toStore \in Seq(EventSet) /\ published \subseteq EventSet
  /\ \A x \in sending: x.event \in EventSet /\ x.to \in {{"page"}, {"store"}, {"page", "store"}}
  /\ DOMAIN committed \subseteq Refs
\* No event that is on its way to the store changes r.
Untouched(r) ==
  /\ \A i \in 1 .. Len(toStore): ~Touches(toStore[i], r)
  /\ \A x \in sending: ~Touches(x.event, r)
\* While the page loads: it has no badges, then those of the answer.
PageLoads ==
  /\ loading \in {"asked", "answered", "subscribes", "done"}
  /\ loading # "done" => committed = <<>>
  /\ loading \in {"asked", "subscribes"} => toPage = <<>>
  /\ loading \in {"asked", "answered"} => badges = NoBadges
  /\ loading = "answered" =>
       /\ Len(toPage) = 1 /\ toPage # <<>> /\ Head(toPage) = toPage[1] /\ toPage[1].all \in BadgeMaps
       /\ \A r \in Refs \ parted: toPage[1].all[r] = kept[r] /\ Untouched(r)
  /\ loading = "subscribes" => \A r \in Refs \ parted: badges[r] = kept[r] /\ Untouched(r)
  /\ loading # "done" => \A x \in sending: x.to = {"store"}
  /\ loading = "done" => toPage \in Seq(EventSet)
\* What was sent to one of the two and not to the other; of what is not parted there is one.
Half(r) == {x \in sending: x.to # {"page", "store"} /\ Touches(x.event, r)}
Balanced(r, f, g) ==
  \/ Half(r) = {} /\ f = g
  \/ \E x \in sending: Half(r) = {x} /\ x.to = {"page"} /\ g = AppliedAt(f, x.event)
  \/ \E x \in sending: Half(r) = {x} /\ x.to = {"store"} /\ f = AppliedAt(g, x.event)
\* The page and the store come to the same badge, but for what is still sent to one of them.
Meets(r) ==
  \E f, g \in SUBSET BadgeSet:
    LeadsAt(r, badges[r], toPage, f) /\ LeadsAt(r, kept[r], toStore, g) /\ Balanced(r, f, g)
Together == loading = "done" => \A r \in Refs \ parted: Meets(r)
Unshown ==
  /\ Distinct(toPage) /\ Queued(toPage) \cap OnPage = {}
  /\ \A x \in sending: "page" \in x.to => SetsOf(x.event) \cap (OnPage \cup Queued(toPage)) = {}
\* A badge is set once: one that is in no queue yet has been nowhere, and one that is on its
\* way to the page was not there.
Fresh ==
  /\ Seen \subseteq Old
  /\ \A e \in published: SetsOf(e) \subseteq Old /\ SetsOf(e) \cap Seen = {}
  /\ \A e, f \in published: e # f => SetsOf(e) \cap SetsOf(f) = {}
  /\ \A x, y \in sending: x # y => SetsOf(x.event) \cap SetsOf(y.event) = {}
  /\ loading = "done" => Unshown
\* A badge that an effect saw in what is looked at is cleared by its timer, or being cleared.
Attending ==
  \A r \in DOMAIN committed:
    committed[r][1].focus /\ r \in {committed[r][1].block, TabRef}
    /\ (\E x \in badges[r] \cap committed[r][3]: ~x.linked) => r \in due \/ ClearComes(r)
BadgesInv == BadgesType /\ PageLoads /\ Together /\ Fresh /\ Attending

LEMMA BadgesInitInv == BadgesInit => BadgesInv
<1> SUFFICES ASSUME BadgesInit PROVE BadgesInv
  OBVIOUS
<1>1. NoBadges \in BadgeMaps /\ InMap(NoBadges) = {}
  BY DEF NoBadges, BadgeMaps, InMap
<1>2. BadgesType
  BY <1>1, BadgesAssumption DEF BadgesInit, BadgesType
<1>3. PageLoads
  BY DEF BadgesInit, PageLoads
<1>4. Together
  BY DEF BadgesInit, Together
<1>5. Fresh
  <2>1. Remembered = {} /\ Queued(<<>>) = {}
    BY DEF BadgesInit, Remembered, Queued
  <2> QED
    BY <1>1, <2>1 DEF BadgesInit, Fresh, Seen, OnPage, ToCome, Sent
<1>6. Attending
  BY DEF BadgesInit, Attending
<1> QED
  BY <1>2, <1>3, <1>4, <1>5, <1>6 DEF BadgesInv

\* Nothing new is seen, and what is published sets no badge or was published before.
LEMMA FreshStays ==
  ASSUME Fresh, badgeIds' = badgeIds, Seen' \subseteq Seen, sending' = sending,
         \A e \in published': e \in published \/ SetsOf(e) = {},
         loading' = "done" => Unshown'
  PROVE  Fresh'
<1>1. Old' = Old
  BY DEF Old
<1> QED
  BY <1>1 DEF Fresh

LEMMA SeenOfSame ==
  /\ UNCHANGED <<badges, committed>> => OnPage' = OnPage
  /\ UNCHANGED <<toPage, loading>> => ToCome' = ToCome
  /\ UNCHANGED sending => Sent' = Sent
  /\ UNCHANGED <<toPage, badges, committed, sending>> => (Unshown' <=> Unshown)
  /\ UNCHANGED <<published, sending, toPage>> => \A r: ClearComes(r)' <=> ClearComes(r)
<1>1. UNCHANGED <<badges, committed>> => OnPage' = OnPage
  BY DEF OnPage, Remembered
<1>2. UNCHANGED <<toPage, badges, committed, sending>> => (Unshown' <=> Unshown)
  BY <1>1 DEF Unshown
<1> QED
  BY <1>1, <1>2 DEF ToCome, Sent, ClearComes

\* What the page and the store come to depends on nothing else.
LEMMA MeetsOfSame ==
  UNCHANGED <<badges, kept, toPage, toStore, sending>> =>
    \A r: (Meets(r)' <=> Meets(r)) /\ (Untouched(r)' <=> Untouched(r))
<1> SUFFICES ASSUME UNCHANGED <<badges, kept, toPage, toStore, sending>>, NEW r
             PROVE  (Meets(r)' <=> Meets(r)) /\ (Untouched(r)' <=> Untouched(r))
  OBVIOUS
<1>1. \A f, g: Balanced(r, f, g)' <=> Balanced(r, f, g)
  BY DEF Balanced, Half
<1> QED
  BY <1>1 DEF Meets, Untouched

LEMMA PublishInv ==
  ASSUME BadgesInv, NEW e \in published, Publish(e)
  PROVE  BadgesInv'
<1> DEFINE to == IF loading = "done" THEN {"page", "store"} ELSE {"store"}
           x == [event |-> e, to |-> to]
<1>0. /\ published' = published \ {e} /\ sending' = sending \cup {x}
      /\ parted' = parted \cup {r \in Refs : loading \in {"answered", "subscribes"} /\ Touches(e, r)}
      /\ UNCHANGED <<badges, kept, toPage, toStore, loading, attends, committed, due, badgeIds>>
  BY DEF Publish
<1>1. e \in EventSet
  BY DEF BadgesInv, BadgesType
<1>2. /\ x.event = e /\ x.to \in {{"page"}, {"store"}, {"page", "store"}}
      /\ loading = "done" => x.to = {"page", "store"}
      /\ loading # "done" => x.to = {"store"}
  OBVIOUS
<1> HIDE DEF x
<1>3. BadgesType'
  BY <1>0, <1>1, <1>2 DEF BadgesInv, BadgesType
<1>4. PageLoads'
  <2>1. ASSUME NEW r \in Refs \ parted', Untouched(r), loading \in {"answered", "subscribes"} PROVE Untouched(r)'
    <3>1. ~Touches(e, r)
      BY <1>0, <2>1
    <3> QED
      BY <1>0, <1>2, <2>1, <3>1 DEF Untouched
  <2>2. \A y \in sending': y \in sending \/ y = x
    BY <1>0
  <2>3. loading' # "done" => \A y \in sending': y.to = {"store"}
    BY <1>0, <1>2, <2>2 DEF BadgesInv, PageLoads
  <2>4. Refs \ parted' \subseteq Refs \ parted
    BY <1>0
  <2> QED
    BY <1>0, <2>1, <2>3, <2>4 DEF BadgesInv, PageLoads
<1>5. Together'
  <2>1. ASSUME loading = "done", NEW r \in Refs \ parted PROVE Meets(r)'
    <3>1. Half(r)' = Half(r) /\ sending \subseteq sending'
      BY <1>0, <1>2, <2>1 DEF Half
    <3>2. \A f, g: Balanced(r, f, g) => Balanced(r, f, g)'
      BY <3>1 DEF Balanced
    <3>3. Meets(r)
      BY <2>1 DEF BadgesInv, Together
    <3> QED
      BY <1>0, <3>2, <3>3 DEF Meets
  <2> QED
    BY <1>0, <2>1 DEF Together
<1>6. Fresh'
  <2>1. OnPage' = OnPage /\ ToCome' = ToCome /\ Old' = Old /\ InMap(kept)' = InMap(kept) /\ Queued(toStore)' = Queued(toStore)
    BY <1>0, SeenOfSame DEF Old
  <2>2. Sent' = Sent \cup SetsOf(e)
    BY <1>0, <1>2 DEF Sent
  <2>3. Seen' = Seen \cup SetsOf(e)
    BY <2>1, <2>2 DEF Seen
  <2>4. Seen \subseteq Old /\ \A f \in published: SetsOf(f) \subseteq Old /\ SetsOf(f) \cap Seen = {}
    BY DEF BadgesInv, Fresh
  <2>5. \A f, g \in published: f # g => SetsOf(f) \cap SetsOf(g) = {}
    BY DEF BadgesInv, Fresh
  <2>6. Seen' \subseteq Old' /\ \A f \in published': SetsOf(f) \subseteq Old' /\ SetsOf(f) \cap Seen' = {}
    BY <1>0, <2>1, <2>3, <2>4, <2>5
  <2>7. \A f, g \in published': f # g => SetsOf(f) \cap SetsOf(g) = {}
    BY <1>0, <2>5
  <2>8. \A y \in sending: SetsOf(y.event) \subseteq Seen
    BY DEF Seen, Sent
  <2>9. \A y, z \in sending': y # z => SetsOf(y.event) \cap SetsOf(z.event) = {}
    <3>1. \A y \in sending: SetsOf(y.event) \cap SetsOf(x.event) = {}
      BY <1>2, <2>4, <2>8
    <3>2. \A y, z \in sending: y # z => SetsOf(y.event) \cap SetsOf(z.event) = {}
      BY DEF BadgesInv, Fresh
    <3> QED
      BY <1>0, <3>1, <3>2
  <2>10. loading = "done" => Unshown'
    <3>1. SUFFICES ASSUME loading = "done" PROVE Unshown'
      OBVIOUS
    <3>2. Unshown /\ OnPage \cup Queued(toPage) \subseteq Seen
      BY <3>1 DEF BadgesInv, Fresh, Seen, ToCome
    <3>3. SetsOf(x.event) \cap (OnPage \cup Queued(toPage)) = {}
      BY <1>2, <2>4, <3>2
    <3> QED
      BY <1>0, <2>1, <3>2, <3>3 DEF Unshown
  <2> QED
    BY <1>0, <2>6, <2>7, <2>9, <2>10 DEF Fresh
<1>7. Attending'
  <2>1. ASSUME NEW r \in DOMAIN committed, ClearComes(r) PROVE ClearComes(r)'
    <3>1. loading = "done"
      BY DEF BadgesInv, PageLoads
    <3>2. x \in sending' /\ "page" \in x.to
      BY <1>0, <1>2, <3>1
    <3> QED
      BY <1>0, <1>2, <2>1, <3>2 DEF ClearComes
  <2> QED
    BY <1>0, <2>1 DEF BadgesInv, Attending
<1> QED
  BY <1>3, <1>4, <1>5, <1>6, <1>7 DEF BadgesInv

LEMMA SendEventInv ==
  ASSUME BadgesInv, NEW x \in sending, NEW to \in {"page", "store"}, SendEvent(x, to)
  PROVE  BadgesInv'
<1> DEFINE e == x.event
           y == [event |-> x.event, to |-> x.to \ {to}]
<1>0. /\ to \in x.to
      /\ sending' = (sending \ {x}) \cup {[event |-> x.event, to |-> others] : others \in {x.to \ {to}} \ {{}}}
      /\ toPage' = IF to = "page" THEN Append(toPage, e) ELSE toPage
      /\ toStore' = IF to = "store" THEN Append(toStore, e) ELSE toStore
      /\ parted' = parted \cup
           {r \in Refs : loading = "done" /\ Touches(e, r)
                       /\ \E z \in sending \ {x} : z.to # {"page", "store"} /\ Touches(z.event, r)}
      /\ UNCHANGED <<badges, kept, published, loading, attends, committed, due, badgeIds>>
  BY DEF SendEvent
<1>1. /\ e \in EventSet /\ x.to \in {{"page"}, {"store"}, {"page", "store"}} /\ y.event = e /\ y.to = x.to \ {to}
      /\ toStore \in Seq(EventSet) /\ badges \in BadgeMaps /\ kept \in BadgeMaps
  BY DEF BadgesInv, BadgesType
<1>2. /\ x.to = {to} => sending' = sending \ {x}
      /\ x.to # {to} => /\ sending' = (sending \ {x}) \cup {y}
                        /\ x.to = {"page", "store"} /\ y.to = {"page", "store"} \ {to}
      /\ \A z \in sending': (z \in sending /\ z # x) \/ (z = y /\ x.to # {to})
  BY <1>0, <1>1
<1>3. loading # "done" => x.to = {"store"} /\ to = "store" /\ sending' = sending \ {x}
  <2>1. ASSUME loading # "done" PROVE x.to = {"store"}
    BY <2>1 DEF BadgesInv, PageLoads
  <2> QED
    BY <1>0, <1>2, <2>1
<1> HIDE DEF e, y
<1>4. /\ toStore' \in Seq(EventSet) /\ Queued(toStore)' \subseteq Queued(toStore) \cup SetsOf(e)
      /\ \A i \in 1 .. Len(toStore'): toStore'[i] = e \/ (i \in 1 .. Len(toStore) /\ toStore'[i] = toStore[i])
  <2>1. Append(toStore, e) \in Seq(EventSet) /\ Queued(Append(toStore, e)) = Queued(toStore) \cup SetsOf(e)
    BY <1>1, Appended, QueuedFacts
  <2>2. \A i \in 1 .. Len(Append(toStore, e)):
          Append(toStore, e)[i] = e \/ (i \in 1 .. Len(toStore) /\ Append(toStore, e)[i] = toStore[i])
    BY <1>1, Appended
  <2> QED
    BY <1>0, <1>1, <2>1, <2>2
<1>5. ASSUME loading = "done"
      PROVE  /\ toPage \in Seq(EventSet) /\ toPage' \in Seq(EventSet)
             /\ Queued(toPage)' = Queued(toPage) \cup (IF to = "page" THEN SetsOf(e) ELSE {})
             /\ Distinct(toPage)'
             /\ \A r: ClearComes(r) => ClearComes(r)'
  <2>1. toPage \in Seq(EventSet) /\ Unshown
    BY <1>5 DEF BadgesInv, PageLoads, Fresh
  <2>2. CASE to = "page"
    <3>1. toPage' = Append(toPage, e) /\ SetsOf(e) \cap Queued(toPage) = {}
      BY <1>0, <2>1, <2>2 DEF Unshown, e
    <3>2. /\ toPage' \in Seq(EventSet) /\ Queued(toPage') = Queued(toPage) \cup SetsOf(e) /\ Distinct(toPage')
      BY <1>1, <2>1, <3>1, Appended, QueuedFacts DEF Unshown
    <3>3. /\ Len(toPage) + 1 \in 1 .. Len(toPage') /\ toPage'[Len(toPage) + 1] = e
          /\ \A i \in 1 .. Len(toPage): i \in 1 .. Len(toPage')
          /\ \A i \in 1 .. Len(toPage): toPage'[i] = toPage[i]
      BY <1>1, <2>1, <3>1, Appended
    <3>4. \A z \in sending: z \in sending' \/ z = x
      BY <1>2
    <3>5. \A r: ClearComes(r) => ClearComes(r)'
      BY <1>0, <3>3, <3>4 DEF ClearComes, e
    <3> QED
      BY <2>1, <2>2, <3>2, <3>5
  <2>3. CASE to = "store"
    <3>1. toPage' = toPage
      BY <1>0, <2>3
    <3>2. ASSUME NEW z \in sending, "page" \in z.to PROVE \E w \in sending': "page" \in w.to /\ w.event = z.event
      <4>1. CASE z # x
        BY <1>2, <3>2, <4>1
      <4>2. CASE z = x
        <5>1. x.to # {to} /\ y \in sending' /\ "page" \in y.to
          BY <1>1, <1>2, <2>3, <3>2, <4>2
        <5> QED
          BY <1>1, <4>2, <5>1 DEF e
      <4> QED
        BY <4>1, <4>2
    <3>3. \A r: ClearComes(r) => ClearComes(r)'
      BY <1>0, <3>1, <3>2 DEF ClearComes
    <3> QED
      BY <2>1, <2>3, <3>1, <3>3 DEF Unshown
  <2> QED
    BY <2>2, <2>3
<1>6. BadgesType'
  <2>1. \A z \in sending': z.event \in EventSet /\ z.to \in {{"page"}, {"store"}, {"page", "store"}}
    <3>1. x.to # {to} => y.to \in {{"page"}, {"store"}, {"page", "store"}}
      BY <1>1, <1>2
    <3> QED
      BY <1>1, <1>2, <3>1 DEF BadgesInv, BadgesType
  <2> QED
    BY <1>0, <1>4, <2>1 DEF BadgesInv, BadgesType
<1>7. PageLoads'
  <2>1. CASE loading = "done"
    BY <1>0, <1>5, <2>1 DEF BadgesInv, PageLoads
  <2>2. CASE loading # "done"
    <3>1. ASSUME NEW r, Untouched(r) PROVE Untouched(r)'
      <4>1. ~Touches(e, r) /\ \A z \in sending': ~Touches(z.event, r)
        BY <1>3, <2>2, <3>1 DEF Untouched, e
      <4> QED
        BY <1>4, <3>1, <4>1 DEF Untouched
    <3>2. \A z \in sending': z.to = {"store"}
      BY <1>3, <2>2 DEF BadgesInv, PageLoads
    <3>3. Refs \ parted' \subseteq Refs \ parted /\ toPage' = toPage
      BY <1>0, <1>3, <2>2
    <3> QED
      BY <1>0, <2>2, <3>1, <3>2, <3>3 DEF BadgesInv, PageLoads
  <2> QED
    BY <2>1, <2>2
<1>8. Together'
  <2>1. SUFFICES ASSUME loading = "done", NEW r \in Refs \ parted' PROVE Meets(r)'
    BY <1>0 DEF Together
  <2>2. PICK f \in SUBSET BadgeSet, g \in SUBSET BadgeSet:
          LeadsAt(r, badges[r], toPage, f) /\ LeadsAt(r, kept[r], toStore, g) /\ Balanced(r, f, g)
    BY <1>0, <2>1 DEF BadgesInv, Together, Meets
  <2> DEFINE f1 == IF to = "page" THEN At(r, f, e) ELSE f
             g1 == IF to = "store" THEN At(r, g, e) ELSE g
  <2>3. /\ f1 \in SUBSET BadgeSet /\ g1 \in SUBSET BadgeSet
        /\ LeadsAt(r, badges[r], toPage', f1) /\ LeadsAt(r, kept[r], toStore', g1)
    <3>1. badges[r] \in SUBSET BadgeSet /\ kept[r] \in SUBSET BadgeSet
      BY <1>1 DEF BadgeMaps
    <3>2. At(r, f, e) \in SUBSET BadgeSet /\ At(r, g, e) \in SUBSET BadgeSet
      BY <1>1, AtFacts
    <3>3. LeadsAt(r, badges[r], Append(toPage, e), At(r, f, e)) /\ LeadsAt(r, kept[r], Append(toStore, e), At(r, g, e))
      BY <1>1, <1>5, <2>1, <2>2, <3>1, LeadsFacts
    <3> QED
      BY <1>0, <2>2, <3>2, <3>3
  <2>4. Balanced(r, f1, g1)'
    <3>1. CASE ~Touches(e, r)
      <4>1. f1 = f /\ g1 = g
        BY <3>1 DEF At
      <4>2. Half(r)' = Half(r) /\ \A z \in Half(r): z \in sending'
        BY <1>1, <1>2, <3>1 DEF Half, e
      <4>3. \A z: Half(r) = {z} => z \in Half(r)
        OBVIOUS
      <4> QED
        BY <2>2, <4>1, <4>2, <4>3 DEF Balanced
    <3>2. CASE Touches(e, r)
      <4>1. f1 = (IF to = "page" THEN AppliedAt(f, e) ELSE f) /\ g1 = (IF to = "store" THEN AppliedAt(g, e) ELSE g)
        BY <3>2 DEF At
      <4>2. Half(r) \subseteq {x}
        BY <1>0, <2>1, <3>2 DEF Half
      <4>3. CASE x.to # {to}
        <5>1. Half(r) = {} /\ f = g
          BY <1>2, <2>2, <4>2, <4>3 DEF Half, Balanced
        <5>2. Half(r)' = {y} /\ y \in sending'
          <6>1. y \in sending' /\ y.to # {"page", "store"} /\ Touches(y.event, r)
            BY <1>1, <1>2, <3>2, <4>3
          <6>2. \A z \in sending': z = y \/ (z \in sending /\ z # x)
            BY <1>2
          <6> QED
            BY <5>1, <6>1, <6>2 DEF Half
        <5>3. y.to = {"store"} \/ y.to = {"page"}
          BY <1>2, <4>3
        <5>4. to = "page" => y.to = {"store"} /\ f1 = AppliedAt(g1, y.event)
          BY <1>1, <1>2, <4>1, <4>3, <5>1
        <5>5. to = "store" => y.to = {"page"} /\ g1 = AppliedAt(f1, y.event)
          BY <1>1, <1>2, <4>1, <4>3, <5>1
        <5> HIDE DEF f1, g1
        <5> QED
          BY <5>2, <5>4, <5>5 DEF Balanced
      <4>4. CASE x.to = {to}
        <5>1. x \in Half(r)
          BY <3>2, <4>4 DEF Half, e
        <5>2. Half(r) = {x} /\ Half(r)' = {}
          BY <1>2, <4>2, <4>4, <5>1 DEF Half
        <5>3. (x.to = {"page"} /\ g = AppliedAt(f, e)) \/ (x.to = {"store"} /\ f = AppliedAt(g, e))
          BY <2>2, <5>2 DEF Balanced, e
        <5>4. f1 = g1
          BY <4>1, <4>4, <5>3
        <5> HIDE DEF f1, g1
        <5> QED
          BY <5>2, <5>4 DEF Balanced
      <4> QED
        BY <4>3, <4>4
    <3> QED
      BY <3>1, <3>2
  <2> HIDE DEF f1, g1
  <2> QED
    BY <1>0, <2>3, <2>4 DEF Meets
<1>9. Fresh'
  <2>1. OnPage' = OnPage /\ Old' = Old /\ InMap(kept)' = InMap(kept)
    BY <1>0 DEF OnPage, Remembered, Old
  <2>2. SetsOf(e) \subseteq Sent /\ Sent' \subseteq Sent
    <3>1. \A z \in sending': \E w \in sending: z.event = w.event
      BY <1>1, <1>2 DEF e
    <3> QED
      BY <3>1 DEF Sent, e
  <2>3. ToCome' \subseteq ToCome \cup SetsOf(e)
    <3>1. CASE loading = "done"
      BY <1>0, <1>5, <3>1 DEF ToCome
    <3>2. CASE loading # "done"
      <4>1. UNCHANGED <<toPage, loading>>
        BY <1>0, <1>3, <3>2
      <4> QED
        BY <4>1, SeenOfSame
    <3> QED
      BY <3>1, <3>2
  <2>4. Seen' \subseteq Seen
    BY <1>4, <2>1, <2>2, <2>3 DEF Seen
  <2>5. \A z, w \in sending': z # w => SetsOf(z.event) \cap SetsOf(w.event) = {}
    <3>1. \A z, w \in sending: z # w => SetsOf(z.event) \cap SetsOf(w.event) = {}
      BY DEF BadgesInv, Fresh
    <3>2. \A z \in sending: z # x => SetsOf(z.event) \cap SetsOf(y.event) = {}
      BY <1>1, <3>1 DEF e
    <3> QED
      BY <1>2, <3>1, <3>2
  <2>6. loading = "done" => Unshown'
    <3>1. SUFFICES ASSUME loading = "done" PROVE Unshown'
      OBVIOUS
    <3>2. Unshown /\ \A z \in sending: z # x => SetsOf(z.event) \cap SetsOf(e) = {}
      BY <3>1 DEF BadgesInv, Fresh, e
    <3>3. "page" \in x.to => SetsOf(e) \cap (OnPage \cup Queued(toPage)) = {}
      BY <3>2 DEF Unshown, e
    <3>4. Queued(toPage)' \cap OnPage' = {}
      BY <1>0, <1>5, <2>1, <3>1, <3>2, <3>3 DEF Unshown
    <3>5. ASSUME NEW z \in sending', "page" \in z.to PROVE SetsOf(z.event) \cap (OnPage' \cup Queued(toPage)') = {}
      <4>1. CASE z \in sending /\ z # x
        BY <1>5, <2>1, <3>1, <3>2, <3>5, <4>1 DEF Unshown
      <4>2. CASE z = y /\ x.to # {to}
        <5>1. to = "store" /\ "page" \in x.to
          BY <1>1, <1>2, <3>5, <4>2
        <5>2. Queued(toPage)' = Queued(toPage)
          BY <1>5, <3>1, <5>1
        <5> QED
          BY <1>1, <2>1, <3>3, <4>2, <5>1, <5>2
      <4> QED
        BY <1>2, <4>1, <4>2
    <3> QED
      BY <1>5, <3>1, <3>4, <3>5 DEF Unshown
  <2>7. /\ Seen \subseteq Old /\ \A f \in published: SetsOf(f) \subseteq Old /\ SetsOf(f) \cap Seen = {}
        /\ \A f, g \in published: f # g => SetsOf(f) \cap SetsOf(g) = {}
    BY DEF BadgesInv, Fresh
  <2> QED
    BY <1>0, <2>1, <2>4, <2>5, <2>6, <2>7 DEF Fresh
<1>10. Attending'
  <2>1. ASSUME NEW r \in DOMAIN committed, ClearComes(r) PROVE ClearComes(r)'
    <3>1. loading = "done"
      BY DEF BadgesInv, PageLoads
    <3> QED
      BY <1>5, <2>1, <3>1
  <2> QED
    BY <1>0, <2>1 DEF BadgesInv, Attending
<1> QED
  BY <1>6, <1>7, <1>8, <1>9, <1>10 DEF BadgesInv

LEMMA StoreTakesInv == BadgesInv /\ StoreTakes => BadgesInv'
<1> SUFFICES ASSUME BadgesInv, StoreTakes PROVE BadgesInv'
  OBVIOUS
<1>0. /\ toStore # <<>> /\ kept' = Applied(kept, Head(toStore)) /\ toStore' = Tail(toStore)
      /\ UNCHANGED <<badges, toPage, published, sending, loading, attends, committed, due, parted, badgeIds>>
  BY DEF StoreTakes
<1>1. toStore \in Seq(EventSet) /\ kept \in BadgeMaps
  BY DEF BadgesInv, BadgesType
<1>2. Head(toStore) \in EventSet /\ Head(toStore) = toStore[1] /\ Tail(toStore) \in Seq(EventSet)
  BY <1>0, <1>1, Shortened
<1>3. /\ kept' \in BadgeMaps /\ InMap(kept') \subseteq InMap(kept) \cup SetsOf(toStore[1])
      /\ \A r \in Refs: kept'[r] = At(r, kept[r], toStore[1])
  BY <1>0, <1>1, <1>2, AppliedFacts
<1>4. Queued(toStore) = Queued(toStore') \cup SetsOf(toStore[1])
  BY <1>0, <1>1, QueuedFacts
<1>5. BadgesType'
  BY <1>0, <1>2, <1>3 DEF BadgesInv, BadgesType
<1>6. PageLoads'
  <2>1. ASSUME NEW r \in Refs, Untouched(r) PROVE Untouched(r)' /\ kept'[r] = kept[r]
    <3>1. /\ 1 \in 1 .. Len(toStore)
          /\ \A i \in 1 .. Len(toStore'): i + 1 \in 1 .. Len(toStore) /\ toStore'[i] = toStore[i + 1]
      BY <1>0, <1>1, Shortened
    <3>2. ~Touches(toStore[1], r)
      BY <2>1, <3>1 DEF Untouched
    <3>3. kept'[r] = kept[r]
      BY <1>3, <3>2 DEF At
    <3> QED
      BY <1>0, <2>1, <3>1, <3>3 DEF Untouched
  <2> QED
    BY <1>0, <2>1 DEF BadgesInv, PageLoads
<1>7. Together'
  <2>1. ASSUME loading = "done", NEW r \in Refs \ parted PROVE Meets(r)'
    <3>1. PICK f \in SUBSET BadgeSet, g \in SUBSET BadgeSet:
            LeadsAt(r, badges[r], toPage, f) /\ LeadsAt(r, kept[r], toStore, g) /\ Balanced(r, f, g)
      BY <2>1 DEF BadgesInv, Together, Meets
    <3>2. kept[r] \in SUBSET BadgeSet
      BY <1>1 DEF BadgeMaps
    <3>3. LeadsAt(r, At(r, kept[r], toStore[1]), Tail(toStore), g)
      BY <1>0, <1>1, <3>1, <3>2, LeadsFacts
    <3>4. LeadsAt(r, kept'[r], toStore', g) /\ Balanced(r, f, g)'
      BY <1>0, <1>3, <3>1, <3>3 DEF Balanced, Half
    <3> QED
      BY <1>0, <3>1, <3>4 DEF Meets
  <2> QED
    BY <1>0, <2>1 DEF Together
<1>8. Fresh'
  <2>1. OnPage' = OnPage /\ ToCome' = ToCome /\ Sent' = Sent /\ (Unshown' <=> Unshown)
    BY <1>0, SeenOfSame
  <2>2. Seen' \subseteq Seen
    BY <1>3, <1>4, <2>1 DEF Seen
  <2>3. loading' = "done" => Unshown'
    BY <1>0, <2>1 DEF BadgesInv, Fresh
  <2> QED
    BY <1>0, <2>2, <2>3, FreshStays DEF BadgesInv
<1>9. Attending'
  <2>1. \A r: ClearComes(r)' <=> ClearComes(r)
    BY <1>0, SeenOfSame
  <2> QED
    BY <1>0, <2>1 DEF BadgesInv, Attending
<1> QED
  BY <1>5, <1>6, <1>7, <1>8, <1>9 DEF BadgesInv

LEMMA EventArrivesInv == BadgesInv /\ EventArrives => BadgesInv'
<1> SUFFICES ASSUME BadgesInv, EventArrives PROVE BadgesInv'
  OBVIOUS
<1> DEFINE e == toPage[1]
<1>0. /\ loading = "done" /\ toPage # <<>> /\ badges' = Applied(badges, Head(toPage)) /\ toPage' = Tail(toPage)
      /\ UNCHANGED <<kept, toStore, published, sending, loading, attends, committed, due, parted, badgeIds>>
  BY DEF EventArrives
<1>1. toPage \in Seq(EventSet) /\ badges \in BadgeMaps /\ DOMAIN committed \subseteq Refs
  BY <1>0 DEF BadgesInv, BadgesType, PageLoads
<1>2. Head(toPage) = e /\ e \in EventSet /\ Tail(toPage) \in Seq(EventSet)
  BY <1>0, <1>1, Shortened
<1> HIDE DEF e
<1>3. /\ badges' \in BadgeMaps /\ InMap(badges') \subseteq InMap(badges) \cup SetsOf(e)
      /\ \A r \in Refs: badges'[r] = At(r, badges[r], e) /\ badges'[r] \subseteq badges[r] \cup SetsOf(e)
      /\ e.kind = "clear" => badges'[e.ref] = {}
  BY <1>0, <1>1, <1>2, AppliedFacts
<1>4. /\ Queued(toPage) = Queued(toPage') \cup SetsOf(e)
      /\ Distinct(toPage') /\ SetsOf(e) \cap Queued(toPage') = {}
  <2>1. Distinct(toPage)
    BY <1>0 DEF BadgesInv, Fresh, Unshown
  <2> QED
    BY <1>0, <1>1, <2>1, QueuedFacts DEF e
<1>5. BadgesType'
  BY <1>0, <1>3 DEF BadgesInv, BadgesType
<1>6. PageLoads'
  BY <1>0, <1>2 DEF BadgesInv, PageLoads
<1>7. Together'
  <2>1. ASSUME NEW r \in Refs \ parted PROVE Meets(r)'
    <3>1. PICK f \in SUBSET BadgeSet, g \in SUBSET BadgeSet:
            LeadsAt(r, badges[r], toPage, f) /\ LeadsAt(r, kept[r], toStore, g) /\ Balanced(r, f, g)
      BY <1>0, <2>1 DEF BadgesInv, Together, Meets
    <3>2. badges[r] \in SUBSET BadgeSet
      BY <1>1 DEF BadgeMaps
    <3>3. LeadsAt(r, At(r, badges[r], toPage[1]), Tail(toPage), f)
      BY <1>0, <1>1, <3>1, <3>2, LeadsFacts
    <3>4. LeadsAt(r, badges'[r], toPage', f) /\ Balanced(r, f, g)'
      BY <1>0, <1>3, <3>1, <3>3 DEF Balanced, Half, e
    <3> QED
      BY <1>0, <3>1, <3>4 DEF Meets
  <2> QED
    BY <1>0, <2>1 DEF Together
<1>8. Fresh'
  <2>1. OnPage' \subseteq OnPage \cup SetsOf(e) /\ ToCome = Queued(toPage) /\ ToCome' = Queued(toPage') /\ Sent' = Sent
    BY <1>0, <1>3 DEF OnPage, Remembered, ToCome, Sent
  <2>2. Seen' \subseteq Seen
    BY <1>0, <1>4, <2>1 DEF Seen
  <2>3. Unshown
    BY <1>0 DEF BadgesInv, Fresh
  <2>4. Unshown'
    BY <1>0, <1>4, <2>1, <2>3 DEF Unshown
  <2> QED
    BY <1>0, <2>2, <2>4, FreshStays DEF BadgesInv
<1>9. Attending'
  <2>1. ASSUME NEW r \in DOMAIN committed, NEW x \in badges'[r] \cap committed[r][3]
        PROVE  x \in badges[r] \cap committed[r][3]
    <3>1. x \notin SetsOf(e)
      <4>1. committed[r][3] \subseteq OnPage
        BY DEF OnPage, Remembered
      <4> QED
        BY <1>0, <1>4, <2>1, <4>1 DEF BadgesInv, Fresh, Unshown
    <3> QED
      BY <1>1, <1>3, <2>1, <3>1
  <2>2. ASSUME NEW r \in DOMAIN committed, ClearComes(r), badges'[r] # {} PROVE ClearComes(r)'
    <3>1. \A i \in 1 .. Len(toPage): i = 1 \/ (i - 1 \in 1 .. Len(toPage') /\ toPage'[i - 1] = toPage[i])
      <4>1. /\ Len(toPage) \in Nat /\ \A i \in 2 .. Len(toPage): i - 1 \in 1 .. Len(Tail(toPage)) /\ Tail(toPage)[i - 1] = toPage[i]
        BY <1>0, <1>1, Shortened
      <4>2. \A i \in 1 .. Len(toPage): i = 1 \/ i \in 2 .. Len(toPage)
        BY <4>1
      <4> QED
        BY <1>0, <4>1, <4>2
    <3>2. ~(e.kind = "clear" /\ e.ref = r)
      BY <1>3, <2>2
    <3> QED
      BY <1>0, <2>2, <3>1, <3>2 DEF ClearComes, e
  <2>3. ASSUME NEW r \in DOMAIN committed, committed[r][1].focus, r \in {committed[r][1].block, TabRef},
               NEW x \in badges'[r] \cap committed[r][3], ~x.linked
        PROVE  r \in due \/ ClearComes(r)'
    BY <2>1, <2>2, <2>3 DEF BadgesInv, Attending
  <2> QED
    BY <1>0, <2>3 DEF Attending
<1> QED
  BY <1>5, <1>6, <1>7, <1>8, <1>9 DEF BadgesInv

LEMMA GetAllBadgesInv == BadgesInv /\ GetAllBadges => BadgesInv'
<1> SUFFICES ASSUME BadgesInv, GetAllBadges PROVE BadgesInv'
  OBVIOUS
<1> DEFINE e == Event("loaded", TabRef, {}, kept)
<1>0. /\ loading = "asked" /\ loading' = "answered" /\ toPage' = Append(toPage, e)
      /\ parted' = {r \in Refs : \E ev \in ToSet(toStore) \cup {x.event : x \in sending} : Touches(ev, r)}
      /\ UNCHANGED <<badges, kept, toStore, published, sending, attends, committed, due, badgeIds>>
  BY DEF GetAllBadges
<1>1. toPage = <<>> /\ kept \in BadgeMaps /\ badges = NoBadges /\ committed = <<>>
  BY <1>0 DEF BadgesInv, BadgesType, PageLoads
<1>2. e.all = kept
  BY DEF Event
<1> HIDE DEF e
<1>3. toPage' = <<e>>
  BY <1>0, <1>1
<1>4. Len(toPage') = 1 /\ toPage' # <<>> /\ Head(toPage') = toPage'[1] /\ toPage'[1] = e
  BY <1>3
<1>5. BadgesType'
  BY <1>0 DEF BadgesInv, BadgesType
<1>6. PageLoads'
  <2>1. ASSUME NEW r \in Refs \ parted' PROVE Untouched(r)'
    <3>1. \A i \in 1 .. Len(toStore): toStore[i] \in ToSet(toStore)
      BY DEF ToSet
    <3> QED
      BY <1>0, <2>1, <3>1 DEF Untouched
  <2>2. loading # "done"
    BY <1>0
  <2> QED
    BY <1>0, <1>1, <1>2, <1>4, <2>1, <2>2 DEF BadgesInv, PageLoads
<1>7. Together'
  BY <1>0 DEF Together
<1>8. Fresh'
  <2>1. OnPage' = OnPage /\ ToCome' = InMap(kept) /\ Sent' = Sent
    BY <1>0, <1>2, <1>4, SeenOfSame DEF ToCome
  <2>2. Seen' \subseteq Seen
    BY <1>0, <2>1 DEF Seen
  <2> QED
    BY <1>0, <2>2, FreshStays DEF BadgesInv
<1>9. Attending'
  BY <1>0, <1>1 DEF Attending
<1> QED
  BY <1>5, <1>6, <1>7, <1>8, <1>9 DEF BadgesInv

LEMMA LoadBadgesInv == BadgesInv /\ loadBadges => BadgesInv'
<1> SUFFICES ASSUME BadgesInv, loadBadges PROVE BadgesInv'
  OBVIOUS
<1>0. /\ loading = "answered" /\ loading' = "subscribes" /\ badges' = TakenOver(badges, Head(toPage).all) /\ toPage' = <<>>
      /\ UNCHANGED <<kept, toStore, published, sending, attends, committed, due, parted, badgeIds>>
  BY DEF loadBadges
<1>1. /\ badges = NoBadges /\ committed = <<>> /\ Head(toPage) = toPage[1] /\ toPage[1].all \in BadgeMaps
      /\ \A r \in Refs \ parted: toPage[1].all[r] = kept[r] /\ Untouched(r)
  BY <1>0 DEF BadgesInv, PageLoads
<1>2. badges' = toPage[1].all
  <2>1. \A all \in BadgeMaps: TakenOver(NoBadges, all) = all
    BY DEF BadgeMaps, TakenOver, NoBadges
  <2> QED
    BY <1>0, <1>1, <2>1
<1>3. BadgesType'
  BY <1>0, <1>1, <1>2 DEF BadgesInv, BadgesType
<1>4. PageLoads'
  <2>1. \A r: Untouched(r)' <=> Untouched(r)
    BY <1>0 DEF Untouched
  <2> QED
    BY <1>0, <1>1, <1>2, <2>1 DEF BadgesInv, PageLoads
<1>5. Together'
  BY <1>0 DEF Together
<1>6. Fresh'
  <2>1. Remembered' = {} /\ ToCome = InMap(badges') /\ ToCome' = {} /\ Sent' = Sent
    BY <1>0, <1>1, <1>2 DEF Remembered, ToCome, Sent
  <2>2. Seen' \subseteq Seen
    BY <1>0, <2>1 DEF Seen, OnPage
  <2> QED
    BY <1>0, <2>2, FreshStays DEF BadgesInv
<1>7. Attending'
  BY <1>0, <1>1 DEF Attending
<1> QED
  BY <1>3, <1>4, <1>5, <1>6, <1>7 DEF BadgesInv

LEMMA SubscribesInv == BadgesInv /\ setupBadgesSubscription => BadgesInv'
<1> SUFFICES ASSUME BadgesInv, setupBadgesSubscription PROVE BadgesInv'
  OBVIOUS
<1>0. /\ loading = "subscribes" /\ loading' = "done"
      /\ UNCHANGED <<badges, kept, toPage, toStore, published, sending, attends, committed, due, parted, badgeIds>>
  BY DEF setupBadgesSubscription
<1>1. /\ toPage = <<>> /\ committed = <<>> /\ badges \in BadgeMaps /\ kept \in BadgeMaps /\ toStore \in Seq(EventSet)
      /\ \A r \in Refs \ parted: badges[r] = kept[r] /\ Untouched(r)
      /\ \A x \in sending: x.to = {"store"}
  BY <1>0 DEF BadgesInv, PageLoads, BadgesType
<1>2. BadgesType'
  BY <1>0 DEF BadgesInv, BadgesType
<1>3. PageLoads'
  <2>1. <<>> \in Seq(EventSet)
    OBVIOUS
  <2> QED
    BY <1>0, <1>1, <2>1 DEF PageLoads
<1>4. Together'
  <2>1. SUFFICES ASSUME NEW r \in Refs \ parted PROVE Meets(r)'
    BY <1>0 DEF Together
  <2> DEFINE f == badges[r]
  <2>2. f \in SUBSET BadgeSet /\ f = kept[r] /\ Untouched(r)
    BY <1>1, <2>1 DEF BadgeMaps
  <2>3. LeadsAt(r, f, toPage, f) /\ LeadsAt(r, f, toStore, f)
    <3>1. <<>> \in Seq(EventSet) /\ \A i \in 1 .. Len(<<>>): ~Touches(<<>>[i], r)
      OBVIOUS
    <3>2. LeadsAt(r, f, <<>>, f)
      BY <2>2, <3>1, LeadsFacts
    <3>3. LeadsAt(r, f, toStore, f)
      BY <1>1, <2>2, LeadsFacts DEF Untouched
    <3> QED
      BY <1>1, <3>2, <3>3
  <2>4. Balanced(r, f, f)'
    <3>1. Half(r)' = {}
      BY <1>0, <2>2 DEF Half, Untouched
    <3> QED
      BY <1>0, <3>1 DEF Balanced
  <2> QED
    BY <1>0, <2>2, <2>3, <2>4 DEF Meets
<1>5. Fresh'
  <2>1. OnPage' = OnPage /\ Queued(<<>>) = {} /\ Distinct(<<>>) /\ Sent' = Sent
    <3>1. <<>> \in Seq(EventSet)
      OBVIOUS
    <3> QED
      BY <1>0, <3>1, SeenOfSame, QueuedFacts
  <2>2. ToCome' = {}
    BY <1>0, <1>1, <2>1 DEF ToCome
  <2>3. Seen' \subseteq Seen
    BY <1>0, <2>1, <2>2 DEF Seen
  <2>4. Queued(toPage)' = {} /\ Distinct(toPage)' /\ \A x \in sending': "page" \notin x.to
    <3>1. toPage' = <<>> /\ sending' = sending /\ "page" \notin {"store"}
      BY <1>0, <1>1
    <3> QED
      BY <1>1, <2>1, <3>1
  <2>5. Unshown'
    BY <2>4 DEF Unshown
  <2> QED
    BY <1>0, <2>3, <2>5, FreshStays DEF BadgesInv
<1>6. Attending'
  BY <1>0, <1>1 DEF Attending
<1> QED
  BY <1>2, <1>3, <1>4, <1>5, <1>6 DEF BadgesInv

\* An event is published that sets no badge, or one that has never been.
LEMMA PublishesInv ==
  ASSUME BadgesInv, NEW e \in EventSet, published' = published \cup {e},
         badgeIds' \in Nat, badgeIds' >= badgeIds,
         \A x \in SetsOf(e): x.id > badgeIds /\ x.id <= badgeIds',
         UNCHANGED <<badges, kept, toPage, toStore, sending, loading, attends, committed, due, parted>>
  PROVE  BadgesInv'
<1>1. BadgesType'
  BY DEF BadgesInv, BadgesType
<1>2. PageLoads' /\ Together'
  BY MeetsOfSame DEF BadgesInv, PageLoads, Together
<1>3. Fresh'
  <2>1. Seen' = Seen
    <3>1. OnPage' = OnPage /\ ToCome' = ToCome /\ Sent' = Sent
      BY SeenOfSame
    <3> QED
      BY <3>1 DEF Seen
  <2>2. Old \subseteq Old' /\ SetsOf(e) \subseteq Old' /\ SetsOf(e) \cap Old = {}
    <3>1. SetsOf(e) \subseteq BadgeSet /\ badgeIds \in Nat
      BY DEF SetsOf, EventSet, BadgesInv, BadgesType
    <3>2. \A x \in BadgeSet: x.id \in Nat
      BY DEF BadgeSet
    <3> QED
      BY <3>1, <3>2 DEF Old
  <2>3. Seen \subseteq Old /\ \A f \in published: SetsOf(f) \subseteq Old /\ SetsOf(f) \cap Seen = {}
    BY DEF BadgesInv, Fresh
  <2>4. \A f \in published': SetsOf(f) \subseteq Old' /\ SetsOf(f) \cap Seen = {}
    BY <2>2, <2>3
  <2>5. \A f, g \in published': f # g => SetsOf(f) \cap SetsOf(g) = {}
    <3>1. \A f, g \in published: f # g => SetsOf(f) \cap SetsOf(g) = {}
      BY DEF BadgesInv, Fresh
    <3>2. \A f \in published: SetsOf(f) \cap SetsOf(e) = {}
      BY <2>2, <2>3
    <3> QED
      BY <3>1, <3>2
  <2>6. \A x, y \in sending': x # y => SetsOf(x.event) \cap SetsOf(y.event) = {}
    BY DEF BadgesInv, Fresh
  <2>7. loading' = "done" => Unshown'
    BY SeenOfSame DEF BadgesInv, Fresh
  <2> QED
    BY <2>1, <2>2, <2>3, <2>4, <2>5, <2>6, <2>7 DEF Fresh
<1>4. Attending'
  <2>1. \A r: ClearComes(r) => ClearComes(r)'
    BY DEF ClearComes
  <2> QED
    BY <2>1 DEF BadgesInv, Attending
<1> QED
  BY <1>1, <1>2, <1>3, <1>4 DEF BadgesInv

LEMMA SetBadgeInv ==
  ASSUME BadgesInv, NEW r \in Refs, NEW p \in 1 .. 2, NEW l \in BOOLEAN, setBadge(r, p, l)
  PROVE  BadgesInv'
<1> DEFINE x == [id |-> badgeIds + 1, priority |-> p, linked |-> l]
           e == Event("set", r, {x}, NoBadges)
<1>0. /\ badgeIds' = badgeIds + 1 /\ published' = published \cup {e}
      /\ UNCHANGED <<badges, kept, toPage, toStore, sending, loading, attends, committed, due, parted>>
  BY DEF setBadge, publishBadgeEvent
<1>1. badgeIds \in Nat
  BY DEF BadgesInv, BadgesType
<1>2. x \in BadgeSet /\ x.id = badgeIds + 1
  BY <1>1 DEF BadgeSet
<1> HIDE DEF x
<1>3. e \in EventSet /\ SetsOf(e) = {x}
  <2>1. "set" \in EventKinds
    BY DEF EventKinds
  <2> QED
    BY <1>2, <2>1 DEF Event, EventSet, SetsOf
<1> HIDE DEF e
<1>4. \A y \in SetsOf(e): y.id > badgeIds /\ y.id <= badgeIds'
  BY <1>0, <1>1, <1>2, <1>3
<1> QED
  BY <1>0, <1>1, <1>3, <1>4, PublishesInv

LEMMA ClearsBadgesInv ==
  ASSUME BadgesInv, NEW e \in EventSet, e.kind # "set", ClearsBadges(e)
  PROVE  BadgesInv'
<1>1. published' = published \cup {e}
      /\ UNCHANGED <<badges, kept, toPage, toStore, sending, loading, attends, committed, due, parted, badgeIds>>
  BY DEF ClearsBadges, publishBadgeEvent
<1>2. badgeIds \in Nat
  BY DEF BadgesInv, BadgesType
<1>3. SetsOf(e) = {}
  BY DEF SetsOf
<1> QED
  BY <1>1, <1>2, <1>3, PublishesInv

LEMMA ClearEvents ==
  ASSUME NEW r \in Refs
  PROVE  /\ Event("clear", r, {}, NoBadges) \in EventSet /\ Event("clearall", r, {}, NoBadges) \in EventSet
         /\ \A i \in Nat:
              Event("clearbyid", r, {[id |-> i, priority |-> 0, linked |-> FALSE]}, NoBadges) \in EventSet
<1>1. "clear" \in EventKinds /\ "clearall" \in EventKinds /\ "clearbyid" \in EventKinds
  BY DEF EventKinds
<1>2. \A i \in Nat: [id |-> i, priority |-> 0, linked |-> FALSE] \in BadgeSet
  BY DEF BadgeSet
<1> QED
  BY <1>1, <1>2 DEF Event, EventSet

LEMMA FocusChangesInv ==
  ASSUME BadgesInv, NEW blk \in BadgeBlocks, NEW f \in BOOLEAN, FocusChanges(blk, f)
  PROVE  BadgesInv'
<1>0. /\ attends' = [block |-> blk, focus |-> f]
      /\ UNCHANGED <<badges, kept, toPage, toStore, published, sending, loading, committed, due, parted, badgeIds>>
  BY DEF FocusChanges
<1>1. BadgesType'
  BY <1>0 DEF BadgesInv, BadgesType
<1>2. PageLoads' /\ Together'
  BY <1>0, MeetsOfSame DEF BadgesInv, PageLoads, Together
<1>3. /\ OnPage' = OnPage /\ ToCome' = ToCome /\ Sent' = Sent /\ (Unshown' <=> Unshown)
      /\ \A r: ClearComes(r)' <=> ClearComes(r)
  BY <1>0, SeenOfSame
<1>4. Fresh'
  <2>1. Seen' = Seen
    BY <1>0, <1>3 DEF Seen
  <2>2. loading' = "done" => Unshown'
    BY <1>0, <1>3 DEF BadgesInv, Fresh
  <2> QED
    BY <1>0, <2>1, <2>2, FreshStays DEF BadgesInv
<1>5. Attending'
  BY <1>0, <1>3 DEF BadgesInv, Attending
<1> QED
  BY <1>1, <1>2, <1>4, <1>5 DEF BadgesInv

LEMMA CommitsInv == BadgesInv /\ Commits => BadgesInv'
<1> SUFFICES ASSUME BadgesInv, Commits PROVE BadgesInv'
  OBVIOUS
<1> DEFINE run == {r \in Attended : r \notin DOMAIN committed \/ committed[r] # Effects[r]}
<1>0. /\ loading = "done" /\ committed' = Effects
      /\ due' = (due \cap (Attended \ run)) \cup {r \in run : attends.focus /\ badges[r] # {}}
      /\ UNCHANGED <<badges, kept, toPage, toStore, published, sending, loading, attends, parted, badgeIds>>
  BY DEF Commits
<1>1. /\ DOMAIN Effects = Attended /\ Attended \subseteq Refs
      /\ \A r \in Attended: Effects[r] = <<attends, r, badges[r]>>
  BY DEF Effects, DependsOn, Attended, Refs, BadgesInv, BadgesType
<1>2. \A r \in Attended: Effects[r][1] = attends /\ Effects[r][3] = badges[r]
  BY <1>1
<1>3. BadgesType'
  BY <1>0, <1>1 DEF BadgesInv, BadgesType
<1>4. PageLoads' /\ Together'
  BY <1>0, MeetsOfSame DEF BadgesInv, PageLoads, Together
<1>5. Fresh'
  <2>1. OnPage' \subseteq OnPage
    <3>1. Remembered' = UNION {Effects[r][3]: r \in Attended}
      BY <1>0, <1>1 DEF Remembered
    <3>2. Remembered' \subseteq InMap(badges)
      BY <1>1, <1>2, <3>1 DEF InMap
    <3> QED
      BY <1>0, <3>2 DEF OnPage
  <2>2. ToCome' = ToCome /\ Sent' = Sent
    BY <1>0, SeenOfSame
  <2>3. Seen' \subseteq Seen
    BY <1>0, <2>1, <2>2 DEF Seen
  <2>4. loading' = "done" => Unshown'
    BY <1>0, <2>1 DEF BadgesInv, Fresh, Unshown
  <2> QED
    BY <1>0, <2>3, <2>4, FreshStays DEF BadgesInv
<1>6. Attending'
  <2>1. \A r: ClearComes(r)' <=> ClearComes(r)
    BY <1>0, SeenOfSame
  <2>2. ASSUME NEW r \in Attended, attends.focus, NEW x \in badges[r], ~x.linked PROVE r \in due' \/ ClearComes(r)
    <3>1. CASE r \in run
      BY <1>0, <2>2, <3>1
    <3>2. CASE r \notin run
      <4>1. r \in DOMAIN committed /\ committed[r][1] = attends /\ committed[r][3] = badges[r]
        BY <1>2, <2>2, <3>2
      <4>2. r \in {attends.block, TabRef}
        BY <2>2 DEF Attended
      <4>3. r \in due \/ ClearComes(r)
        BY <2>2, <4>1, <4>2 DEF BadgesInv, Attending
      <4> QED
        BY <1>0, <2>2, <3>2, <4>3
    <3> QED
      BY <3>1, <3>2
  <2>3. \A r \in DOMAIN committed': r \in Attended /\ committed'[r][1] = attends /\ committed'[r][3] = badges[r]
    BY <1>0, <1>1, <1>2
  <2> QED
    BY <1>0, <2>1, <2>2, <2>3 DEF Attending
<1> QED
  BY <1>3, <1>4, <1>5, <1>6 DEF BadgesInv

LEMMA TimerDueInv ==
  ASSUME BadgesInv, NEW r \in Refs, TimerDue(r)
  PROVE  BadgesInv'
<1> DEFINE e == Event("clear", r, {}, NoBadges)
           looked == attends.focus /\ r \in Attended /\ (\E x \in badges[r] : ~x.linked)
<1>0. /\ \A q \in DOMAIN committed : committed[q][1] = attends
      /\ due' = due \ {r} /\ published' = IF looked THEN published \cup {e} ELSE published
      /\ UNCHANGED <<badges, kept, toPage, toStore, sending, loading, attends, committed, parted, badgeIds>>
  BY DEF TimerDue, publishBadgeEvent
<1>1. e \in EventSet /\ e.kind = "clear" /\ e.ref = r
  BY ClearEvents DEF Event
<1> HIDE DEF e
<1>2. SetsOf(e) = {}
  BY <1>1 DEF SetsOf
<1>3. published \subseteq published' /\ published' \subseteq published \cup {e} /\ (looked => e \in published')
  BY <1>0
<1>4. BadgesType'
  BY <1>0, <1>1, <1>3 DEF BadgesInv, BadgesType
<1>5. PageLoads' /\ Together'
  BY <1>0, MeetsOfSame DEF BadgesInv, PageLoads, Together
<1>6. Fresh'
  <2>1. OnPage' = OnPage /\ ToCome' = ToCome /\ Sent' = Sent /\ (Unshown' <=> Unshown)
    BY <1>0, SeenOfSame
  <2>2. Seen' = Seen
    BY <1>0, <2>1 DEF Seen
  <2>3. \A f \in published': f \in published \/ SetsOf(f) = {}
    BY <1>2, <1>3
  <2>4. loading' = "done" => Unshown'
    BY <1>0, <2>1 DEF BadgesInv, Fresh
  <2> QED
    BY <1>0, <2>2, <2>3, <2>4, FreshStays DEF BadgesInv
<1>7. Attending'
  <2>1. \A q: ClearComes(q) => ClearComes(q)'
    BY <1>0, <1>3 DEF ClearComes
  <2>2. looked => ClearComes(r)'
    BY <1>1, <1>3 DEF ClearComes
  <2>3. ASSUME NEW q \in DOMAIN committed, committed[q][1].focus, q \in {committed[q][1].block, TabRef},
               NEW x \in badges[q] \cap committed[q][3], ~x.linked
        PROVE  q \in due' \/ ClearComes(q)'
    <3>1. q \in due \/ ClearComes(q)
      BY <2>3 DEF BadgesInv, Attending
    <3>2. CASE q # r
      BY <1>0, <2>1, <3>1, <3>2
    <3>3. CASE q = r
      <4>1. attends.focus /\ r \in Attended /\ x \in badges[r] /\ ~x.linked
        BY <1>0, <2>3, <3>3 DEF Attended
      <4> QED
        BY <2>2, <3>3, <4>1
    <3> QED
      BY <3>2, <3>3
  <2> QED
    BY <1>0, <2>3 DEF Attending
<1> QED
  BY <1>4, <1>5, <1>6, <1>7 DEF BadgesInv

LEMMA BadgesStepInv == BadgesInv /\ [BadgesNext]_badgeVars => BadgesInv'
<1> SUFFICES ASSUME BadgesInv, [BadgesNext]_badgeVars PROVE BadgesInv'
  OBVIOUS
<1>1. CASE StoreTakes
  BY <1>1, StoreTakesInv
<1>2. CASE GetAllBadges
  BY <1>2, GetAllBadgesInv
<1>3. CASE loadBadges
  BY <1>3, LoadBadgesInv
<1>4. CASE setupBadgesSubscription
  BY <1>4, SubscribesInv
<1>5. CASE EventArrives
  BY <1>5, EventArrivesInv
<1>6. CASE Commits
  BY <1>6, CommitsInv
<1>7. CASE clearAllBadges
  <2> DEFINE e == Event("clearall", TabRef, {}, NoBadges)
  <2>1. TabRef \in Refs
    BY DEF Refs
  <2>2. e \in EventSet /\ e.kind # "set" /\ ClearsBadges(e)
    BY <1>7, <2>1, ClearEvents DEF Event, clearAllBadges
  <2> HIDE DEF e
  <2> QED
    BY <2>2, ClearsBadgesInv
<1>8. ASSUME NEW e \in published, Publish(e) PROVE BadgesInv'
  BY <1>8, PublishInv
<1>14. ASSUME NEW x \in sending, NEW to \in {"page", "store"}, SendEvent(x, to) PROVE BadgesInv'
  BY <1>14, SendEventInv
<1>9. ASSUME NEW r \in Refs, TimerDue(r) PROVE BadgesInv'
  BY <1>9, TimerDueInv
<1>10. ASSUME NEW r \in Refs, NEW i \in 1 .. MaxBadges, clearBadgeById(r, i) PROVE BadgesInv'
  <2> DEFINE e == Event("clearbyid", r, {[id |-> i, priority |-> 0, linked |-> FALSE]}, NoBadges)
  <2>1. i \in Nat
    OBVIOUS
  <2>2. e \in EventSet /\ e.kind # "set" /\ ClearsBadges(e)
    BY <1>10, <2>1, ClearEvents DEF Event, clearBadgeById
  <2> HIDE DEF e
  <2> QED
    BY <2>2, ClearsBadgesInv
<1>11. ASSUME NEW r \in Refs, NEW p \in 1 .. 2, NEW l \in BOOLEAN, setBadge(r, p, l) PROVE BadgesInv'
  BY <1>11, SetBadgeInv
<1>12. ASSUME NEW blk \in BadgeBlocks, NEW f \in BOOLEAN, FocusChanges(blk, f) PROVE BadgesInv'
  BY <1>12, FocusChangesInv
<1>13. CASE UNCHANGED badgeVars
  <2>0. UNCHANGED <<badges, kept, toPage, toStore, published, sending, loading, attends, committed, due, parted, badgeIds>>
    BY <1>13 DEF badgeVars
  <2>1. /\ OnPage' = OnPage /\ ToCome' = ToCome /\ Sent' = Sent /\ (Unshown' <=> Unshown)
        /\ \A r: ClearComes(r)' <=> ClearComes(r)
    BY <2>0, SeenOfSame
  <2>2. BadgesType' /\ PageLoads' /\ Together'
    BY <2>0, MeetsOfSame DEF BadgesInv, BadgesType, PageLoads, Together
  <2>3. Fresh'
    <3>1. Seen' = Seen
      BY <2>0, <2>1 DEF Seen
    <3>2. loading' = "done" => Unshown'
      BY <2>0, <2>1 DEF BadgesInv, Fresh
    <3> QED
      BY <2>0, <3>1, <3>2, FreshStays DEF BadgesInv
  <2>4. Attending'
    BY <2>0, <2>1 DEF BadgesInv, Attending
  <2> QED
    BY <2>2, <2>3, <2>4 DEF BadgesInv
<1> QED
  BY <1>1, <1>2, <1>3, <1>4, <1>5, <1>6, <1>7, <1>8, <1>9, <1>10, <1>11, <1>12, <1>13, <1>14
  DEF BadgesNext

LEMMA BadgesInvSettles == BadgesInv => BadgesSettle
<1> SUFFICES ASSUME BadgesInv, BadgesQuiet
             PROVE  /\ \A r \in Refs \ parted : badges[r] = kept[r]
                    /\ attends.focus => \A r \in Attended : \A x \in badges[r] : x.linked
  BY DEF BadgesSettle
<1>0. /\ toPage = <<>> /\ toStore = <<>> /\ published = {} /\ sending = {}
      /\ due = {} /\ committed = Effects /\ loading = "done"
  BY DEF BadgesQuiet
<1>1. ASSUME NEW r \in Refs \ parted PROVE badges[r] = kept[r]
  <2>1. PICK f \in SUBSET BadgeSet, g \in SUBSET BadgeSet:
          LeadsAt(r, badges[r], <<>>, f) /\ LeadsAt(r, kept[r], <<>>, g) /\ Balanced(r, f, g)
    BY <1>0, <1>1 DEF BadgesInv, Together, Meets
  <2>2. f = g
    BY <1>0, <2>1 DEF Balanced
  <2>3. badges[r] \in SUBSET BadgeSet /\ kept[r] \in SUBSET BadgeSet /\ <<>> \in Seq(EventSet)
    BY <1>1 DEF BadgesInv, BadgesType, BadgeMaps
  <2> QED
    BY <2>1, <2>2, <2>3, LeadsFacts
<1>2. ASSUME attends.focus, NEW r \in Attended, NEW x \in badges[r], ~x.linked PROVE FALSE
  <2>1. r \in DOMAIN committed /\ committed[r][1] = attends /\ committed[r][3] = badges[r]
    BY <1>0, <1>2 DEF Effects, DependsOn
  <2>2. r \in {attends.block, TabRef}
    BY <1>2 DEF Attended
  <2>3. r \in due \/ ClearComes(r)
    BY <1>2, <2>1, <2>2 DEF BadgesInv, Attending
  <2>4. Len(<<>>) = 0 /\ 1 .. 0 = {}
    OBVIOUS
  <2> QED
    BY <1>0, <2>3, <2>4 DEF ClearComes
<1> QED
  BY <1>1, <1>2

\* When all has arrived the page shows the badges that are stored, but for blocks and tabs of
\* which it missed an event or got two that were sent at the same time, and, always, none but
\* those of a running program on the block and tab that have the focus (badge.ts:148-160,
\* 192-225; badge.go:94-126; app.tsx:291-336).
THEOREM BadgesAlwaysSettle == BadgesSpec => []BadgesSettle
<1>1. BadgesInit => BadgesInv
  BY BadgesInitInv
<1>2. BadgesInv /\ [BadgesNext]_badgeVars => BadgesInv'
  BY BadgesStepInv
<1>3. BadgesInv => BadgesSettle
  BY BadgesInvSettles
<1> QED
  BY <1>1, <1>2, <1>3, PTL DEF BadgesSpec

-----------------------------------------------------------------------------
(* TreeView: a directory is listed once, before what is in it *)

Kids == {Listed(id): id \in Nodes} \cup {<<>>}
TreeNode == [here: BOOLEAN, status: {"unloaded", "loading", "loaded", "capped", "error"}, kids: Kids, failed: BOOLEAN]
TreeType == nodesById \in [Nodes -> TreeNode] /\ fetching \in [Nodes -> Nat] /\ replaced \in BOOLEAN
\* Of a node, unless the initial nodes were replaced.
NodeFits(id) ==
  /\ id \in expandedIds => nodesById[id].status # "unloaded"
  /\ fetching[id] <= 1 /\ (fetching[id] = 1 => nodesById[id].status = "loading")
  /\ ~nodesById[id].here => nodesById[id].status = "unloaded"
  /\ nodesById[id].here /\ id # 1 => nodesById[Parent[id]].status \in {"loaded", "capped"}
TreeInv ==
  /\ TreeType
  /\ \A id \in Nodes: nodesById[id].status = "loading" => fetching[id] > 0
  /\ ~replaced => \A id \in Nodes: NodeFits(id)

\* The files are numbered; a directory comes before what is in it.
LEMMA FilesFacts ==
  /\ 0 \notin Nodes
  /\ \A id \in Nodes \ {1}: Parent[id] \in Nodes /\ Parent[id] # id
  /\ Parent[1] = 0
<1>1. Nodes = 1 .. Len(Parent) /\ Len(Parent) \in Nat
  BY FilesAssumption DEF Nodes
<1>2. \A id \in Nodes: Parent[id] \in Nat
  BY <1>1, FilesAssumption
<1> QED
  BY <1>1, <1>2, FilesAssumption

\* A node that is put there is new, one that is taken away is not loaded.
LEMMA NodeTyped ==
  /\ \A id \in Nodes: Node(id) \in TreeNode /\ Node(id).here /\ Node(id).status \in {"unloaded", "loaded"}
                      /\ Node(id).failed = FALSE
  /\ Missing \in TreeNode /\ ~Missing.here /\ Missing.status = "unloaded"
BY DEF Node, Missing, TreeNode, Kids

LEMMA TreeInitInv ==
  ASSUME TreeInit
  PROVE  TreeInv
<1>1. nodesById = [id \in Nodes |-> IF id = 1 THEN Node(id) ELSE Missing] /\ fetching = [id \in Nodes |-> 0]
      /\ replaced = FALSE /\ expandedIds = {}
  BY DEF TreeInit, initialNodes
<1>2. \A id \in Nodes: nodesById[id] = (IF id = 1 THEN Node(id) ELSE Missing) /\ fetching[id] = 0
  BY <1>1
<1>3. TreeType
  BY <1>1, NodeTyped DEF TreeType
<1>4. \A id \in Nodes: nodesById[id].status \in {"unloaded", "loaded"} /\ (nodesById[id].here => id = 1)
                       /\ (~nodesById[id].here => nodesById[id].status = "unloaded")
  BY <1>2, NodeTyped
<1>5. \A id \in Nodes: NodeFits(id)
  BY <1>1, <1>2, <1>4 DEF NodeFits
<1> QED
  BY <1>3, <1>4, <1>5 DEF TreeInv

\* An answer, or a failure, of one call: the node is as it was but for its status and list.
LEMMA FetchInv ==
  ASSUME TreeInv, NEW id \in Nodes, FetchAnswers(id) \/ FetchFails(id)
  PROVE  TreeInv'
<1>1. TreeType /\ nodesById \in [Nodes -> TreeNode] /\ fetching \in [Nodes -> Nat] /\ Node(id) \in TreeNode /\ nodesById[id] \in TreeNode
  BY NodeTyped DEF TreeInv, TreeType
<1>2. fetching[id] > 0 /\ fetching' = [fetching EXCEPT ![id] = fetching[id] - 1] /\ UNCHANGED <<expandedIds, replaced>>
  BY DEF FetchAnswers, FetchFails
<1>3. /\ fetching' \in [Nodes -> Nat] /\ fetching'[id] = fetching[id] - 1 /\ \A n \in Nodes \ {id}: fetching'[n] = fetching[n]
  <2>1. fetching[id] \in Nat /\ fetching[id] - 1 \in Nat
    BY <1>1, <1>2
  <2> QED
    BY <1>1, <1>2, <2>1
<1>4. PICK s: s = Source(id)
  OBVIOUS
<1>5. s \in TreeNode /\ (~replaced => s = nodesById[id])
  <2>1. s \in TreeNode
    BY <1>1, <1>4 DEF Source
  <2>2. ASSUME ~replaced PROVE s = nodesById[id]
    <3>1. NodeFits(id) /\ fetching[id] \in Nat
      BY <1>1, <2>2 DEF TreeInv
    <3>2. nodesById[id].status = "loading"
      BY <1>2, <3>1 DEF NodeFits
    <3>3. nodesById[id].here
      BY <3>1, <3>2 DEF NodeFits
    <3> QED
      BY <1>4, <3>3 DEF Source
  <2> QED
    BY <2>1, <2>2
<1>6. PICK K: K = {n \in Entries(id): nodesById'[n] = Node(n) /\ n # id}
  OBVIOUS
<1>7. /\ K \subseteq Nodes /\ \A n \in K: Parent[n] = id /\ n # id /\ nodesById'[n] = Node(n)
  BY <1>6 DEF Entries
<1>8. /\ nodesById' = [n \in Nodes |-> nodesById'[n]]
      /\ \A n \in Nodes: n = id \/ n \in K \/ nodesById'[n] = nodesById[n]
      /\ nodesById'[id] \in TreeNode /\ nodesById'[id].here = s.here
      /\ \/ nodesById'[id].status \in {"loaded", "capped"}
         \/ nodesById'[id].status = "error" /\ \A n \in K: nodesById'[n] = nodesById[n]
  <2>1. CASE FetchAnswers(id)
    <3>1. PICK kids, status: kids = Listed(id) /\ status = IF Len(kids) < Cardinality(Entries(id)) THEN "capped" ELSE "loaded"
      OBVIOUS
    <3>2. nodesById' = [n \in Nodes |->
            IF n = id THEN [s EXCEPT !.kids = kids, !.status = status]
            ELSE IF n \in Entries(id) /\ Contains(kids, n) THEN Node(n) ELSE nodesById[n]]
      BY <1>4, <2>1, <3>1 DEF FetchAnswers
    <3>3. PICK t: t = [s EXCEPT !.kids = kids, !.status = status]
      OBVIOUS
    <3>4. kids \in Kids /\ status \in {"loaded", "capped"}
      BY <3>1 DEF Kids
    <3>5. t \in TreeNode /\ t.here = s.here /\ t.status = status
      BY <1>5, <3>3, <3>4 DEF TreeNode
    <3>6. nodesById'[id] = t /\ \A n \in Nodes \ {id}: nodesById'[n] = IF n \in Entries(id) /\ Contains(kids, n) THEN Node(n) ELSE nodesById[n]
      BY <3>2, <3>3
    <3>7. \A n \in Nodes: n = id \/ n \in K \/ nodesById'[n] = nodesById[n]
      BY <1>6, <3>6
    <3>8. nodesById' = [n \in Nodes |-> nodesById'[n]]
      BY <3>2
    <3> QED
      BY <3>4, <3>5, <3>6, <3>7, <3>8
  <2>2. CASE FetchFails(id)
    <3>1. nodesById' = [nodesById EXCEPT ![id] = [s EXCEPT !.status = "error", !.failed = TRUE]]
      BY <1>4, <2>2 DEF FetchFails, Failed
    <3>2. PICK t: t = [s EXCEPT !.status = "error", !.failed = TRUE]
      OBVIOUS
    <3>3. t \in TreeNode /\ t.here = s.here /\ t.status = "error"
      BY <1>5, <3>2 DEF TreeNode
    <3>4. nodesById'[id] = t /\ (\A n \in Nodes \ {id}: nodesById'[n] = nodesById[n]) /\ nodesById' = [n \in Nodes |-> nodesById'[n]]
      BY <1>1, <3>1, <3>2
    <3>5. \A n \in K: nodesById'[n] = nodesById[n]
      BY <1>7, <3>4
    <3> QED
      BY <3>3, <3>4, <3>5
  <2> QED
    BY <2>1, <2>2
<1>9. \A n \in Nodes: nodesById'[n] \in TreeNode
  BY <1>1, <1>7, <1>8, NodeTyped
<1>10. TreeType'
  <2>1. nodesById' \in [Nodes -> TreeNode]
    BY <1>8, <1>9
  <2> QED
    BY <1>1, <1>2, <1>3, <2>1 DEF TreeType
<1>12. nodesById'[id].status \in {"loaded", "capped", "error"}
  BY <1>8
<1>13. \A n \in Nodes: nodesById'[n].status = "loading" => fetching'[n] > 0
  <2>1. \A n \in Nodes: nodesById[n].status = "loading" => fetching[n] > 0
    BY DEF TreeInv
  <2>2. ASSUME NEW n \in Nodes, nodesById'[n].status = "loading" PROVE fetching'[n] > 0
    <3>1. n # id
      BY <1>12, <2>2
    <3>2. n \notin K
      BY <1>7, <2>2, NodeTyped
    <3> QED
      BY <1>3, <1>8, <2>1, <2>2, <3>1, <3>2
  <2> QED
    BY <2>2
<1>14. ASSUME ~replaced PROVE \A n \in Nodes: NodeFits(n)'
  <2>1. \A n \in Nodes: NodeFits(n) /\ fetching[n] \in Nat
    BY <1>1, <1>14 DEF TreeInv
  <2>2. nodesById[id].status = "loading" /\ fetching[id] = 1 /\ nodesById[id].here /\ s = nodesById[id] /\ fetching'[id] = 0
    <3>1. fetching[id] = 1 /\ nodesById[id].status = "loading" /\ nodesById[id].here
      BY <1>2, <2>1 DEF NodeFits
    <3> QED
      BY <1>3, <1>5, <1>14, <3>1
  \* Nothing that is in the directory is there.
  <2>3. \A n \in Nodes \ {1}: Parent[n] = id => ~nodesById[n].here /\ nodesById[n].status = "unloaded"
                              /\ fetching[n] = 0 /\ n \notin expandedIds
    BY <2>1, <2>2 DEF NodeFits
  <2>4. 1 \notin K /\ id # 0
    BY <1>7, FilesFacts
  <2>5. NodeFits(id)'
    <3>1. id # 1 => Parent[id] \in Nodes \ {id}
      BY FilesFacts
    <3>2. id # 1 => nodesById[Parent[id]].status \in {"loaded", "capped"}
      BY <2>1, <2>2 DEF NodeFits
    <3>3. ASSUME id # 1 PROVE Parent[id] \notin K
      <4>1. Parent[id] \in K => nodesById[Parent[id]].status = "unloaded"
        BY <1>7, <2>3, <2>4
      <4> QED
        BY <3>2, <3>3, <4>1
    <3>4. id # 1 => nodesById'[Parent[id]] = nodesById[Parent[id]]
      BY <1>8, <3>1, <3>3
    <3> QED
      BY <1>8, <1>12, <2>2, <3>2, <3>4 DEF NodeFits
  <2>6. ASSUME NEW n \in Nodes, n # id, n \in K PROVE NodeFits(n)'
    <3>1. nodesById'[n] = Node(n) /\ Parent[n] = id /\ n # 1 /\ fetching'[n] = fetching[n]
      BY <1>3, <1>7, <2>4, <2>6
    <3>2. fetching[n] = 0 /\ n \notin expandedIds
      BY <2>3, <3>1
    <3>3. K # {} /\ ~(\A m \in K: nodesById'[m] = nodesById[m])
      <4>1. nodesById[n].here = FALSE /\ Node(n).here
        BY <1>1, <2>3, <3>1, NodeTyped DEF TreeNode
      <4> QED
        BY <2>6, <3>1, <4>1
    <3>4. nodesById'[id].status \in {"loaded", "capped"}
      BY <1>8, <3>3
    <3> QED
      BY <1>2, <3>1, <3>2, <3>4, NodeTyped DEF NodeFits
  <2>7. ASSUME NEW n \in Nodes, n # id, n \notin K PROVE NodeFits(n)'
    <3>1. nodesById'[n] = nodesById[n] /\ fetching'[n] = fetching[n] /\ NodeFits(n)
      BY <1>3, <1>8, <2>1, <2>7
    <3>2. ASSUME nodesById[n].here, n # 1 PROVE nodesById'[Parent[n]].status \in {"loaded", "capped"}
      <4>1. Parent[n] \in Nodes /\ nodesById[Parent[n]].status \in {"loaded", "capped"}
        BY <3>1, <3>2, FilesFacts DEF NodeFits
      <4>2. Parent[n] # id
        BY <2>2, <4>1
      <4>3. Parent[n] \notin K
        BY <1>7, <2>3, <2>4, <4>1
      <4> QED
        BY <1>8, <4>1, <4>2, <4>3
    <3> QED
      BY <1>2, <3>1, <3>2 DEF NodeFits
  <2> QED
    BY <2>5, <2>6, <2>7
<1> QED
  BY <1>2, <1>10, <1>13, <1>14 DEF TreeInv

\* A directory is expanded, which loads it, or collapsed.
LEMMA ToggleInvTree ==
  ASSUME TreeInv, NEW id, toggleExpand(id), UNCHANGED replaced
  PROVE  TreeInv'
<1>1. TreeType /\ nodesById \in [Nodes -> TreeNode] /\ fetching \in [Nodes -> Nat]
  BY DEF TreeInv, TreeType
<1>2. CASE IsDirectory(id) /\ nodesById[id].here /\ ~nodesById[id].failed /\ id \notin expandedIds /\ Loads(id)
  <2>1. id \in Nodes
    BY <1>2, FilesAssumption DEF IsDirectory
  <2>2. /\ expandedIds' = expandedIds \cup {id}
        /\ nodesById' = [nodesById EXCEPT ![id].status = "loading"] /\ fetching' = [fetching EXCEPT ![id] = fetching[id] + 1]
    BY <1>2 DEF toggleExpand, LoadsOnToggle, loadChildren
  <2>3. PICK t: t = [nodesById[id] EXCEPT !.status = "loading"]
    OBVIOUS
  <2>4. t \in TreeNode /\ t.here = nodesById[id].here /\ t.status = "loading"
    BY <1>1, <2>1, <2>3 DEF TreeNode
  <2>5. nodesById' = [nodesById EXCEPT ![id] = t]
    BY <1>1, <2>1, <2>2, <2>3
  <2>6. nodesById' \in [Nodes -> TreeNode] /\ nodesById'[id] = t /\ \A n \in Nodes \ {id}: nodesById'[n] = nodesById[n]
    BY <1>1, <2>1, <2>4, <2>5
  <2>7. fetching' \in [Nodes -> Nat] /\ fetching'[id] = fetching[id] + 1 /\ \A n \in Nodes \ {id}: fetching'[n] = fetching[n]
    BY <1>1, <2>1, <2>2
  <2>8. TreeType'
    BY <1>1, <2>6, <2>7 DEF TreeType
  <2>9. nodesById[id].status = "unloaded" /\ fetching[id] \in Nat
    BY <1>1, <1>2, <2>1 DEF Loads
  <2>10. \A n \in Nodes: nodesById'[n].status = "loading" => fetching'[n] > 0
    BY <2>6, <2>7, <2>9 DEF TreeInv
  <2>11. ASSUME ~replaced, NEW n \in Nodes PROVE NodeFits(n)'
    <3>1. \A m \in Nodes: NodeFits(m) /\ fetching[m] \in Nat
      BY <1>1, <2>11 DEF TreeInv
    <3>2. fetching[id] = 0
      BY <2>1, <2>9, <3>1 DEF NodeFits
    <3>3. ASSUME nodesById'[n].here, n # 1 PROVE nodesById'[Parent[n]].status \in {"loaded", "capped"}
      <4>1. nodesById[n].here
        BY <2>4, <2>6, <3>3
      <4>2. Parent[n] \in Nodes /\ nodesById[Parent[n]].status \in {"loaded", "capped"}
        BY <3>1, <3>3, <4>1, FilesFacts DEF NodeFits
      <4> QED
        BY <2>6, <2>9, <4>2
    <3>4. CASE n = id
      <4>1. nodesById'[n].here /\ nodesById'[n].status = "loading"
        BY <1>2, <2>4, <2>6, <3>4
      <4>2. fetching'[n] = 1
        BY <2>7, <3>2, <3>4
      <4> QED
        BY <3>3, <4>1, <4>2 DEF NodeFits
    <3>5. CASE n # id
      BY <2>2, <2>6, <2>7, <3>1, <3>3, <3>5 DEF NodeFits
    <3> QED
      BY <3>4, <3>5
  <2> QED
    BY <2>8, <2>10, <2>11 DEF TreeInv
<1>3. CASE IsDirectory(id) /\ nodesById[id].here /\ ~nodesById[id].failed /\ id \notin expandedIds /\ ~Loads(id)
  <2>1. UNCHANGED <<nodesById, fetching>> /\ expandedIds' = expandedIds \cup {id} /\ nodesById[id].status # "unloaded"
    BY <1>3 DEF toggleExpand, LoadsOnToggle, loadChildren, Loads
  <2>2. \A n \in Nodes: NodeFits(n) => NodeFits(n)'
    BY <2>1 DEF NodeFits
  <2> QED
    BY <1>1, <2>1, <2>2 DEF TreeInv, TreeType
<1>4. CASE id \in expandedIds \/ ~(IsDirectory(id) /\ nodesById[id].here /\ ~nodesById[id].failed)
  <2>1. UNCHANGED <<nodesById, fetching>> /\ expandedIds' \subseteq expandedIds
    BY <1>4 DEF toggleExpand, LoadsOnToggle
  <2>2. \A n \in Nodes: NodeFits(n) => NodeFits(n)'
    BY <2>1 DEF NodeFits
  <2> QED
    BY <1>1, <2>1, <2>2 DEF TreeInv, TreeType
<1> QED
  BY <1>2, <1>3, <1>4

LEMMA TreeStutter ==
  ASSUME TreeInv, UNCHANGED <<nodesById, expandedIds, fetching, replaced>>
  PROVE  TreeInv'
<1>1. \A n \in Nodes: NodeFits(n) => NodeFits(n)'
  BY DEF NodeFits
<1> QED
  BY <1>1 DEF TreeInv, TreeType

LEMMA TreeStepInv ==
  ASSUME TreeInv, [TreeNext]_treeVars
  PROVE  TreeInv'
<1>1. CASE ReplaceNodes
  <2>1. nodesById' = [id \in Nodes |-> IF id = 1 THEN Node(id) ELSE Missing] /\ replaced' = TRUE /\ UNCHANGED fetching
    BY <1>1 DEF ReplaceNodes, initialNodes
  <2>2. TreeType'
    BY <2>1, NodeTyped DEF TreeInv, TreeType
  <2>3. \A id \in Nodes: nodesById'[id].status # "loading"
    BY <2>1, NodeTyped
  <2> QED
    BY <2>1, <2>2, <2>3 DEF TreeInv
<1>2. CASE ArrowLeft
  <2>1. UNCHANGED replaced /\ (toggleExpand(selectedId) \/ UNCHANGED <<nodesById, expandedIds, fetching>>)
    BY <1>2 DEF ArrowLeft, commitSelection
  <2> QED
    BY <2>1, ToggleInvTree, TreeStutter
<1>3. CASE ArrowRight
  <2>1. UNCHANGED replaced /\ (toggleExpand(selectedId) \/ UNCHANGED <<nodesById, expandedIds, fetching>>)
    BY <1>3 DEF ArrowRight, commitSelection
  <2> QED
    BY <2>1, ToggleInvTree, TreeStutter
<1>4. ASSUME NEW down \in BOOLEAN, ArrowVertical(down) PROVE TreeInv'
  <2>1. UNCHANGED <<nodesById, expandedIds, fetching, replaced>>
    BY <1>4 DEF ArrowVertical, Step, commitSelection
  <2> QED
    BY <2>1, TreeStutter
<1>5. ASSUME NEW id \in Nodes, Toggle(id) PROVE TreeInv'
  BY <1>5, ToggleInvTree DEF Toggle
<1>6. ASSUME NEW id \in Nodes, ClickRow(id) PROVE TreeInv'
  BY <1>6, TreeStutter DEF ClickRow, commitSelection
<1>7. ASSUME NEW id \in Nodes, FetchAnswers(id) \/ FetchFails(id) PROVE TreeInv'
  BY <1>7, FetchInv
<1>8. CASE UNCHANGED treeVars
  BY <1>8, TreeStutter DEF treeVars
<1> QED
  BY <1>1, <1>2, <1>3, <1>4, <1>5, <1>6, <1>7, <1>8 DEF TreeNext

\* Of any tree of files, a directory is shown as loading only while it is, and one that is
\* open was listed, failed or is being listed, once, unless the initial nodes were replaced.
THEOREM OpenAlwaysListed == TreeSpec => []OpenIsListed
<1>1. TreeInv => OpenIsListed
  <2>1. TreeInv => \A id \in Nodes: fetching[id] \in Nat
    BY DEF TreeInv, TreeType
  <2> QED
    BY <2>1 DEF TreeInv, NodeFits, OpenIsListed
<1> QED
  BY <1>1, TreeInitInv, TreeStepInv, PTL DEF TreeSpec

-----------------------------------------------------------------------------
(* AppKeys: what a key means, and which tab goes with its last block *)


\* What a binding compares its key with.
Normal(key) == IF IsUpper(key) THEN Lower(key) ELSE IF key = " " THEN "Space" ELSE key
\* The keys that descriptions name.
Nameable(k) == k \notin Uppers /\ k # " " /\ k # ""

LEMMA UppersAre ==
  Uppers = {"W", "V", "C", "I", "X", "D", "N", "S", "H", "Q"}
<1>1. DOMAIN UpperOf = {"w", "v", "c", "i", "x", "d", "n", "s", "h", "q"}
  BY DEF UpperOf
<1>2. Uppers = {UpperOf[k]: k \in DOMAIN UpperOf}
  BY DEF Uppers, Range
<1>3. {UpperOf[k]: k \in {"w", "v", "c", "i", "x", "d", "n", "s", "h", "q"}} = {"W", "V", "C", "I", "X", "D", "N", "S", "H", "Q"}
  BY DEF UpperOf
<1> QED
  BY <1>1, <1>2, <1>3

LEMMA LowersAre ==
  ASSUME NEW k, IsUpper(k)
  PROVE  Lower(k) \in {"w", "v", "c", "i", "x", "d", "n", "s", "h", "q"}
<1>1. \E l \in DOMAIN UpperOf: UpperOf[l] = k
  BY DEF IsUpper, Uppers, Range
<1>2. Lower(k) \in DOMAIN UpperOf
  BY <1>1 DEF Lower
<1>3. DOMAIN UpperOf = {"w", "v", "c", "i", "x", "d", "n", "s", "h", "q"}
  BY DEF UpperOf
<1> QED
  BY <1>2, <1>3

LEMMA NotUpper ==
  ASSUME NEW k, k \notin Uppers
  PROVE  Lower(k) = k /\ ~IsUpper(k)
BY DEF Lower, IsUpper

LEMMA KeyFits ==
  ASSUME NEW e, NEW mods, NEW k, Nameable(k)
  PROVE  checkKeyPressed(e, Key(mods, k)) <=> Normal(e.key) = k /\ e.mods = Named(mods)
<1> DEFINE d == Key(mods, k)
<1>1. d.key = k /\ d.mods = mods
  BY DEF Key
<1>2. parseKeyDescription(d).mods = Named(mods)
  <2>1. ~IsUpper(d.key)
    BY <1>1, NotUpper DEF Nameable
  <2>2. parseKeyDescription(d).mods = Named(d.mods) \cup {}
    BY <2>1 DEF parseKeyDescription, Key
  <2> QED
    BY <1>1, <2>2
<1>3. SameKey(e, d) <=> Normal(e.key) = k
  <2>1. Lower(d.key) = k
    BY <1>1, NotUpper DEF Nameable
  <2>2. d.key # "" /\ d.key # " "
    BY <1>1 DEF Nameable
  <2> QED
    BY <1>1, <2>1, <2>2 DEF SameKey, Normal
<1> QED
  BY <1>2, <1>3 DEF checkKeyPressed

LEMMA CodeFits ==
  ASSUME NEW e, NEW mods, NEW c
  PROVE  checkKeyPressed(e, Code(mods, c)) <=> e.code = c /\ e.mods = Named(mods)
<1> DEFINE d == Code(mods, c)
<1>1. d.key = "" /\ d.code = c /\ d.mods = mods
  BY DEF Code
<1>2. ~IsUpper("")
  BY UppersAre DEF IsUpper
<1>3. parseKeyDescription(d).mods = Named(d.mods) \cup {}
  BY <1>1, <1>2 DEF parseKeyDescription, Code
<1>4. SameKey(e, d) <=> e.code = c
  BY <1>1 DEF SameKey
<1> QED
  BY <1>1, <1>3, <1>4 DEF checkKeyPressed

\* The sets of modifiers that descriptions name.
LEMMA ModsAre ==
  ASSUME platform \in {"darwin", "linux"}
  PROVE  \E p \in {"Alt", "Meta"}:
           /\ Named({}) = {} /\ Named({"Shift"}) = {"Shift"} /\ Named({"Ctrl"}) = {"Ctrl"}
           /\ Named(CtrlShift) = CtrlShift
           /\ Named({"Cmd"}) = {"Cmd", p}
           /\ Named({"Cmd", "Shift"}) = {"Cmd", "Shift", p}
           /\ Named({"Shift", "Cmd"}) = {"Cmd", "Shift", p}
<1> DEFINE p == IF Mac THEN "Meta" ELSE "Alt"
<1>1. DOMAIN Partner \cap {"Ctrl", "Shift"} = {} /\ "Cmd" \in DOMAIN Partner /\ Partner["Cmd"] = p
  BY DEF Partner
<1>2. Named({}) = {} /\ Named({"Shift"}) = {"Shift"} /\ Named({"Ctrl"}) = {"Ctrl"} /\ Named(CtrlShift) = CtrlShift
  BY <1>1 DEF Named, CtrlShift
<1>3. Named({"Cmd"}) = {"Cmd", p}
  BY <1>1 DEF Named
<1>4. Named({"Cmd", "Shift"}) = {"Cmd", "Shift", p}
  BY <1>1 DEF Named
<1>5. {"Shift", "Cmd"} = {"Cmd", "Shift"} /\ p \in {"Alt", "Meta"}
  OBVIOUS
<1> HIDE DEF p
<1> QED
  BY <1>2, <1>3, <1>4, <1>5

\* The table by the modifiers of its keys.
PlainDoes(k, does) ==
  \/ k = "F2" /\ does = "rename tab"
  \/ k = "Escape" /\ does = "escape"
CmdDoes(k, does) ==
  \/ k = "]" /\ does = "next tab"
  \/ k = "[" /\ does = "previous tab"
  \/ k \in {"n", "d"} /\ does = "new block"
  \/ k = "i" /\ does = "refocus"
  \/ k = "t" /\ does = "new tab"
  \/ k = "w" /\ does = "close"
  \/ k = "m" /\ does = "magnify"
  \/ k = "g" /\ does = "connections"
  \/ k = "1" /\ does = "tab 1"
  \/ k = "2" /\ does = "tab 2"
  \/ k = "f" /\ does = "search"
ShiftCmdDoes(k, does) ==
  \/ k = "]" /\ does = "next tab"
  \/ k = "[" /\ does = "previous tab"
  \/ k = "d" /\ does = "new block"
  \/ k = "w" /\ does = "close tab"
CtrlShiftDoes(k, does) ==
  \/ k \in {"ArrowUp", "k"} /\ does = "up"
  \/ k \in {"ArrowDown", "j"} /\ does = "down"
  \/ k \in {"ArrowLeft", "h"} /\ does = "left"
  \/ k \in {"ArrowRight", "l"} /\ does = "right"
  \/ k = "x" /\ does = "to launcher"
  \/ k = "i" /\ does = "multi"
CodeDoes(k, does) ==
  \/ k \in {"Digit1", "Numpad1"} /\ does = "block 1"
  \/ k \in {"Digit2", "Numpad2"} /\ does = "block 2"

LEMMA KeyPlaces ==
  DOMAIN globalKeyMap = 1 .. 32
BY SMTT(30) DEF globalKeyMap

LEMMA BindingsAre ==
  ASSUME NEW b \in Range(globalKeyMap)
  PROVE  \E k, does:
           \/ PlainDoes(k, does) /\ b = Bind(Key({}, k), does)
           \/ CmdDoes(k, does) /\ b = Bind(Key({"Cmd"}, k), does)
           \/ ShiftCmdDoes(k, does) /\ b = Bind(Key({"Cmd", "Shift"}, k), does)
           \/ CtrlShiftDoes(k, does) /\ b = Bind(Key(CtrlShift, k), does)
           \/ CodeDoes(k, does) /\ b = Bind(Code(CtrlShift, k), does)
<1>1. PICK i \in DOMAIN globalKeyMap: b = globalKeyMap[i]
  BY DEF Range
<1>2. i \in 1 .. 32
  BY KeyPlaces
<1>3. {"Shift", "Cmd"} = {"Cmd", "Shift"}
  OBVIOUS
<1>4. i \in {22, 32} => \E k, does: PlainDoes(k, does) /\ b = Bind(Key({}, k), does)
  <2>1. globalKeyMap[22] = Bind(Key({}, "F2"), "rename tab") /\ PlainDoes("F2", "rename tab")
    BY DEF globalKeyMap, PlainDoes
  <2>2. globalKeyMap[32] = Bind(Key({}, "Escape"), "escape") /\ PlainDoes("Escape", "escape")
    BY DEF globalKeyMap, PlainDoes
  <2> QED
    BY <1>1, <1>3, <2>1, <2>2
<1>5. i \in {1, 3, 5, 6, 8, 9, 10, 12, 23, 25, 28, 31} => \E k, does: CmdDoes(k, does) /\ b = Bind(Key({"Cmd"}, k), does)
  <2>1. globalKeyMap[1] = Bind(Key({"Cmd"}, "]"), "next tab") /\ CmdDoes("]", "next tab")
    BY DEF globalKeyMap, CmdDoes
  <2>2. globalKeyMap[3] = Bind(Key({"Cmd"}, "["), "previous tab") /\ CmdDoes("[", "previous tab")
    BY DEF globalKeyMap, CmdDoes
  <2>3. globalKeyMap[5] = Bind(Key({"Cmd"}, "n"), "new block") /\ CmdDoes("n", "new block")
    BY DEF globalKeyMap, CmdDoes
  <2>4. globalKeyMap[6] = Bind(Key({"Cmd"}, "d"), "new block") /\ CmdDoes("d", "new block")
    BY DEF globalKeyMap, CmdDoes
  <2>5. globalKeyMap[8] = Bind(Key({"Cmd"}, "i"), "refocus") /\ CmdDoes("i", "refocus")
    BY DEF globalKeyMap, CmdDoes
  <2>6. globalKeyMap[9] = Bind(Key({"Cmd"}, "t"), "new tab") /\ CmdDoes("t", "new tab")
    BY DEF globalKeyMap, CmdDoes
  <2>7. globalKeyMap[10] = Bind(Key({"Cmd"}, "w"), "close") /\ CmdDoes("w", "close")
    BY DEF globalKeyMap, CmdDoes
  <2>8. globalKeyMap[12] = Bind(Key({"Cmd"}, "m"), "magnify") /\ CmdDoes("m", "magnify")
    BY DEF globalKeyMap, CmdDoes
  <2>9. globalKeyMap[23] = Bind(Key({"Cmd"}, "g"), "connections") /\ CmdDoes("g", "connections")
    BY DEF globalKeyMap, CmdDoes
  <2>10. globalKeyMap[25] = Bind(Key({"Cmd"}, "1"), "tab 1") /\ CmdDoes("1", "tab 1")
    BY DEF globalKeyMap, CmdDoes
  <2>11. globalKeyMap[28] = Bind(Key({"Cmd"}, "2"), "tab 2") /\ CmdDoes("2", "tab 2")
    BY DEF globalKeyMap, CmdDoes
  <2>12. globalKeyMap[31] = Bind(Key({"Cmd"}, "f"), "search") /\ CmdDoes("f", "search")
    BY DEF globalKeyMap, CmdDoes
  <2>13. i \in {1, 3, 5, 6} => \E k, does: CmdDoes(k, does) /\ b = Bind(Key({"Cmd"}, k), does)
    BY <1>1, <2>1, <2>2, <2>3, <2>4
  <2>14. i \in {8, 9, 10, 12} => \E k, does: CmdDoes(k, does) /\ b = Bind(Key({"Cmd"}, k), does)
    BY <1>1, <2>5, <2>6, <2>7, <2>8
  <2>15. i \in {23, 25, 28, 31} => \E k, does: CmdDoes(k, does) /\ b = Bind(Key({"Cmd"}, k), does)
    BY <1>1, <2>9, <2>10, <2>11, <2>12
  <2> QED
    BY <2>13, <2>14, <2>15
<1>6. i \in {2, 4, 7, 11} => \E k, does: ShiftCmdDoes(k, does) /\ b = Bind(Key({"Cmd", "Shift"}, k), does)
  <2>1. globalKeyMap[2] = Bind(Key({"Shift", "Cmd"}, "]"), "next tab") /\ ShiftCmdDoes("]", "next tab")
    BY DEF globalKeyMap, ShiftCmdDoes
  <2>2. globalKeyMap[4] = Bind(Key({"Shift", "Cmd"}, "["), "previous tab") /\ ShiftCmdDoes("[", "previous tab")
    BY DEF globalKeyMap, ShiftCmdDoes
  <2>3. globalKeyMap[7] = Bind(Key({"Shift", "Cmd"}, "d"), "new block") /\ ShiftCmdDoes("d", "new block")
    BY DEF globalKeyMap, ShiftCmdDoes
  <2>4. globalKeyMap[11] = Bind(Key({"Cmd", "Shift"}, "w"), "close tab") /\ ShiftCmdDoes("w", "close tab")
    BY DEF globalKeyMap, ShiftCmdDoes
  <2> QED
    BY <1>1, <1>3, <2>1, <2>2, <2>3, <2>4
<1>7. i \in {13, 14, 15, 16, 17, 18, 19, 20, 21, 24} => \E k, does: CtrlShiftDoes(k, does) /\ b = Bind(Key(CtrlShift, k), does)
  <2>1. globalKeyMap[13] = Bind(Key(CtrlShift, "ArrowUp"), "up") /\ CtrlShiftDoes("ArrowUp", "up")
    BY DEF globalKeyMap, CtrlShiftDoes
  <2>2. globalKeyMap[14] = Bind(Key(CtrlShift, "ArrowDown"), "down") /\ CtrlShiftDoes("ArrowDown", "down")
    BY DEF globalKeyMap, CtrlShiftDoes
  <2>3. globalKeyMap[15] = Bind(Key(CtrlShift, "ArrowLeft"), "left") /\ CtrlShiftDoes("ArrowLeft", "left")
    BY DEF globalKeyMap, CtrlShiftDoes
  <2>4. globalKeyMap[16] = Bind(Key(CtrlShift, "ArrowRight"), "right") /\ CtrlShiftDoes("ArrowRight", "right")
    BY DEF globalKeyMap, CtrlShiftDoes
  <2>5. globalKeyMap[17] = Bind(Key(CtrlShift, "h"), "left") /\ CtrlShiftDoes("h", "left")
    BY DEF globalKeyMap, CtrlShiftDoes
  <2>6. globalKeyMap[18] = Bind(Key(CtrlShift, "j"), "down") /\ CtrlShiftDoes("j", "down")
    BY DEF globalKeyMap, CtrlShiftDoes
  <2>7. globalKeyMap[19] = Bind(Key(CtrlShift, "k"), "up") /\ CtrlShiftDoes("k", "up")
    BY DEF globalKeyMap, CtrlShiftDoes
  <2>8. globalKeyMap[20] = Bind(Key(CtrlShift, "l"), "right") /\ CtrlShiftDoes("l", "right")
    BY DEF globalKeyMap, CtrlShiftDoes
  <2>9. globalKeyMap[21] = Bind(Key(CtrlShift, "x"), "to launcher") /\ CtrlShiftDoes("x", "to launcher")
    BY DEF globalKeyMap, CtrlShiftDoes
  <2>10. globalKeyMap[24] = Bind(Key(CtrlShift, "i"), "multi") /\ CtrlShiftDoes("i", "multi")
    BY DEF globalKeyMap, CtrlShiftDoes
  <2>11. i \in {13, 14, 15, 16, 17} => \E k, does: CtrlShiftDoes(k, does) /\ b = Bind(Key(CtrlShift, k), does)
    BY <1>1, <2>1, <2>2, <2>3, <2>4, <2>5
  <2>12. i \in {18, 19, 20, 21, 24} => \E k, does: CtrlShiftDoes(k, does) /\ b = Bind(Key(CtrlShift, k), does)
    BY <1>1, <2>6, <2>7, <2>8, <2>9, <2>10
  <2> QED
    BY <2>11, <2>12
<1>8. i \in {26, 27, 29, 30} => \E k, does: CodeDoes(k, does) /\ b = Bind(Code(CtrlShift, k), does)
  <2>1. globalKeyMap[26] = Bind(Code(CtrlShift, "Digit1"), "block 1") /\ CodeDoes("Digit1", "block 1")
    BY DEF globalKeyMap, CodeDoes
  <2>2. globalKeyMap[27] = Bind(Code(CtrlShift, "Numpad1"), "block 1") /\ CodeDoes("Numpad1", "block 1")
    BY DEF globalKeyMap, CodeDoes
  <2>3. globalKeyMap[29] = Bind(Code(CtrlShift, "Digit2"), "block 2") /\ CodeDoes("Digit2", "block 2")
    BY DEF globalKeyMap, CodeDoes
  <2>4. globalKeyMap[30] = Bind(Code(CtrlShift, "Numpad2"), "block 2") /\ CodeDoes("Numpad2", "block 2")
    BY DEF globalKeyMap, CodeDoes
  <2> QED
    BY <1>1, <1>3, <2>1, <2>2, <2>3, <2>4
<1> QED
  BY <1>1, <1>2, <1>4, <1>5, <1>6, <1>7, <1>8

LEMMA DoesNameKeys ==
  ASSUME NEW k, NEW does,
         PlainDoes(k, does) \/ CmdDoes(k, does) \/ ShiftCmdDoes(k, does) \/ CtrlShiftDoes(k, does)
  PROVE  Nameable(k)
BY UppersAre DEF Nameable, PlainDoes, CmdDoes, ShiftCmdDoes, CtrlShiftDoes

LEMMA CodeDoesNameCodes ==
  ASSUME NEW k, NEW does, CodeDoes(k, does)
  PROVE  k # ""
BY DEF CodeDoes

\* What a key that matches a binding is.
Fits(e, does) ==
  \/ e.mods = {} /\ PlainDoes(Normal(e.key), does)
  \/ e.mods = Named({"Cmd"}) /\ CmdDoes(Normal(e.key), does)
  \/ e.mods = Named({"Cmd", "Shift"}) /\ ShiftCmdDoes(Normal(e.key), does)
  \/ e.mods = CtrlShift /\ CtrlShiftDoes(Normal(e.key), does)
  \/ e.mods = CtrlShift /\ CodeDoes(e.code, does)

LEMMA MatchFits ==
  ASSUME platform \in {"darwin", "linux"}, NEW e, NEW b \in Matches(e, Range(globalKeyMap))
  PROVE  Fits(e, b.does)
<1>1. b \in Range(globalKeyMap) /\ checkKeyPressed(e, b.desc)
  BY DEF Matches
<1>2. Named({}) = {} /\ Named(CtrlShift) = CtrlShift
  BY ModsAre
<1>3. \A d, does: Bind(d, does).desc = d /\ Bind(d, does).does = does
  BY DEF Bind
<1>4. PICK k, does:
        \/ PlainDoes(k, does) /\ b = Bind(Key({}, k), does)
        \/ CmdDoes(k, does) /\ b = Bind(Key({"Cmd"}, k), does)
        \/ ShiftCmdDoes(k, does) /\ b = Bind(Key({"Cmd", "Shift"}, k), does)
        \/ CtrlShiftDoes(k, does) /\ b = Bind(Key(CtrlShift, k), does)
        \/ CodeDoes(k, does) /\ b = Bind(Code(CtrlShift, k), does)
  BY <1>1, BindingsAre
<1>5. b.does = does
  BY <1>3, <1>4
<1>6. CASE PlainDoes(k, does) /\ b = Bind(Key({}, k), does)
  BY <1>1, <1>2, <1>3, <1>5, <1>6, DoesNameKeys, KeyFits DEF Fits
<1>7. CASE CmdDoes(k, does) /\ b = Bind(Key({"Cmd"}, k), does)
  BY <1>1, <1>3, <1>5, <1>7, DoesNameKeys, KeyFits DEF Fits
<1>8. CASE ShiftCmdDoes(k, does) /\ b = Bind(Key({"Cmd", "Shift"}, k), does)
  BY <1>1, <1>3, <1>5, <1>8, DoesNameKeys, KeyFits DEF Fits
<1>9. CASE CtrlShiftDoes(k, does) /\ b = Bind(Key(CtrlShift, k), does)
  BY <1>1, <1>2, <1>3, <1>5, <1>9, DoesNameKeys, KeyFits DEF Fits
<1>10. CASE CodeDoes(k, does) /\ b = Bind(Code(CtrlShift, k), does)
  BY <1>1, <1>2, <1>3, <1>5, <1>10, CodeFits DEF Fits
<1> QED
  BY <1>4, <1>6, <1>7, <1>8, <1>9, <1>10

\* An event has a key or a code.
OneOf(e) == e.key = "" \/ e.code = ""

LEMMA NormalEmpty ==
  ASSUME NEW k
  PROVE  (Normal(k) = "") <=> (k = "")
<1>1. IsUpper(k) => k # "" /\ Lower(k) # ""
  BY UppersAre, LowersAre DEF IsUpper
<1> QED
  BY <1>1 DEF Normal

LEMMA FitsOne ==
  ASSUME platform \in {"darwin", "linux"}, NEW e, OneOf(e), NEW x, NEW y, Fits(e, x), Fits(e, y)
  PROVE  x = y
<1>1. PICK p \in {"Alt", "Meta"}: Named({"Cmd"}) = {"Cmd", p} /\ Named({"Cmd", "Shift"}) = {"Cmd", "Shift", p}
  BY ModsAre
<1>2. /\ {} # {"Cmd", p} /\ {} # {"Cmd", "Shift", p} /\ {} # CtrlShift
      /\ {"Cmd", p} # {"Cmd", "Shift", p} /\ {"Cmd", p} # CtrlShift /\ {"Cmd", "Shift", p} # CtrlShift
  BY DEF CtrlShift
<1> DEFINE k == Normal(e.key)
<1>3. CASE e.mods = {}
  <2>1. PlainDoes(k, x) /\ PlainDoes(k, y)
    BY <1>1, <1>2, <1>3 DEF Fits
  <2> QED
    BY <2>1 DEF PlainDoes
<1>4. CASE e.mods = {"Cmd", p}
  <2>1. CmdDoes(k, x) /\ CmdDoes(k, y)
    BY <1>1, <1>2, <1>4 DEF Fits
  <2> QED
    BY <2>1 DEF CmdDoes
<1>5. CASE e.mods = {"Cmd", "Shift", p}
  <2>1. ShiftCmdDoes(k, x) /\ ShiftCmdDoes(k, y)
    BY <1>1, <1>2, <1>5 DEF Fits
  <2> QED
    BY <2>1 DEF ShiftCmdDoes
<1>6. CASE e.mods = CtrlShift
  <2>1. \A z: Fits(e, z) => CtrlShiftDoes(k, z) \/ CodeDoes(e.code, z)
    BY <1>1, <1>2, <1>6 DEF Fits
  <2>2. CASE e.key = ""
    <3>1. k = ""
      BY <2>2, NormalEmpty
    <3>2. \A z: ~CtrlShiftDoes(k, z)
      BY <3>1, DoesNameKeys DEF Nameable
    <3>3. CodeDoes(e.code, x) /\ CodeDoes(e.code, y)
      BY <2>1, <3>2
    <3> QED
      BY <3>3 DEF CodeDoes
  <2>3. CASE e.code = ""
    <3>1. \A z: ~CodeDoes(e.code, z)
      BY <2>3, CodeDoesNameCodes
    <3>2. CtrlShiftDoes(k, x) /\ CtrlShiftDoes(k, y)
      BY <2>1, <3>1
    <3> QED
      BY <3>2 DEF CtrlShiftDoes
  <2> QED
    BY <2>2, <2>3 DEF OneOf
<1> QED
  BY <1>1, <1>3, <1>4, <1>5, <1>6 DEF Fits

LEMMA ChordFits ==
  ASSUME platform \in {"darwin", "linux"}, NEW e, OneOf(e), checkKeyPressed(e, ChordKey)
  PROVE  e.mods = CtrlShift /\ Normal(e.key) = "s" /\ \A x: ~Fits(e, x)
<1>1. Named(CtrlShift) = CtrlShift /\ Nameable("s")
  BY ModsAre, UppersAre DEF Nameable
<1>2. e.mods = CtrlShift /\ Normal(e.key) = "s"
  BY <1>1, KeyFits DEF ChordKey
<1>3. PICK p \in {"Alt", "Meta"}: Named({"Cmd"}) = {"Cmd", p} /\ Named({"Cmd", "Shift"}) = {"Cmd", "Shift", p}
  BY ModsAre
<1>4. {} # CtrlShift /\ {"Cmd", p} # CtrlShift /\ {"Cmd", "Shift", p} # CtrlShift
  BY DEF CtrlShift
<1>5. e.code = ""
  BY <1>2, NormalEmpty DEF OneOf
<1>6. \A x: ~CtrlShiftDoes("s", x) /\ ~CodeDoes("", x)
  BY DEF CtrlShiftDoes, CodeDoes
<1> QED
  BY <1>2, <1>3, <1>4, <1>5, <1>6 DEF Fits

PlainInput == Arrows \cup {"Backspace", "Delete", "Enter", "Space", "Tab", "Home", "End", "PageUp", "PageDown"}
CmdInput == {"a", "c", "v", "x", "z", "ArrowLeft", "ArrowRight", "Backspace", "Delete"}

LEMMA InputFits ==
  ASSUME platform \in {"darwin", "linux"}, NEW e, NEW d \in inputKeyMap, checkKeyPressed(e, d)
  PROVE  \/ e.mods = {} /\ Normal(e.key) \in PlainInput
         \/ e.mods = Named({"Cmd"}) /\ Normal(e.key) \in CmdInput
         \/ e.mods = {"Shift"}
         \/ e.mods = Named({"Cmd", "Shift"}) /\ Normal(e.key) \in Arrows \cup {"z"}
<1>1. \/ \E k \in PlainInput: d = Key({}, k)
      \/ \E k \in CmdInput: d = Key({"Cmd"}, k)
      \/ \E k \in Arrows \cup {"Home", "End"}: d = Key({"Shift"}, k)
      \/ \E k \in Arrows \cup {"z"}: d = Key({"Cmd", "Shift"}, k)
  BY DEF inputKeyMap, PlainInput, CmdInput
<1>2. Named({}) = {} /\ Named({"Shift"}) = {"Shift"}
  BY ModsAre
<1>3. \A k \in PlainInput \cup CmdInput \cup Arrows \cup {"Home", "End", "z"}: Nameable(k)
  BY UppersAre DEF Nameable, PlainInput, CmdInput, Arrows
<1>4. ASSUME NEW k \in PlainInput, d = Key({}, k) PROVE e.mods = {} /\ Normal(e.key) \in PlainInput
  BY <1>2, <1>3, <1>4, KeyFits
<1>5. ASSUME NEW k \in CmdInput, d = Key({"Cmd"}, k) PROVE e.mods = Named({"Cmd"}) /\ Normal(e.key) \in CmdInput
  BY <1>3, <1>5, KeyFits
<1>6. ASSUME NEW k \in Arrows \cup {"Home", "End"}, d = Key({"Shift"}, k) PROVE e.mods = {"Shift"}
  BY <1>2, <1>3, <1>6, KeyFits
<1>7. ASSUME NEW k \in Arrows \cup {"z"}, d = Key({"Cmd", "Shift"}, k)
      PROVE  e.mods = Named({"Cmd", "Shift"}) /\ Normal(e.key) \in Arrows \cup {"z"}
  BY <1>3, <1>7, KeyFits
<1> QED
  BY <1>1, <1>4, <1>5, <1>6, <1>7

LEMMA BoundNoInput ==
  ASSUME platform \in {"darwin", "linux"}, NEW e, OneOf(e), (\E x: Fits(e, x)) \/ checkKeyPressed(e, ChordKey)
  PROVE  ~isInputEvent(e)
<1>1. PICK p \in {"Alt", "Meta"}: Named({"Cmd"}) = {"Cmd", p} /\ Named({"Cmd", "Shift"}) = {"Cmd", "Shift", p}
  BY ModsAre
<1>2. /\ {} # {"Cmd", p} /\ {} # {"Cmd", "Shift", p} /\ {} # CtrlShift
      /\ {"Cmd", p} # {"Cmd", "Shift", p} /\ {"Cmd", p} # CtrlShift /\ {"Cmd", "Shift", p} # CtrlShift
      /\ {"Shift"} # {} /\ {"Shift"} # {"Cmd", p} /\ {"Shift"} # {"Cmd", "Shift", p} /\ {"Shift"} # CtrlShift
  BY DEF CtrlShift
<1> DEFINE k == Normal(e.key)
<1>3. \/ e.mods = {} /\ \E x: PlainDoes(k, x)
      \/ e.mods = {"Cmd", p} /\ \E x: CmdDoes(k, x)
      \/ e.mods = {"Cmd", "Shift", p} /\ \E x: ShiftCmdDoes(k, x)
      \/ e.mods = CtrlShift
  BY <1>1, ChordFits DEF Fits
<1>4. ~isCharacterKeyEvent(e)
  <2>1. CASE e.mods = {} /\ \E x: PlainDoes(k, x)
    <3>1. k \in {"F2", "Escape"}
      BY <2>1 DEF PlainDoes
    <3>2. ~IsUpper(e.key)
      BY <3>1, LowersAre DEF Normal
    <3>3. e.key \in {"F2", "Escape"}
      BY <3>1, <3>2 DEF Normal
    <3>4. DOMAIN UpperOf = {"w", "v", "c", "i", "x", "d", "n", "s", "h", "q"}
      BY DEF UpperOf
    <3>5. e.key \notin Chars
      BY <3>3, <3>4, UppersAre DEF Chars
    <3> QED
      BY <3>5 DEF isCharacterKeyEvent
  <2>2. CASE e.mods \in {{"Cmd", p}, {"Cmd", "Shift", p}, CtrlShift}
    BY <2>2 DEF isCharacterKeyEvent, CtrlShift
  <2> QED
    BY <1>3, <2>1, <2>2
<1>5. ASSUME NEW d \in inputKeyMap, checkKeyPressed(e, d) PROVE FALSE
  <2>1. \/ e.mods = {} /\ k \in PlainInput
        \/ e.mods = {"Cmd", p} /\ k \in CmdInput
        \/ e.mods = {"Shift"}
        \/ e.mods = {"Cmd", "Shift", p} /\ k \in Arrows \cup {"z"}
    BY <1>1, <1>5, InputFits
  <2>2. \A x: ~(k \in PlainInput /\ PlainDoes(k, x))
    BY DEF PlainInput, PlainDoes, Arrows
  <2>3. \A x: ~(k \in CmdInput /\ CmdDoes(k, x))
    BY DEF CmdInput, CmdDoes
  <2>4. \A x: ~(k \in Arrows \cup {"z"} /\ ShiftCmdDoes(k, x))
    BY DEF Arrows, ShiftCmdDoes
  <2> HIDE DEF k
  <2> QED
    BY <1>2, <1>3, <2>1, <2>2, <2>3, <2>4
<1> QED
  BY <1>4, <1>5 DEF isInputEvent

LEMMA TermKeyFits ==
  ASSUME platform \in {"darwin", "linux"}, NEW e, NEW b \in Matches(e, TermKeys), b.does # "edit"
  PROVE  \/ e.mods = {"Shift"} \/ e.mods = {"Ctrl"}
         \/ e.mods = Named({"Cmd"}) /\ Normal(e.key) \in {"End", "Home", "k"}
         \/ e.mods = CtrlShift /\ Normal(e.key) \in {"v", "c"}
<1>1. b \in TermKeys /\ checkKeyPressed(e, b.desc)
  BY DEF Matches
<1>2. \A d, does: Bind(d, does).desc = d /\ Bind(d, does).does = does
  BY DEF Bind
<1>3. \/ \E k \in {"End", "Home", "PageDown", "PageUp"}: b = Bind(Key({"Shift"}, k), "scroll")
      \/ \E k \in {"End", "Home"}: b = Bind(Key({"Cmd"}, k), "scroll")
      \/ \E k \in {"ArrowLeft", "ArrowRight"}: b = Bind(Key({"Cmd"}, k), "edit")
      \/ b = Bind(Key({"Ctrl"}, "v"), "paste")
      \/ b = Bind(Key({"Shift"}, "Enter"), "newline") \/ b = Bind(Key(CtrlShift, "v"), "paste")
      \/ b = Bind(Key(CtrlShift, "c"), "copy") \/ b = Bind(Key({"Cmd"}, "k"), "clear")
  BY <1>1 DEF TermKeys
<1>4. \/ \E k \in {"End", "Home", "PageDown", "PageUp", "Enter"}: b.desc = Key({"Shift"}, k)
      \/ \E k \in {"End", "Home", "k"}: b.desc = Key({"Cmd"}, k)
      \/ b.desc = Key({"Ctrl"}, "v")
      \/ \E k \in {"v", "c"}: b.desc = Key(CtrlShift, k)
  BY <1>2, <1>3
<1>5. \A k \in {"End", "Home", "PageDown", "PageUp", "Enter", "k", "v", "c"}: Nameable(k)
  BY UppersAre DEF Nameable
<1>6. Named({"Shift"}) = {"Shift"} /\ Named({"Ctrl"}) = {"Ctrl"} /\ Named(CtrlShift) = CtrlShift
  BY ModsAre
<1> QED
  BY <1>1, <1>4, <1>5, <1>6, KeyFits

LEMMA BoundNotHidden ==
  ASSUME platform \in {"darwin", "linux"}, NEW e, OneOf(e), (\E x: Fits(e, x)) \/ checkKeyPressed(e, ChordKey)
  PROVE  Matches(e, TermKeys) \subseteq {b \in TermKeys: b.does = "edit"}
<1> SUFFICES ASSUME NEW b \in Matches(e, TermKeys), b.does # "edit" PROVE FALSE
  BY DEF Matches
<1>1. PICK p \in {"Alt", "Meta"}: Named({"Cmd"}) = {"Cmd", p} /\ Named({"Cmd", "Shift"}) = {"Cmd", "Shift", p}
  BY ModsAre
<1>2. /\ {} # {"Cmd", p} /\ {} # {"Cmd", "Shift", p} /\ {} # CtrlShift
      /\ {"Cmd", p} # {"Cmd", "Shift", p} /\ {"Cmd", p} # CtrlShift /\ {"Cmd", "Shift", p} # CtrlShift
      /\ {"Shift"} # {} /\ {"Shift"} # {"Cmd", p} /\ {"Shift"} # {"Cmd", "Shift", p} /\ {"Shift"} # CtrlShift
      /\ {"Ctrl"} # {} /\ {"Ctrl"} # {"Cmd", p} /\ {"Ctrl"} # {"Cmd", "Shift", p} /\ {"Ctrl"} # CtrlShift
  BY DEF CtrlShift
<1> DEFINE k == Normal(e.key)
<1>3. \/ e.mods = {"Shift"} \/ e.mods = {"Ctrl"}
      \/ e.mods = {"Cmd", p} /\ k \in {"End", "Home", "k"}
      \/ e.mods = CtrlShift /\ k \in {"v", "c"}
  BY <1>1, TermKeyFits
<1>4. \/ e.mods = {}
      \/ e.mods = {"Cmd", p} /\ \E x: CmdDoes(k, x)
      \/ e.mods = {"Cmd", "Shift", p}
      \/ e.mods = CtrlShift /\ \E x: CtrlShiftDoes(k, x)
      \/ e.mods = CtrlShift /\ \E x: CodeDoes(e.code, x)
      \/ e.mods = CtrlShift /\ k = "s"
  BY <1>1, ChordFits DEF Fits
<1>5. (\E x: CodeDoes(e.code, x)) => k = ""
  BY CodeDoesNameCodes, NormalEmpty DEF OneOf
<1>6. k \in {"End", "Home", "k"} => \A x: ~CmdDoes(k, x)
  BY DEF CmdDoes
<1>7. k \in {"v", "c"} => \A x: ~CtrlShiftDoes(k, x)
  BY DEF CtrlShiftDoes
<1>8. k \in {"v", "c"} => k # "" /\ k # "s"
  OBVIOUS
<1> HIDE DEF k
<1> QED
  BY <1>2, <1>3, <1>4, <1>5, <1>6, <1>7, <1>8

LEMMA MeansOne ==
  ASSUME platform \in {"darwin", "linux"}, OneOf(pressed)
  PROVE  KeyMeansOne
<1> DEFINE matched == Matches(pressed, Range(globalKeyMap))
           isChord == checkKeyPressed(pressed, ChordKey)
           means == {b.does: b \in matched}
<1> SUFFICES ASSUME matched # {} \/ isChord
             PROVE  /\ Cardinality(means) + (IF isChord THEN 1 ELSE 0) = 1
                    /\ ~isInputEvent(pressed)
                    /\ Matches(pressed, TermKeys) \subseteq {b \in TermKeys: b.does = "edit"}
  BY DEF KeyMeansOne
<1>1. \A b \in matched: Fits(pressed, b.does)
  BY MatchFits
<1>2. (\E x: Fits(pressed, x)) \/ isChord
  BY <1>1
<1>3. ~isInputEvent(pressed)
  BY <1>2, BoundNoInput
<1>4. Matches(pressed, TermKeys) \subseteq {b \in TermKeys: b.does = "edit"}
  BY <1>2, BoundNotHidden
<1>5. CASE isChord
  <2>1. means = {}
    BY <1>1, <1>5, ChordFits
  <2>2. Cardinality(means) = 0
    BY <2>1, FS_EmptySet
  <2> QED
    BY <1>3, <1>4, <1>5, <2>2
<1>6. CASE ~isChord
  <2>1. PICK b \in matched: TRUE
    BY <1>6
  <2>2. \A c \in matched: c.does = b.does
    BY <1>1, FitsOne
  <2>3. means = {b.does}
    BY <2>1, <2>2
  <2>4. Cardinality(means) = 1
    BY <2>3, FS_Singleton
  <2> QED
    BY <1>3, <1>4, <1>6, <2>4
<1> QED
  BY <1>5, <1>6

\* Closing blocks takes the tab with the last of them; once it is closed nothing happens
\* any more.
TabHolds ==
  /\ leaves \subseteq AppBlocks
  /\ tabClosed \in BOOLEAN /\ hasty \in BOOLEAN
  /\ ~hasty => leaves # {} \/ tabClosed
  /\ ~hasty /\ tabClosed /\ did = "close" => Cardinality(leaves) <= 1
AppInv == platform \in {"darwin", "linux"} /\ OneOf(pressed) /\ TabHolds

LEMMA SameLayout ==
  ASSUME AppInv, leaves' = leaves, hasty' = hasty, tabClosed' = tabClosed, ~tabClosed
  PROVE  TabHolds'
BY DEF AppInv, TabHolds

\* What is left of two blocks or more when one is closed.
LEMMA OneLess ==
  ASSUME NEW S, S \subseteq AppBlocks, NEW x
  PROVE  Cardinality(S) \in Nat /\ (S \ {x} = {} => Cardinality(S) <= 1) /\ (x \in S /\ Cardinality(S) # 1 => S \ {x} # {})
<1>1. IsFiniteSet(S)
  BY AppBlocksAssumption, FS_Subset
<1>2. Cardinality(S) \in Nat
  BY <1>1, FS_CardinalityType
<1>3. CASE S \ {x} = {}
  <2>1. S = {} \/ S = {x}
    BY <1>3
  <2>2. Cardinality(S) = IF S = {} THEN 0 ELSE 1
    BY <2>1, FS_EmptySet, FS_Singleton
  <2> QED
    BY <1>2, <1>3, <2>2
<1> QED
  BY <1>2, <1>3

LEMMA ClosesRight ==
  ASSUME AppInv, ~tabClosed, genericClose, did' = "close"
  PROVE  TabHolds'
<1>1. hasty' = (hasty \/ tabBlocks # leaves) /\ leaves \subseteq AppBlocks /\ hasty \in BOOLEAN
  BY DEF genericClose, AppInv, TabHolds
<1>2. CASE Cardinality(tabBlocks) <= 1
  <2>1. simpleCloseStaticTab
    BY <1>2 DEF genericClose
  <2>2. tabClosed' \in BOOLEAN /\ leaves' = leaves
    BY <2>1 DEF simpleCloseStaticTab, layoutVars2
  <2> QED
    BY <1>1, <1>2, <2>2 DEF AppInv, TabHolds
<1>3. CASE ~(Cardinality(tabBlocks) <= 1) /\ focused # {}
  <2>1. PICK b \in focused: closeNode(b)
    BY <1>3 DEF genericClose
  <2>2. leaves' = leaves \ {b} /\ tabClosed' = tabClosed
    BY <2>1 DEF closeNode
  <2>3. ~hasty' => leaves \ {b} # {}
    BY <1>1, <1>3, OneLess
  <2> QED
    BY <1>1, <2>2, <2>3 DEF AppInv, TabHolds
<1>4. CASE ~(Cardinality(tabBlocks) <= 1) /\ focused = {}
  <2>1. leaves' = leaves /\ tabClosed' = tabClosed
    BY <1>4 DEF genericClose, layoutVars2
  <2> QED
    BY <1>1, <2>1 DEF AppInv, TabHolds
<1> QED
  BY <1>2, <1>3, <1>4

LEMMA BlockCloses ==
  ASSUME AppInv, ~tabClosed, NEW b, uxCloseBlock(b), did' = "close"
  PROVE  TabHolds'
<1>1. hasty' = (hasty \/ tabBlocks # leaves) /\ leaves \subseteq AppBlocks /\ hasty \in BOOLEAN /\ b \in leaves
  BY DEF uxCloseBlock, AppInv, TabHolds
<1>2. CASE Cardinality(tabBlocks) = 1
  <2>1. tabClosed' \in BOOLEAN /\ leaves' = leaves
    BY <1>2 DEF uxCloseBlock, simpleCloseStaticTab, layoutVars2
  <2> QED
    BY <1>1, <1>2, <2>1 DEF AppInv, TabHolds
<1>3. CASE Cardinality(tabBlocks) # 1
  <2>1. leaves' = leaves \ {b} /\ tabClosed' = tabClosed
    BY <1>3 DEF uxCloseBlock, closeNode
  <2>2. ~hasty' => leaves \ {b} # {}
    BY <1>1, <1>3, OneLess
  <2> QED
    BY <1>1, <2>1, <2>2 DEF AppInv, TabHolds
<1> QED
  BY <1>2, <1>3

LEMMA BindingRuns ==
  ASSUME AppInv, ~tabClosed, NEW does, RunBinding(does), did' = does
  PROVE  TabHolds'
<1>1. CASE does = "close"
  <2>1. genericClose
    BY <1>1 DEF RunBinding
  <2> QED
    BY <1>1, <2>1, ClosesRight
<1>2. CASE does = "close tab"
  <2>1. simpleCloseStaticTab /\ hasty' = hasty
    BY <1>2 DEF RunBinding
  <2> QED
    BY <1>2, <2>1 DEF simpleCloseStaticTab, layoutVars2, AppInv, TabHolds
<1>3. CASE does \notin {"close", "close tab"}
  <2>1. leaves' = leaves /\ hasty' = hasty /\ tabClosed' = tabClosed
    BY <1>3 DEF RunBinding, layoutVars2, Elsewhere
  <2> QED
    BY <2>1, SameLayout
<1> QED
  BY <1>1, <1>2, <1>3

LEMMA KeyGoesDown ==
  ASSUME AppInv, NEW mods, NEW key, NEW code, key = "" \/ code = "", NEW at, KeyDown(mods, key, code, at)
  PROVE  AppInv'
<1> DEFINE e == adaptFromReactOrNativeKeyEvent(mods, key, code)
<1>1. ~tabClosed /\ platform' = platform /\ OneOf(pressed)'
  BY DEF KeyDown, OneOf
<1>2. TabHolds'
  <2>1. CASE Elsewhere
    BY <1>1, <2>1, SameLayout DEF Elsewhere, layoutVars2
  <2>2. CASE ~Elsewhere
    <3>1. AppTakes(e, at)
      BY <2>2 DEF KeyDown
    <3>2. did' = checkKeyMap(e) /\ RunBinding(checkKeyMap(e))
      BY <2>2, <3>1 DEF AppTakes
    <3> QED
      BY <1>1, <3>2, BindingRuns
  <2> QED
    BY <2>1, <2>2
<1> QED
  BY <1>1, <1>2 DEF AppInv, TabHolds

LEMMA PageGoesOn ==
  ASSUME AppInv, NEW b \in AppBlocks,
         ClickClose(b) \/ DeleteArrives(b) \/ InsertArrives(b) \/ ModalOpens \/ TabArrives
  PROVE  AppInv'
<1>1. CASE ClickClose(b)
  <2>1. ~tabClosed /\ uxCloseBlock(b) /\ did' = "close" /\ platform' = platform /\ pressed' = pressed
    BY <1>1 DEF ClickClose
  <2> QED
    BY <2>1, BlockCloses DEF AppInv, TabHolds
<1>2. CASE InsertArrives(b)
  BY <1>2 DEF InsertArrives, Still, AppInv, TabHolds
<1>3. CASE DeleteArrives(b) \/ ModalOpens \/ TabArrives
  <2>1. /\ ~tabClosed /\ leaves' = leaves /\ hasty' = hasty /\ tabClosed' = tabClosed
        /\ platform' = platform /\ pressed' = pressed
    BY <1>3 DEF DeleteArrives, ModalOpens, TabArrives, Still, layoutVars2
  <2> QED
    BY <2>1, SameLayout DEF AppInv, TabHolds
<1> QED
  BY <1>1, <1>2, <1>3

LEMMA AppSteps ==
  ASSUME AppInv, AppNext
  PROVE  AppInv'
<1>1. ASSUME NEW mods \in HeldSets, NEW at, NEW key, KeyDown(mods, key, "", at) PROVE AppInv'
  BY <1>1, KeyGoesDown
<1>2. ASSUME NEW mods \in HeldSets, NEW at, NEW code, KeyDown(mods, "", code, at) PROVE AppInv'
  BY <1>2, KeyGoesDown
<1>3. ASSUME NEW mods, NEW key, NEW at, KeyDown(mods, key, "", at) PROVE AppInv'
  BY <1>3, KeyGoesDown
<1>4. ASSUME NEW b \in AppBlocks, ClickClose(b) \/ DeleteArrives(b) \/ InsertArrives(b) PROVE AppInv'
  BY <1>4, PageGoesOn
<1>5. ASSUME ModalOpens \/ TabArrives PROVE AppInv'
  <2>1. /\ ~tabClosed /\ leaves' = leaves /\ hasty' = hasty /\ tabClosed' = tabClosed
        /\ platform' = platform /\ pressed' = pressed
    BY <1>5 DEF ModalOpens, TabArrives, Still, layoutVars2
  <2> QED
    BY <2>1, SameLayout DEF AppInv, TabHolds
<1> QED
  BY <1>1, <1>2, <1>3, <1>4, <1>5 DEF AppNext

\* A key means one thing at most, on either platform, whatever is held with it, and none
\* with which text is entered; and closing blocks by key or click takes the tab with the
\* last of them and never before, unless one was closed while the page's copy of the tab
\* was not what it shows.
THEOREM AppKeysAlwaysHold == AppSpec => []AppKeysHold
<1>1. AppInit => AppInv
  <2> SUFFICES ASSUME AppInit PROVE AppInv
    OBVIOUS
  <2>1. leaves # {}
    BY FS_EmptySet DEF AppInit
  <2> QED
    BY <2>1 DEF AppInit, AppInv, OneOf, NoKey, TabHolds
<1>2. AppInv /\ [AppNext]_appVars => AppInv'
  <2>1. ASSUME AppInv, AppNext PROVE AppInv'
    BY <2>1, AppSteps
  <2>2. ASSUME AppInv, UNCHANGED appVars PROVE AppInv'
    BY <2>2 DEF AppInv, OneOf, appVars, TabHolds
  <2> QED
    BY <2>1, <2>2
<1>3. AppInv => AppKeysHold
  <2> SUFFICES ASSUME AppInv PROVE AppKeysHold
    OBVIOUS
  <2>1. KeyMeansOne
    BY MeansOne DEF AppInv
  <2>2. TabGoesWithLastBlock
    BY DEF AppInv, TabGoesWithLastBlock, TabHolds
  <2> QED
    BY <2>1, <2>2 DEF AppKeysHold
<1> QED
  BY <1>1, <1>2, <1>3, PTL DEF AppSpec

=============================================================================
