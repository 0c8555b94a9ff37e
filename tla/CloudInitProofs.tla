-------------------------- MODULE CloudInitProofs --------------------------
(***************************************************************************)
(* The sections of the user data arrive on the node, for any texts and     *)
(* sections of any length.                                                 *)
(*                                                                         *)
(* The invariant says that the document is the one of the spec, and the    *)
(* node what is read from it; what remains is that reading undoes writing. *)
(* For write_files that means: the lines of many files, one behind the     *)
(* other, are read as as many items; the keys of an item are found where   *)
(* they were written; and a block loses as much as it was indented by.     *)
(***************************************************************************)
EXTENDS CloudInit, SequenceLemmas

-----------------------------------------------------------------------------
(* Reading a document into items, line by line *)

\* Reading a line gives items again.
LEMMA AddLineType ==
  ASSUME NEW L, NEW items \in Seq(Seq(L)), NEW line \in L
  PROVE  AddLine(items, line) \in Seq(Seq(L))
<1>1. <<line>> \in Seq(L)
  OBVIOUS
<1>2. CASE line.key = "path"
  BY <1>1, <1>2 DEF AddLine
<1>3. CASE line.key # "path"
  <2>1. CASE items = <<>>
    <3>1. [items EXCEPT ![Len(items)] = Append(@, line)] = items
      BY <2>1
    <3>2. QED
      BY <1>3, <3>1 DEF AddLine
  <2>2. CASE items # <<>>
    <3>1. Len(items) \in 1 .. Len(items) /\ items[Len(items)] \in Seq(L)
      BY <2>2
    <3>2. Append(items[Len(items)], line) \in Seq(L)
      BY <3>1
    <3>3. QED
      BY <1>3, <3>1, <3>2, ExceptSeq DEF AddLine
  <2>3. QED
    BY <2>1, <2>2
<1>4. QED
  BY <1>2, <1>3

\* Items as a function of the number of lines read
LEMMA ItemsFunction ==
  ASSUME NEW L, NEW lines \in Seq(L)
  PROVE  \E f \in [0 .. Len(lines) -> Seq(Seq(L))] :
           /\ Items(lines) = f[Len(lines)]
           /\ f[0] = <<>>
           /\ \A k \in 1 .. Len(lines) : f[k] = AddLine(f[k - 1], lines[k])
<1> DEFINE N == Len(lines)
           V == Seq(Seq(L))
           base == <<>>
           G == [k \in 1 .. N |-> [v \in V |-> AddLine(v, lines[k])]]
           Reads(f) == f = [k \in 0 .. N |-> IF k = 0 THEN <<>>
                                             ELSE AddLine(f[k - 1], lines[k])]
<1>1. N \in Nat /\ base \in V /\ \A k \in 1 .. N : lines[k] \in L
  OBVIOUS
<1>2. G \in [1 .. N -> [V -> V]]
  <2> HIDE DEF V, N
  <2> SUFFICES ASSUME NEW k \in 1 .. N, NEW v \in V PROVE AddLine(v, lines[k]) \in V
    OBVIOUS
  <2>1. QED
    BY <1>1, AddLineType DEF V
<1>3. PICK f \in [0 .. N -> V] :
        f[0] = base /\ \A k \in 1 .. N : f[k] = G[k][f[k - 1]]
  <2> HIDE DEF G, V, N, base
  <2>1. HasIterates(V, base, N, G)
    BY <1>1, <1>2, Recursion
  <2>2. QED
    BY <2>1 DEF HasIterates
<1> HIDE DEF V
<1>4. ASSUME NEW k \in 1 .. N PROVE f[k] = AddLine(f[k - 1], lines[k])
  <2>1. k - 1 \in 0 .. N
    BY <1>1
  <2>2. f[k - 1] \in V
    BY <2>1
  <2>3. QED
    BY <1>3, <2>2
<1>5. Reads(f)
  <2>1. f = [k \in 0 .. N |-> f[k]]
    OBVIOUS
  <2>2. \A k \in 0 .. N : f[k] = IF k = 0 THEN <<>> ELSE AddLine(f[k - 1], lines[k])
    BY <1>1, <1>3, <1>4
  <2>3. QED
    BY <2>1, <2>2
<1> DEFINE g == CHOOSE g : Reads(g)
<1>6. Items(lines) = g[N]
  BY DEF Items
<1>7. Reads(g)
  <2> HIDE DEF Reads
  <2>1. QED
    BY <1>5
<1> HIDE DEF g
<1>8. g[0] = <<>> /\ \A k \in 1 .. N : g[k] = AddLine(g[k - 1], lines[k])
  BY <1>1, <1>7
<1>9. \A k \in 0 .. N : g[k] = f[k]
  <2> DEFINE S == {k \in 0 .. N : g[k] = f[k]}
  <2>1. 0 \in S /\ \A k \in 1 .. N : k - 1 \in S => k \in S
    BY <1>1, <1>3, <1>4, <1>8
  <2> HIDE DEF S
  <2>2. 0 .. N \subseteq S
    BY <1>1, <2>1, InductionUpTo
  <2>3. QED
    BY <2>2 DEF S
<1>10. QED
  <2>1. Items(lines) = f[N]
    BY <1>1, <1>6, <1>9
  <2>2. QED
    BY <1>3, <1>4, <2>1 DEF V

\* A line more is read by one more step.
LEMMA ItemsAppend ==
  ASSUME NEW L, NEW lines \in Seq(L), NEW line \in L
  PROVE  /\ Items(lines) \in Seq(Seq(L))
         /\ Items(Append(lines, line)) = AddLine(Items(lines), line)
<1> DEFINE N == Len(lines)
           more == Append(lines, line)
<1>1. /\ more \in Seq(L)
      /\ Len(more) = N + 1 /\ N \in Nat
      /\ more[N + 1] = line
      /\ \A k \in 1 .. N : more[k] = lines[k]
  OBVIOUS
<1>2. PICK f \in [0 .. N -> Seq(Seq(L))] :
        /\ Items(lines) = f[N]
        /\ f[0] = <<>>
        /\ \A k \in 1 .. N : f[k] = AddLine(f[k - 1], lines[k])
  BY ItemsFunction
<1> HIDE DEF more, N
<1>3. PICK g \in [0 .. Len(more) -> Seq(Seq(L))] :
        /\ Items(more) = g[Len(more)]
        /\ g[0] = <<>>
        /\ \A k \in 1 .. Len(more) : g[k] = AddLine(g[k - 1], more[k])
  BY <1>1, ItemsFunction
<1>4. \A k \in 0 .. N : g[k] = f[k]
  <2> DEFINE S == {k \in 0 .. N : g[k] = f[k]}
  <2>1. 0 \in S
    BY <1>1, <1>2, <1>3
  <2>2. ASSUME NEW k \in 1 .. N, k - 1 \in S PROVE k \in S
    <3>1. k \in 1 .. Len(more) /\ more[k] = lines[k]
      <4>1. N \in Nat /\ Len(more) = N + 1
        BY <1>1
      <4>2. k \in 1 .. Len(more)
        BY <4>1
      <4>3. more[k] = lines[k]
        BY <1>1, Zenon
      <4>4. QED
        BY <4>2, <4>3
    <3>2. g[k] = AddLine(g[k - 1], lines[k]) /\ f[k] = AddLine(f[k - 1], lines[k])
      BY <1>2, <1>3, <3>1
    <3>3. QED
      BY <1>1, <2>2, <3>2
  <2> HIDE DEF S
  <2>3. 0 .. N \subseteq S
    BY <1>1, <2>1, <2>2, InductionUpTo
  <2>4. QED
    BY <2>3 DEF S
<1>5. g[N + 1] = AddLine(f[N], line)
  <2>1. N + 1 \in 1 .. Len(more) /\ (N + 1) - 1 = N /\ N \in 0 .. N
    BY <1>1
  <2>2. QED
    BY <1>1, <1>3, <1>4, <2>1
<1>6. Items(lines) \in Seq(Seq(L))
  BY <1>1, <1>2
<1>7. QED
  BY <1>1, <1>2, <1>3, <1>5, <1>6 DEF more

\* No lines are no items.
LEMMA ItemsNone == Items(<<>>) = <<>>
<1> DEFINE none == <<>>
<1>1. none \in Seq({}) /\ Len(none) = 0
  OBVIOUS
<1> HIDE DEF none
<1>2. PICK f \in [0 .. Len(none) -> Seq(Seq({}))] :
        Items(none) = f[Len(none)] /\ f[0] = <<>>
  BY <1>1, ItemsFunction
<1>3. QED
  BY <1>1, <1>2 DEF none

\* A line that is no path goes to the last item.
LEMMA AddLineInside ==
  ASSUME NEW L, NEW items \in Seq(Seq(L)), NEW item \in Seq(L), NEW line \in L,
         line.key # "path"
  PROVE  AddLine(Append(items, item), line) = Append(items, Append(item, line))
<1>1. AddLine(Append(items, item), line) = LastExtended(Append(items, item), line)
  BY DEF AddLine, LastExtended
<1>2. QED
  BY <1>1, LastExtendedIs

\* Behind any lines, a line that is a path and others that are not are read
\* as one more item.
LEMMA ItemsOneMore ==
  ASSUME NEW L, NEW lines \in Seq(L), NEW item \in Seq(L), item # <<>>,
         \A k \in DOMAIN item : item[k].key = "path" <=> k = 1
  PROVE  Items(lines \o item) = Append(Items(lines), item)
<1> DEFINE N == Len(item)
           before == Items(lines)
           S == {k \in 0 .. N : k # 0 =>
                   Items(lines \o SubSeq(item, 1, k))
                     = Append(before, SubSeq(item, 1, k))}
<1>1. N \in Nat /\ N # 0 /\ before \in Seq(Seq(L))
  <2>1. item[1] \in L
    OBVIOUS
  <2>2. QED
    BY <2>1, ItemsAppend
<1>2. 0 \in S
  BY <1>1
<1>3. ASSUME NEW k \in 1 .. N, k - 1 \in S PROVE k \in S
  <2> DEFINE head == SubSeq(item, 1, k - 1)
  <2>1. /\ SubSeq(item, 1, k) = Append(head, item[k])
        /\ head \in Seq(L) /\ item[k] \in L
        /\ Len(head) = k - 1
    BY SubSeqNext
  <2> HIDE DEF head
  <2>2. lines \o Append(head, item[k]) = Append(lines \o head, item[k])
        /\ lines \o head \in Seq(L)
    BY <2>1, ConcatAppend
  <2>3. Items(lines \o Append(head, item[k])) = AddLine(Items(lines \o head), item[k])
    BY <2>1, <2>2, ItemsAppend
  <2>4. CASE k = 1
    <3>1. head = <<>>
      BY <2>1, <2>4
    <3>2. lines \o head = lines /\ Append(head, item[k]) = <<item[k]>>
      BY <3>1
    <3>3. AddLine(before, item[k]) = Append(before, <<item[k]>>)
      BY <1>1, <2>4 DEF AddLine
    <3>4. QED
      <4>1. Items(lines \o SubSeq(item, 1, k)) = Append(before, SubSeq(item, 1, k))
        BY <2>1, <2>3, <3>2, <3>3, Zenon
      <4>2. QED
        BY <1>1, <4>1
  <2>5. CASE k # 1
    <3>1. k - 1 # 0 /\ k \in DOMAIN item
      BY <1>1, <2>5
    <3>2. Items(lines \o head) = Append(before, head)
      BY <1>3, <3>1 DEF head
    <3>3. item[k].key # "path"
      BY <2>5, <3>1
    <3>4. AddLine(Append(before, head), item[k])
            = Append(before, Append(head, item[k]))
      <4> HIDE DEF before
      <4>1. QED
        BY <1>1, <2>1, <3>3, AddLineInside
    <3>5. QED
      <4>1. Items(lines \o SubSeq(item, 1, k)) = Append(before, SubSeq(item, 1, k))
        BY <2>1, <2>3, <3>2, <3>4, Zenon
      <4>2. QED
        BY <1>1, <4>1
  <2>6. QED
    BY <2>4, <2>5
<1>4. N \in S
  <2> HIDE DEF S
  <2>1. 0 .. N \subseteq S
    BY <1>1, <1>2, <1>3, InductionUpTo
  <2>2. QED
    BY <1>1, <2>1
<1>5. SubSeq(item, 1, N) = item
  OBVIOUS
<1>6. QED
  BY <1>1, <1>4, <1>5

-----------------------------------------------------------------------------
(* What the template makes of a file *)

\* Files as the document has them, the operator's own among them
Strings == Text \cup {"", "0755", "/tmp/kubeadm-node.yaml", "root:root", "0640",
                      "---", "|"}

ContentText == [indent : Nat, word : Strings]

AnyFile == [path : Strings, owner : Strings, permissions : Strings,
            content : Seq(ContentText)]

Keys == {"path", "owner", "permissions", "content", ""}
Styles == {"plain", "quoted", "item", "block"}

DocumentLine ==
  [indent : Nat, key : Keys, value : [style : Styles, text : Strings]]

PathLine(f) == Line(0, "path", Plain(f.path))
OwnerLine(f) == Line(4, "owner", Plain(f.owner))
PermissionsLine(f) == Line(4, "permissions", Quoted(f.permissions))
ContentLine == Line(4, "content", Plain("|"))

\* The lines in front of the content
Header(f) ==
  <<PathLine(f)>> \o Given(f.owner, OwnerLine(f))
    \o Given(f.permissions, PermissionsLine(f)) \o <<ContentLine>>

HeaderLen(f) == Len(Header(f))

IndentedLine(l) == Line(l.indent + 6, "", Scalar("block", l.word))

\* Where owner and permissions stand
OwnerAt(f) == IF f.owner = "" THEN 0 ELSE 2
PermissionsAt(f) ==
  IF f.permissions = "" THEN 0 ELSE IF f.owner = "" THEN 2 ELSE 3

\* The lines of a document
LEMMA LineTyped ==
  ASSUME NEW indent \in Nat, NEW key \in Keys, NEW style \in Styles,
         NEW text \in Strings
  PROVE  Line(indent, key, Scalar(style, text)) \in DocumentLine
BY DEF DocumentLine, Line, Scalar

\* The lines of a file are lines of a document.
LEMMA LinesTyped ==
  ASSUME NEW f \in AnyFile
  PROVE  /\ {PathLine(f), OwnerLine(f), PermissionsLine(f), ContentLine}
               \subseteq DocumentLine
         /\ Indent(6, f.content) \in Seq(DocumentLine)
         /\ Len(Indent(6, f.content)) = Len(f.content)
<1>1. f.path \in Strings /\ f.owner \in Strings /\ f.permissions \in Strings
  BY DEF AnyFile
<1>2. PathLine(f) \in DocumentLine /\ OwnerLine(f) \in DocumentLine
  BY <1>1, LineTyped DEF PathLine, OwnerLine, Plain, Keys, Styles
<1>3. PermissionsLine(f) \in DocumentLine
  BY <1>1, LineTyped DEF PermissionsLine, Quoted, Keys, Styles
<1>4. ContentLine \in DocumentLine
  BY LineTyped DEF ContentLine, Plain, Keys, Styles, Strings
<1>5. f.content \in Seq(ContentText)
  BY DEF AnyFile
<1>6. ASSUME NEW k \in 1 .. Len(f.content)
      PROVE  IndentedLine(f.content[k]) \in DocumentLine
  <2>1. f.content[k].indent + 6 \in Nat /\ f.content[k].word \in Strings
    <3>1. f.content[k] \in ContentText
      BY <1>5
    <3>2. QED
      BY <3>1 DEF ContentText
  <2>2. QED
    BY <2>1, LineTyped DEF IndentedLine, Keys, Styles
<1>7. Indent(6, f.content) \in [1 .. Len(f.content) -> DocumentLine]
  <2>1. DOMAIN f.content = 1 .. Len(f.content)
    BY <1>5
  <2>2. QED
    BY <1>6, <2>1 DEF Indent, IndentedLine
<1>8. QED
  BY <1>2, <1>3, <1>4, <1>5, <1>7

\* The header is two to four lines long, and says where what is.
LEMMA HeaderIs ==
  ASSUME NEW f \in AnyFile
  PROVE  /\ Header(f) \in Seq(DocumentLine) /\ HeaderLen(f) \in 2 .. 4
         /\ Header(f)[1] = PathLine(f)
         /\ Header(f)[HeaderLen(f)] = ContentLine
         /\ \A k \in 2 .. HeaderLen(f) - 1 :
              \/ k = OwnerAt(f) /\ Header(f)[k] = OwnerLine(f)
              \/ k = PermissionsAt(f) /\ Header(f)[k] = PermissionsLine(f)
         /\ OwnerAt(f) = 0 \/ OwnerAt(f) \in 2 .. HeaderLen(f) - 1
         /\ PermissionsAt(f) = 0 \/ PermissionsAt(f) \in 2 .. HeaderLen(f) - 1
         /\ OwnerAt(f) = PermissionsAt(f) => OwnerAt(f) = 0
<1> DEFINE L == DocumentLine
           a == PathLine(f)
           b == OwnerLine(f)
           c == PermissionsLine(f)
           d == ContentLine
<1>1. a \in L /\ b \in L /\ c \in L /\ d \in L
  BY LinesTyped
<1>2. CASE f.owner = "" /\ f.permissions = ""
  <2>1. Header(f) = <<a>> \o <<>> \o <<>> \o <<d>>
    BY <1>2 DEF Header, Given
  <2> HIDE DEF L, a, b, c, d, HeaderLen
  <2>2. Header(f) = Append(<<a>>, d)
    <3>1. <<a>> \in Seq(L)
      BY <1>1
    <3>2. QED
      BY <1>1, <2>1, <3>1, ConcatOne
  <2>3. Len(Header(f)) = 2 /\ Header(f) \in Seq(L) /\ Header(f)[1] = a /\ Header(f)[2] = d
    BY <1>1, <2>2, ShortSequences
  <2>4. OwnerAt(f) = 0 /\ PermissionsAt(f) = 0
    BY <1>2 DEF OwnerAt, PermissionsAt
  <2>5. QED
    BY <2>3, <2>4 DEF L, a, d, HeaderLen
<1>3. CASE f.owner # "" /\ f.permissions = ""
  <2>1. Header(f) = <<a>> \o <<b>> \o <<>> \o <<d>>
    BY <1>3 DEF Header, Given
  <2> HIDE DEF L, a, b, c, d, HeaderLen
  <2>2. Header(f) = Append(Append(<<a>>, b), d)
    <3>1. <<a>> \in Seq(L)
      BY <1>1
    <3>2. QED
      BY <1>1, <2>1, <3>1, ConcatOne
  <2>3. /\ Len(Header(f)) = 3 /\ Header(f) \in Seq(L)
        /\ Header(f)[1] = a /\ Header(f)[2] = b /\ Header(f)[3] = d
    BY <1>1, <2>2, ShortSequences
  <2>4. OwnerAt(f) = 2 /\ PermissionsAt(f) = 0
    BY <1>3 DEF OwnerAt, PermissionsAt
  <2>5. QED
    BY <2>3, <2>4 DEF L, a, b, d, HeaderLen
<1>4. CASE f.owner = "" /\ f.permissions # ""
  <2>1. Header(f) = <<a>> \o <<>> \o <<c>> \o <<d>>
    BY <1>4 DEF Header, Given
  <2> HIDE DEF L, a, b, c, d, HeaderLen
  <2>2. Header(f) = Append(Append(<<a>>, c), d)
    <3>1. <<a>> \in Seq(L)
      BY <1>1
    <3>2. QED
      BY <1>1, <2>1, <3>1, ConcatOne
  <2>3. /\ Len(Header(f)) = 3 /\ Header(f) \in Seq(L)
        /\ Header(f)[1] = a /\ Header(f)[2] = c /\ Header(f)[3] = d
    BY <1>1, <2>2, ShortSequences
  <2>4. OwnerAt(f) = 0 /\ PermissionsAt(f) = 2
    BY <1>4 DEF OwnerAt, PermissionsAt
  <2>5. QED
    BY <2>3, <2>4 DEF L, a, c, d, HeaderLen
<1>5. CASE f.owner # "" /\ f.permissions # ""
  <2>1. Header(f) = <<a>> \o <<b>> \o <<c>> \o <<d>>
    BY <1>5 DEF Header, Given
  <2> HIDE DEF L, a, b, c, d, HeaderLen
  <2>2. Header(f) = Append(Append(Append(<<a>>, b), c), d)
    <3>1. <<a>> \in Seq(L)
      BY <1>1
    <3>2. <<a>> \o <<b>> = Append(<<a>>, b) /\ Append(<<a>>, b) \in Seq(L)
      BY <1>1, <3>1, ConcatOne
    <3>3. Append(<<a>>, b) \o <<c>> = Append(Append(<<a>>, b), c)
          /\ Append(Append(<<a>>, b), c) \in Seq(L)
      BY <1>1, <3>2, ConcatOne
    <3>4. Append(Append(<<a>>, b), c) \o <<d>>
            = Append(Append(Append(<<a>>, b), c), d)
      BY <1>1, <3>3, ConcatOne
    <3>5. QED
      BY <2>1, <3>2, <3>3, <3>4
  <2>3. /\ Len(Header(f)) = 4 /\ Header(f) \in Seq(L)
        /\ Header(f)[1] = a /\ Header(f)[2] = b /\ Header(f)[3] = c /\ Header(f)[4] = d
    BY <1>1, <2>2, ShortSequences
  <2>4. OwnerAt(f) = 2 /\ PermissionsAt(f) = 3
    BY <1>5 DEF OwnerAt, PermissionsAt
  <2>5. QED
    BY <2>3, <2>4 DEF L, a, b, c, d, HeaderLen
<1>6. QED
  BY <1>2, <1>3, <1>4, <1>5

\* The header, and behind it the content indented
LEMMA FileLinesIs ==
  ASSUME NEW f \in AnyFile
  PROVE  /\ HeaderLen(f) \in 2 .. 4
         /\ f.content \in Seq(ContentText)
         /\ FileLines(f) \in Seq(DocumentLine)
         /\ Len(FileLines(f)) = HeaderLen(f) + Len(f.content)
         /\ \A k \in 1 .. HeaderLen(f) : FileLines(f)[k] = Header(f)[k]
         /\ \A k \in 1 .. Len(f.content) :
              FileLines(f)[HeaderLen(f) + k] = IndentedLine(f.content[k])
<1> DEFINE block == Indent(6, f.content)
           header == Header(f)
<1>1. FileLines(f) = header \o block
  BY DEF FileLines, Header, PathLine, OwnerLine, PermissionsLine, ContentLine
<1>2. header \in Seq(DocumentLine) /\ HeaderLen(f) \in 2 .. 4
  BY HeaderIs
<1>3. block \in Seq(DocumentLine) /\ Len(block) = Len(f.content)
  BY LinesTyped
<1>4. f.content \in Seq(ContentText)
  BY DEF AnyFile
<1>5. \A k \in 1 .. Len(f.content) : block[k] = IndentedLine(f.content[k])
  <2>1. DOMAIN f.content = 1 .. Len(f.content)
    BY <1>4
  <2>2. QED
    BY <2>1 DEF Indent, IndentedLine
<1> HIDE DEF block, header
<1>6. /\ header \o block \in Seq(DocumentLine)
      /\ Len(header \o block) = Len(header) + Len(block)
      /\ \A k \in 1 .. Len(header) : (header \o block)[k] = header[k]
      /\ \A k \in 1 .. Len(block) : (header \o block)[Len(header) + k] = block[k]
  <2>1. header \in Seq(DocumentLine)
    BY <1>2
  <2>2. block \in Seq(DocumentLine)
    BY <1>3
  <2>3. QED
    BY <2>1, <2>2, ConcatElements
<1>7. HeaderLen(f) = Len(header)
  BY DEF HeaderLen, header
<1>8. QED
  BY <1>1, <1>2, <1>3, <1>4, <1>5, <1>6, <1>7 DEF header

\* How many lines there are
LEMMA FileLinesDomain ==
  ASSUME NEW f \in AnyFile
  PROVE  /\ Len(f.content) \in Nat
         /\ DOMAIN FileLines(f) = 1 .. HeaderLen(f) + Len(f.content)
<1>1. /\ f.content \in Seq(ContentText) /\ FileLines(f) \in Seq(DocumentLine)
      /\ Len(FileLines(f)) = HeaderLen(f) + Len(f.content)
  BY FileLinesIs
<1>2. QED
  BY <1>1

\* The keys of the lines of a file, and what stands behind them
LEMMA KeysOfLines ==
  ASSUME NEW f
  PROVE  /\ PathLine(f).key = "path" /\ OwnerLine(f).key = "owner"
         /\ PermissionsLine(f).key = "permissions" /\ ContentLine.key = "content"
         /\ PathLine(f).value = Plain(f.path) /\ OwnerLine(f).value = Plain(f.owner)
         /\ PermissionsLine(f).value = Quoted(f.permissions)
         /\ IndentedLine(f).key \notin {"path", "owner", "permissions", "content"}
BY DEF PathLine, OwnerLine, PermissionsLine, ContentLine, IndentedLine, Line

\* Which key is where
LEMMA KeysOfFile ==
  ASSUME NEW f \in AnyFile, NEW k \in DOMAIN FileLines(f)
  PROVE  /\ FileLines(f)[k].key = "path" <=> k = 1
         /\ FileLines(f)[k].key = "owner" <=> k = OwnerAt(f)
         /\ FileLines(f)[k].key = "permissions" <=> k = PermissionsAt(f)
         /\ FileLines(f)[k].key = "content" <=> k = HeaderLen(f)
         /\ k = 1 => FileLines(f)[k] = PathLine(f)
         /\ k = OwnerAt(f) => FileLines(f)[k] = OwnerLine(f)
         /\ k = PermissionsAt(f) => FileLines(f)[k] = PermissionsLine(f)
<1> DEFINE line == FileLines(f)[k]
           h == HeaderLen(f)
<1>1. h \in 2 .. 4 /\ k \in 1 .. h + Len(f.content) /\ Len(f.content) \in Nat
  BY FileLinesIs, FileLinesDomain
<1>2. PICK o \in Nat, p \in Nat : o = OwnerAt(f) /\ p = PermissionsAt(f)
  BY DEF OwnerAt, PermissionsAt
<1>3. \/ k = 1 /\ line = PathLine(f)
      \/ k = h /\ line = ContentLine
      \/ k \in 2 .. h - 1 /\ k = OwnerAt(f) /\ line = OwnerLine(f)
      \/ k \in 2 .. h - 1 /\ k = PermissionsAt(f) /\ line = PermissionsLine(f)
      \/ k > h /\ line.key \notin {"path", "owner", "permissions", "content"}
  <2>1. CASE k \in 1 .. h
    <3>1. line = Header(f)[k]
      BY <2>1, FileLinesIs
    <3>2. k = 1 \/ k = h \/ k \in 2 .. h - 1
      BY <1>1, <2>1
    <3>3. CASE k = 1
      BY <3>1, <3>3, HeaderIs
    <3>4. CASE k = h
      BY <3>1, <3>4, HeaderIs
    <3>5. CASE k \in 2 .. h - 1
      BY <3>1, <3>5, HeaderIs
    <3>6. QED
      BY <3>2, <3>3, <3>4, <3>5
  <2>2. CASE k > h
    <3>1. k - h \in 1 .. Len(f.content) /\ h + (k - h) = k
      BY <1>1, <2>2
    <3>2. PICK j \in 1 .. Len(f.content) : line = IndentedLine(f.content[j])
      BY <3>1, FileLinesIs
    <3> HIDE DEF line
    <3>3. line.key \notin {"path", "owner", "permissions", "content"}
      BY <3>2, KeysOfLines
    <3>4. QED
      BY <2>2, <3>3
  <2>3. k \in 1 .. h \/ k > h
    BY <1>1
  <2>4. QED
    BY <2>1, <2>2, <2>3, Zenon
<1>4. /\ o = 0 \/ o \in 2 .. h - 1
      /\ p = 0 \/ p \in 2 .. h - 1
      /\ o = p => o = 0
  BY <1>2, HeaderIs
<1> HIDE DEF line, h
<1>5. h \in Nat /\ h > 1 /\ k \in Nat /\ k # 0
  BY <1>1
<1>6. /\ line.key = "path" <=> k = 1
      /\ line.key = "owner" <=> k = o
      /\ line.key = "permissions" <=> k = p
      /\ line.key = "content" <=> k = h
      /\ k = 1 => line = PathLine(f)
      /\ k = o => line = OwnerLine(f)
      /\ k = p => line = PermissionsLine(f)
  <2>1. CASE k = 1 /\ line = PathLine(f)
    <3>1. line.key = "path"
      BY <2>1, KeysOfLines
    <3>2. QED
      BY <1>4, <1>5, <2>1, <3>1
  <2>2. CASE k = h /\ line = ContentLine
    <3>1. line.key = "content"
      BY <2>2, KeysOfLines
    <3>2. QED
      BY <1>4, <1>5, <2>2, <3>1
  <2>3. CASE k \in 2 .. h - 1 /\ k = OwnerAt(f) /\ line = OwnerLine(f)
    <3>1. line.key = "owner"
      BY <2>3, KeysOfLines
    <3>2. QED
      BY <1>2, <1>4, <1>5, <2>3, <3>1
  <2>4. CASE k \in 2 .. h - 1 /\ k = PermissionsAt(f) /\ line = PermissionsLine(f)
    <3>1. line.key = "permissions"
      BY <2>4, KeysOfLines
    <3>2. QED
      BY <1>2, <1>4, <1>5, <2>4, <3>1
  <2>5. CASE k > h /\ line.key \notin {"path", "owner", "permissions", "content"}
    BY <1>4, <1>5, <2>5
  <2>6. QED
    BY <1>3, <2>1, <2>2, <2>3, <2>4, <2>5
<1>7. QED
  BY <1>2, <1>6 DEF line, h

\* The first line with a key is the one that is found.
LEMMA LineOfIs ==
  ASSUME NEW item \in Seq(DocumentLine), NEW key, NEW k \in DOMAIN item,
         item[k].key = key, \A j \in DOMAIN item : item[j].key = key => j = k
  PROVE  LineOf(item, key) = k
<1> DEFINE S == {i \in 1 .. Len(item) : item[i].key = key}
<1>1. S # {} /\ S \subseteq 1 .. Len(item) /\ k \in S /\ Len(item) \in Nat
  OBVIOUS
<1>2. \A j \in 1 .. k - 1 : j \notin S
  BY <1>1
<1> HIDE DEF S
<1>3. Min(S) = k
  BY <1>1, <1>2, FirstIs
<1>4. QED
  BY <1>1, <1>3 DEF LineOf, SelectInSeq, S

\* No line is found when none has the key.
LEMMA LineOfNone ==
  ASSUME NEW item \in Seq(DocumentLine), NEW key,
         \A j \in DOMAIN item : item[j].key # key
  PROVE  LineOf(item, key) = 0
<1>1. {i \in 1 .. Len(item) : item[i].key = key} = {}
  OBVIOUS
<1>2. QED
  BY <1>1 DEF LineOf, SelectInSeq

\* Where the keys of a file are found
LEMMA LineOfFile ==
  ASSUME NEW f \in AnyFile
  PROVE  /\ LineOf(FileLines(f), "path") = 1
         /\ LineOf(FileLines(f), "owner") = OwnerAt(f)
         /\ LineOf(FileLines(f), "permissions") = PermissionsAt(f)
         /\ LineOf(FileLines(f), "content") = HeaderLen(f)
<1> DEFINE item == FileLines(f)
           h == HeaderLen(f)
<1>1. item \in Seq(DocumentLine)
  BY FileLinesIs
<1>2. h \in 2 .. 4 /\ Len(f.content) \in Nat /\ DOMAIN item = 1 .. h + Len(f.content)
  BY FileLinesIs, FileLinesDomain
<1>3. ASSUME NEW k \in DOMAIN item
      PROVE  /\ item[k].key = "path" <=> k = 1
             /\ item[k].key = "owner" <=> k = OwnerAt(f)
             /\ item[k].key = "permissions" <=> k = PermissionsAt(f)
             /\ item[k].key = "content" <=> k = h
  BY KeysOfFile
<1>4. /\ OwnerAt(f) = 0 \/ OwnerAt(f) \in 2 .. h - 1
      /\ PermissionsAt(f) = 0 \/ PermissionsAt(f) \in 2 .. h - 1
  BY HeaderIs
<1>5. /\ OwnerAt(f) = 0 \/ OwnerAt(f) \in DOMAIN item
      /\ PermissionsAt(f) = 0 \/ PermissionsAt(f) \in DOMAIN item
  BY <1>2, <1>4
<1>6. 1 \in DOMAIN item /\ h \in DOMAIN item /\ 0 \notin DOMAIN item
  BY <1>2
<1> HIDE DEF item, h
<1>7. LineOf(item, "path") = 1
  BY <1>1, <1>3, <1>6, LineOfIs
<1>8. LineOf(item, "content") = h
  BY <1>1, <1>3, <1>6, LineOfIs
<1>9. LineOf(item, "owner") = OwnerAt(f)
  <2>1. CASE OwnerAt(f) = 0
    BY <1>1, <1>3, <1>6, <2>1, LineOfNone
  <2>2. CASE OwnerAt(f) # 0
    BY <1>1, <1>3, <1>5, <2>2, LineOfIs
  <2>3. QED
    BY <2>1, <2>2
<1>10. LineOf(item, "permissions") = PermissionsAt(f)
  <2>1. CASE PermissionsAt(f) = 0
    BY <1>1, <1>3, <1>6, <2>1, LineOfNone
  <2>2. CASE PermissionsAt(f) # 0
    BY <1>1, <1>3, <1>5, <2>2, LineOfIs
  <2>3. QED
    BY <2>1, <2>2
<1>11. QED
  BY <1>7, <1>8, <1>9, <1>10 DEF item, h

-----------------------------------------------------------------------------
(* What is read of the lines of a file *)

HasWord(l) == l.word # ""

\* The files of a document: those of a spec, and the operator's
DocumentFile == {f \in AnyFile : f.permissions # "{{ a }}"}

\* The block read from a file is its content, indented.
LEMMA BlockOfFile ==
  ASSUME NEW f \in AnyFile
  PROVE  /\ Block(FileLines(f)) \in Seq(DocumentLine)
         /\ Len(Block(FileLines(f))) = Len(f.content)
         /\ \A k \in 1 .. Len(f.content) :
              Block(FileLines(f))[k] = IndentedLine(f.content[k])
<1> DEFINE item == FileLines(f)
<1>1. PICK h \in Nat, n \in Nat : h = HeaderLen(f) /\ n = Len(f.content)
  BY FileLinesIs, FileLinesDomain
<1>2. item \in Seq(DocumentLine) /\ Len(item) = h + n
  BY <1>1, FileLinesIs
<1>3. ASSUME NEW k \in 1 .. n PROVE item[h + k] = IndentedLine(f.content[k])
  BY <1>1, FileLinesIs
<1>4. Block(item) = SubSeq(item, h + 1, h + n)
  BY <1>1, <1>2, LineOfFile DEF Block
<1> HIDE DEF item
<1>5. /\ SubSeq(item, h + 1, h + n) \in Seq(DocumentLine)
      /\ Len(SubSeq(item, h + 1, h + n)) = n
      /\ \A k \in 1 .. n : SubSeq(item, h + 1, h + n)[k] = item[h + k]
  BY <1>2
<1>6. QED
  BY <1>1, <1>3, <1>4, <1>5 DEF item

\* A line of the content in the document
LEMMA IndentedLineIs ==
  ASSUME NEW l
  PROVE  /\ IndentedLine(l).indent = l.indent + 6
         /\ IndentedLine(l).value = Scalar("block", l.word)
         /\ Blank(IndentedLine(l)) <=> ~ HasWord(l)
BY DEF IndentedLine, Line, Scalar, Blank, HasWord

\* The block is as long as the content.
LEMMA BlockDomain ==
  ASSUME NEW f \in AnyFile
  PROVE  /\ DOMAIN Block(FileLines(f)) = 1 .. Len(f.content)
         /\ DOMAIN f.content = 1 .. Len(f.content)
<1>1. f.content \in Seq(ContentText)
  BY DEF AnyFile
<1>2. /\ Block(FileLines(f)) \in Seq(DocumentLine)
      /\ Len(Block(FileLines(f))) = Len(f.content)
  BY BlockOfFile
<1>3. DOMAIN Block(FileLines(f)) = 1 .. Len(Block(FileLines(f)))
  BY <1>2
<1>4. QED
  BY <1>1, <1>2, <1>3

\* Max of one number
LEMMA MaxOfOne ==
  ASSUME NEW n \in Nat
  PROVE  Max({n}) = n
<1>1. {n} \subseteq 0 .. n /\ {n} # {}
  OBVIOUS
<1>2. Max({n}) \in {n}
  BY <1>1, MaxIs
<1>3. QED
  BY <1>2

\* The lines which say how far a block is indented are at the margin, ...
LEMMA MarginIs ==
  ASSUME NEW f \in AnyFile, StartsAtMargin(f), NEW k \in Leading(Block(FileLines(f)))
  PROVE  Block(FileLines(f))[k].indent = 6
<1> DEFINE block == Block(FileLines(f))
           content == f.content
<1>1. k \in DOMAIN block /\ \A j \in 1 .. k - 1 : Blank(block[j])
  BY DEF Leading
<1>2. PICK n \in Nat : n = Len(content)
  BY FileLinesDomain
<1>3. DOMAIN block = 1 .. n /\ DOMAIN content = 1 .. n
  BY <1>2, BlockDomain
<1>4. \A j \in 1 .. n : block[j] = IndentedLine(content[j])
  BY <1>2, BlockOfFile
<1> HIDE DEF block, content
<1>5. \A j \in 1 .. k - 1 : content[j].word = ""
  <2>1. SUFFICES ASSUME NEW j \in 1 .. k - 1 PROVE ~ HasWord(content[j])
    BY Zenon DEF HasWord
  <2>2. j \in 1 .. n
    BY <1>1, <1>3
  <2>3. Blank(block[j]) /\ block[j] = IndentedLine(content[j])
    BY <1>1, <1>4, <2>2
  <2>4. QED
    BY <2>3, IndentedLineIs
<1>6. content[k].indent = 0
  BY <1>1, <1>3, <1>5, Zenon DEF StartsAtMargin, content
<1>7. block[k].indent = content[k].indent + 6
  BY <1>1, <1>3, <1>4, IndentedLineIs
<1>8. QED
  BY <1>6, <1>7 DEF block

\* ... so that the block is indented by six.
LEMMA IndentationOfFile ==
  ASSUME NEW f \in AnyFile, StartsAtMargin(f), NEW k \in 1 .. Len(f.content)
  PROVE  Indentation(Block(FileLines(f))) = 6
<1> DEFINE block == Block(FileLines(f))
<1>1. 1 \in Leading(block)
  <2>1. Len(f.content) \in Nat
    BY FileLinesDomain
  <2>2. 1 \in DOMAIN block
    BY <2>1, BlockDomain
  <2> HIDE DEF block
  <2>3. QED
    BY <2>2 DEF Leading
<1>2. \A j \in Leading(block) : block[j].indent = 6
  BY MarginIs
<1> HIDE DEF block
<1>3. {block[j].indent : j \in Leading(block)} = {6}
  BY <1>1, <1>2
<1>4. Indentation(block) = 6
  BY <1>3, MaxOfOne DEF Indentation
<1>5. QED
  BY <1>4 DEF block

\* What is no template is read as it was written, unless it is a Boolean
\* which stands plain.
LEMMA ReadIs ==
  ASSUME NEW text, text # "{{ a }}"
  PROVE  /\ Read(Scalar("block", text)) = text
         /\ Read(Quoted(text)) = text
         /\ text # "no" => Read(Plain(text)) = text
BY DEF Read, Scalar, Quoted, Plain

\* A file with another content
LEMMA WithContent ==
  ASSUME NEW A, NEW B, NEW f \in [path : A, owner : A, permissions : A, content : B],
         NEW c
  PROVE  [f EXCEPT !.content = c]
           = [path |-> f.path, owner |-> f.owner, permissions |-> f.permissions,
              content |-> c]
  OBVIOUS

\* The lines of a content
LEMMA ContentLineIs ==
  ASSUME NEW f \in AnyFile, NEW k \in 1 .. Len(f.content)
  PROVE  /\ f.content[k].indent \in Nat
         /\ f.content[k] = [indent |-> f.content[k].indent,
                            word |-> f.content[k].word]
<1>1. f.content \in Seq(ContentText)
  BY DEF AnyFile
<1>2. f.content[k] \in ContentText
  BY <1>1
<1>3. QED
  BY <1>2 DEF ContentText

\* Six in and six out
LEMMA Outdented ==
  ASSUME NEW n \in Nat, NEW m, m = n + 6, NEW o, o = 6
  PROVE  (IF m <= o THEN 0 ELSE m - o) = n
<1>1. CASE n = 0
  BY <1>1
<1>2. CASE n # 0
  BY <1>2
<1>3. QED
  BY <1>1, <1>2

\* How far the lines of a file are indented that starts at the margin
LEMMA IndentOfLine ==
  ASSUME NEW f \in AnyFile, StartsAtMargin(f), NEW k \in 1 .. Len(f.content)
  PROVE  /\ Block(FileLines(f))[k].indent = f.content[k].indent + 6
         /\ Indentation(Block(FileLines(f))) = 6
         /\ f.content[k].indent \in Nat
         /\ (IF Block(FileLines(f))[k].indent <= Indentation(Block(FileLines(f))) THEN 0
             ELSE Block(FileLines(f))[k].indent - Indentation(Block(FileLines(f))))
               = f.content[k].indent
<1>1. Block(FileLines(f))[k] = IndentedLine(f.content[k])
  BY BlockOfFile
<1>2. Indentation(Block(FileLines(f))) = 6
  BY IndentationOfFile
<1>3. f.content[k].indent \in Nat
  BY ContentLineIs
<1>4. Block(FileLines(f))[k].indent = f.content[k].indent + 6
  BY <1>1, IndentedLineIs
<1>5. QED
  BY <1>2, <1>3, <1>4, Outdented

\* A file that starts at the margin is a well-formed block.
LEMMA FileWellFormed ==
  ASSUME NEW f \in AnyFile, StartsAtMargin(f)
  PROVE  WellFormed(FileLines(f))
<1> DEFINE block == Block(FileLines(f))
<1>1. SUFFICES ASSUME NEW k \in DOMAIN block, ~ Blank(block[k])
               PROVE  block[k].indent > 4 /\ block[k].indent >= Indentation(block)
  BY DEF WellFormed
<1>2. k \in 1 .. Len(f.content)
  BY BlockDomain
<1>3. /\ block[k].indent = f.content[k].indent + 6 /\ Indentation(block) = 6
      /\ f.content[k].indent \in Nat
  BY <1>2, IndentOfLine
<1> HIDE DEF block
<1>4. QED
  BY <1>3

\* The lines of a block as they are read
ReadLine(block, k) ==
  [indent |-> IF block[k].indent <= Indentation(block) THEN 0
              ELSE block[k].indent - Indentation(block),
   word |-> Read(block[k].value)]

\* A line of such a file is read as it was written, ...
LEMMA LineRead ==
  ASSUME NEW f \in DocumentFile, StartsAtMargin(f), NEW k \in 1 .. Len(f.content),
         f.content[k].word # "{{ a }}"
  PROVE  ReadLine(Block(FileLines(f)), k) = f.content[k]
<1> DEFINE block == Block(FileLines(f))
           l == f.content[k]
<1>1. f \in AnyFile
  BY DEF DocumentFile
<1>2. l.indent \in Nat /\ l = [indent |-> l.indent, word |-> l.word]
  BY <1>1, ContentLineIs
<1>3. block[k] = IndentedLine(l)
  BY <1>1, BlockOfFile
<1>4. Read(block[k].value) = l.word
  BY <1>3, IndentedLineIs, ReadIs
<1>5. (IF block[k].indent <= Indentation(block) THEN 0
       ELSE block[k].indent - Indentation(block)) = l.indent
  BY <1>1, IndentOfLine
<1>6. ReadLine(block, k)
        = [indent |-> IF block[k].indent <= Indentation(block) THEN 0
                      ELSE block[k].indent - Indentation(block),
           word |-> Read(block[k].value)]
  BY DEF ReadLine
<1> HIDE DEF block, l
<1>7. ReadLine(block, k) = [indent |-> l.indent, word |-> l.word]
  BY <1>4, <1>5, <1>6
<1>8. QED
  BY <1>2, <1>7 DEF l, block

ReadLines(block) == [k \in DOMAIN block |-> ReadLine(block, k)]

\* ... and so is its content.
LEMMA ContentRead ==
  ASSUME NEW f \in DocumentFile, StartsAtMargin(f), "{{ a }}" \notin Lines(f)
  PROVE  ReadLines(Block(FileLines(f))) = f.content
<1> DEFINE block == Block(FileLines(f))
<1>1. f \in AnyFile /\ f.content \in Seq(ContentText)
  BY DEF DocumentFile, AnyFile
<1>2. DOMAIN block = 1 .. Len(f.content) /\ DOMAIN f.content = 1 .. Len(f.content)
  BY <1>1, BlockDomain
<1>3. ASSUME NEW k \in 1 .. Len(f.content)
      PROVE  ReadLine(block, k) = f.content[k]
  <2>1. f.content[k].word # "{{ a }}"
    BY <1>2 DEF Lines, ToSet
  <2>2. QED
    BY <2>1, LineRead
<1>4. ReadLines(block) = [k \in 1 .. Len(f.content) |-> f.content[k]]
  <2> HIDE DEF block
  <2>1. QED
    BY <1>2, <1>3 DEF ReadLines
<1>5. f.content = [k \in 1 .. Len(f.content) |-> f.content[k]]
  BY <1>1, SequenceIs
<1> HIDE DEF block
<1>6. QED
  BY <1>4, <1>5 DEF block

\* A field that is there
LEMMA FieldIs ==
  ASSUME NEW item, NEW key, NEW k \in Nat \ {0}, LineOf(item, key) = k
  PROVE  Field(item, key) = Read(item[k].value)
BY DEF Field

\* A field that is not there
LEMMA FieldMissing ==
  ASSUME NEW item, NEW key, LineOf(item, key) = 0
  PROVE  Field(item, key) = ""
BY Zenon DEF Field

\* A text which is read as it was written behind a key
Literal(text) == text # "no" /\ text # "{{ a }}"

\* The other fields of a file are read as they were written.
LEMMA FieldsRead ==
  ASSUME NEW f \in DocumentFile, Literal(f.path), Literal(f.owner)
  PROVE  /\ Field(FileLines(f), "path") = f.path
         /\ Field(FileLines(f), "owner") = f.owner
         /\ Field(FileLines(f), "permissions") = f.permissions
<1> DEFINE item == FileLines(f)
<1>1. f \in AnyFile
  BY DEF DocumentFile
<1>2. /\ Read(Quoted(f.permissions)) = f.permissions
      /\ Read(Plain(f.path)) = f.path /\ Read(Plain(f.owner)) = f.owner
  BY ReadIs DEF DocumentFile, Literal
<1>3. PICK h \in 2 .. 4, n \in Nat : h = HeaderLen(f) /\ DOMAIN item = 1 .. h + n
  BY <1>1, FileLinesDomain, FileLinesIs
<1>4. 1 \in DOMAIN item
  BY <1>3
<1>5. /\ OwnerAt(f) = 0 \/ OwnerAt(f) \in 2 .. h - 1
      /\ PermissionsAt(f) = 0 \/ PermissionsAt(f) \in 2 .. h - 1
  BY <1>1, <1>3, HeaderIs
<1>6. Field(item, "path") = f.path
  <2>1. LineOf(item, "path") = 1
    BY <1>1, LineOfFile
  <2>2. item[1].value = Plain(f.path)
    BY <1>1, <1>4, KeysOfFile, KeysOfLines
  <2>3. Field(item, "path") = Read(item[1].value)
    BY <2>1, FieldIs
  <2>4. QED
    BY <1>2, <2>2, <2>3
<1>7. Field(item, "owner") = f.owner
  <2>1. LineOf(item, "owner") = OwnerAt(f)
    BY <1>1, LineOfFile
  <2>2. CASE OwnerAt(f) = 0
    <3>1. f.owner = ""
      <4>1. 2 # 0
        OBVIOUS
      <4>2. QED
        BY Zenon, <2>2, <4>1 DEF OwnerAt
    <3>2. Field(item, "owner") = ""
      BY <2>1, <2>2, FieldMissing
    <3>3. QED
      BY Zenon, <3>1, <3>2
  <2>3. CASE OwnerAt(f) # 0
    <3>1. PICK k \in 2 .. h - 1 : k = OwnerAt(f)
      BY <1>5, <2>3
    <3>2. k \in DOMAIN item /\ k \in Nat \ {0}
      BY <1>3, <3>1
    <3>3. item[k] = OwnerLine(f)
      BY <1>1, <3>1, <3>2, KeysOfFile
    <3>4. item[k].value = Plain(f.owner)
      BY <3>3, KeysOfLines
    <3>5. Field(item, "owner") = Read(item[k].value)
      BY <2>1, <3>1, <3>2, FieldIs
    <3>6. QED
      BY <1>2, <3>4, <3>5
  <2>4. QED
    BY <2>2, <2>3
<1>8. Field(item, "permissions") = f.permissions
  <2>1. LineOf(item, "permissions") = PermissionsAt(f)
    BY <1>1, LineOfFile
  <2>2. CASE PermissionsAt(f) = 0
    <3>1. f.permissions = ""
      <4>1. 2 # 0 /\ 3 # 0
        OBVIOUS
      <4>2. QED
        BY Zenon, <2>2, <4>1 DEF PermissionsAt
    <3>2. Field(item, "permissions") = ""
      BY <2>1, <2>2, FieldMissing
    <3>3. QED
      BY Zenon, <3>1, <3>2
  <2>3. CASE PermissionsAt(f) # 0
    <3>1. PICK k \in 2 .. h - 1 : k = PermissionsAt(f)
      BY <1>5, <2>3
    <3>2. k \in DOMAIN item /\ k \in Nat \ {0}
      BY <1>3, <3>1
    <3>3. item[k] = PermissionsLine(f)
      BY <1>1, <3>1, <3>2, KeysOfFile
    <3>4. item[k].value = Quoted(f.permissions)
      BY <3>3, KeysOfLines
    <3>5. Field(item, "permissions") = Read(item[k].value)
      BY <2>1, <3>1, <3>2, FieldIs
    <3>6. QED
      BY <1>2, <3>4, <3>5
  <2>4. QED
    BY <2>2, <2>3
<1>9. QED
  BY <1>6, <1>7, <1>8

\* Such a file is read as it was written.
LEMMA FileRead ==
  ASSUME NEW f \in DocumentFile, Literal(f.path), Literal(f.owner),
         StartsAtMargin(f), "{{ a }}" \notin Lines(f)
  PROVE  ReadItem(FileLines(f)) = [f EXCEPT !.content = Clip(@)]
<1> DEFINE item == FileLines(f)
<1>1. ReadItem(item)
        = [path |-> Field(item, "path"), owner |-> Field(item, "owner"),
           permissions |-> Field(item, "permissions"),
           content |-> Clip(ReadLines(Block(item)))]
  BY DEF ReadItem, ReadLines, ReadLine
<1>2. ReadLines(Block(item)) = f.content
  BY ContentRead
<1>3. /\ Field(item, "path") = f.path /\ Field(item, "owner") = f.owner
      /\ Field(item, "permissions") = f.permissions
  BY FieldsRead
<1> HIDE DEF item
<1>4. ReadItem(item)
        = [path |-> f.path, owner |-> f.owner, permissions |-> f.permissions,
           content |-> Clip(f.content)]
  BY <1>1, <1>2, <1>3
<1>5. f = [path |-> f.path, owner |-> f.owner, permissions |-> f.permissions,
           content |-> f.content]
  <2>1. f \in AnyFile
    BY DEF DocumentFile
  <2>2. QED
    BY <2>1 DEF AnyFile
<1>6. [f EXCEPT !.content = Clip(@)]
         = [path |-> f.path, owner |-> f.owner, permissions |-> f.permissions,
            content |-> Clip(f.content)]
  <2>1. f \in [path : Strings, owner : Strings, permissions : Strings,
               content : Seq(ContentText)]
    BY DEF DocumentFile, AnyFile
  <2>2. QED
    BY <2>1, WithContent
<1>7. QED
  BY <1>4, <1>6 DEF item

-----------------------------------------------------------------------------
(* Many files *)

\* An item begins with its path, and there is no other one in it.
IsItem(item) ==
  item # <<>> /\ \A k \in DOMAIN item : item[k].key = "path" <=> k = 1

\* Items one behind the other are read as these items.
LEMMA ItemsOfAll ==
  ASSUME NEW L, NEW items \in Seq(Seq(L)), \A k \in 1 .. Len(items) : IsItem(items[k])
  PROVE  FlattenSeq(items) \in Seq(L) /\ Items(FlattenSeq(items)) = items
<1> DEFINE N == Len(items)
           S == {k \in 0 .. N :
                   Items(FlattenSeq(SubSeq(items, 1, k))) = SubSeq(items, 1, k)}
<1>1. N \in Nat
  OBVIOUS
<1>2. 0 \in S
  <2>1. SubSeq(items, 1, 0) = <<>>
    OBVIOUS
  <2>2. FlattenSeq(<<>>) = <<>>
    BY DEF FlattenSeq
  <2>3. Items(FlattenSeq(SubSeq(items, 1, 0))) = SubSeq(items, 1, 0)
    BY <2>1, <2>2, ItemsNone
  <2>4. QED
    BY <1>1, <2>3
<1>3. ASSUME NEW k \in 1 .. N, k - 1 \in S PROVE k \in S
  <2> DEFINE head == SubSeq(items, 1, k - 1)
  <2>1. /\ SubSeq(items, 1, k) = Append(head, items[k])
        /\ head \in Seq(Seq(L)) /\ items[k] \in Seq(L)
    BY SubSeqNext
  <2>2. Items(FlattenSeq(head)) = head
    BY <1>3
  <2> HIDE DEF head
  <2>3. /\ FlattenSeq(head) \in Seq(L)
        /\ FlattenSeq(Append(head, items[k])) = FlattenSeq(head) \o items[k]
    BY <2>1, FlattenAppend
  <2>4. /\ items[k] # <<>>
        /\ \A j \in DOMAIN items[k] : items[k][j].key = "path" <=> j = 1
    BY DEF IsItem
  <2>5. Items(FlattenSeq(head) \o items[k]) = Append(Items(FlattenSeq(head)), items[k])
    BY <2>1, <2>3, <2>4, ItemsOneMore
  <2>6. Items(FlattenSeq(SubSeq(items, 1, k))) = SubSeq(items, 1, k)
    BY <2>1, <2>2, <2>3, <2>5, Zenon
  <2>7. QED
    BY <1>1, <2>6
<1>4. N \in S
  <2> HIDE DEF S
  <2>1. 0 .. N \subseteq S
    BY <1>1, <1>2, <1>3, InductionUpTo
  <2>2. QED
    BY <1>1, <2>1
<1>5. SubSeq(items, 1, N) = items
  OBVIOUS
<1>6. FlattenSeq(items) \in Seq(L)
  <2>1. <<>> \in Seq(L)
    OBVIOUS
  <2>2. QED
    BY <2>1, FlattenAppend
<1>7. QED
  BY <1>4, <1>5, <1>6

\* The lines of a file are an item.
LEMMA FileIsItem ==
  ASSUME NEW f \in AnyFile
  PROVE  IsItem(FileLines(f))
<1>1. FileLines(f) # <<>>
  <2>1. PICK h \in 2 .. 4, n \in Nat : DOMAIN FileLines(f) = 1 .. h + n
    BY FileLinesDomain, FileLinesIs
  <2>2. 1 \in DOMAIN FileLines(f)
    BY <2>1
  <2>3. QED
    BY <2>2
<1>2. QED
  BY <1>1, KeysOfFile DEF IsItem

\* The section is read as one item for each file, and one for the operator's.
LEMMA SectionItems ==
  ASSUME NEW L, NEW files \in Seq(AnyFile), KubeadmFile \in AnyFile,
         \A k \in 1 .. Len(files) : FileLines(files[k]) \in Seq(L),
         FileLines(KubeadmFile) \in Seq(L)
  PROVE  /\ FilesSection(files) \in Seq(L)
         /\ Items(FilesSection(files))
              = Append(Each(FileLines, files), FileLines(KubeadmFile))
<1> DEFINE items == Each(FileLines, files)
           last == FileLines(KubeadmFile)
<1>1. items = [k \in 1 .. Len(files) |-> FileLines(files[k])]
  BY DEF Each
<1>2. items \in Seq(Seq(L)) /\ Len(items) = Len(files)
  BY <1>1
<1>3. ASSUME NEW k \in 1 .. Len(items) PROVE IsItem(items[k])
  <2>1. k \in 1 .. Len(files)
    BY <1>2
  <2>2. items[k] = FileLines(files[k]) /\ files[k] \in AnyFile
    BY <1>1, <2>1
  <2> HIDE DEF items
  <2>3. QED
    BY <2>2, FileIsItem
<1>4. FilesSection(files) = FlattenSeq(items) \o last
  BY DEF FilesSection
<1>5. IsItem(last)
  BY FileIsItem
<1>6. last # <<>> /\ \A k \in DOMAIN last : last[k].key = "path" <=> k = 1
  BY <1>5 DEF IsItem
<1> HIDE DEF items, last
<1>7. FlattenSeq(items) \in Seq(L) /\ Items(FlattenSeq(items)) = items
  BY <1>2, <1>3, ItemsOfAll
<1>8. last \in Seq(L)
  BY DEF last
<1>9. Items(FlattenSeq(items) \o last) = Append(items, last)
  BY <1>6, <1>7, <1>8, ItemsOneMore
<1>10. FlattenSeq(items) \o last \in Seq(L)
  BY <1>7, <1>8
<1>11. QED
  BY <1>4, <1>9, <1>10 DEF items, last

-----------------------------------------------------------------------------
(* The files of a document *)

\* The empty text is a text.
LEMMA NoText == "" \in Strings
  BY Zenon DEF Strings

\* The operator's file is a file of a document, ...
LEMMA KubeadmFileOK == KubeadmFile \in DocumentFile
<1> DEFINE a == [indent |-> 0, word |-> "---"]
           b == [indent |-> 0, word |-> ""]
           p == "/tmp/kubeadm-node.yaml"
           o == "root:root"
           m == "0640"
<1>1. p \in Strings /\ o \in Strings /\ m \in Strings /\ "---" \in Strings
  BY Zenon DEF Strings
<1>2. a \in ContentText
  BY <1>1 DEF ContentText
<1>3. b \in ContentText
  BY NoText DEF ContentText
<1>4. KubeadmFile = [path |-> p, owner |-> o, permissions |-> m,
                     content |-> <<a, b>>]
  BY Zenon DEF KubeadmFile
<1>5. m # "{{ a }}"
  BY Zenon
<1> HIDE DEF a, b, p, o, m
<1>6. <<a, b>> \in Seq(ContentText)
  BY <1>2, <1>3
<1>7. KubeadmFile \in AnyFile
  BY <1>1, <1>4, <1>6 DEF AnyFile
<1>8. KubeadmFile.permissions = m
  BY <1>4
<1>9. QED
  BY <1>5, <1>7, <1>8, Zenon DEF DocumentFile

\* The texts that the files of a spec are made of
LEMMA TextsOK ==
  /\ Texts \subseteq Strings /\ Names \subseteq Strings
  /\ {"", "0755"} \subseteq Strings /\ "{{ a }}" \notin {"", "0755"}
<1>1. Text \subseteq Strings
  BY Zenon DEF Strings
<1>2. {"", "0755"} \subseteq Strings
  BY Zenon DEF Strings
<1>3. "{{ a }}" \notin {"", "0755"}
  BY Zenon
<1>4. QED
  BY <1>1, <1>2, <1>3, TextsAssumption, Zenon

\* The lines of the files of a spec
LEMMA TextLineOK == TextLine \subseteq ContentText
<1> DEFINE W == {""} \cup (Texts \cap {"word", "{{ a }}"})
<1>1. W \subseteq Strings
  BY TextsOK, NoText, Zenon
<1>2. TextLine = [indent : 0 .. 1, word : W]
  BY Zenon DEF TextLine
<1> HIDE DEF W
<1>3. QED
  BY <1>1, <1>2 DEF ContentText

\* ... and so are those of a spec.
LEMMA FileOK ==
  ASSUME NEW f \in File
  PROVE  f \in DocumentFile
<1>1. PICK n \in 0 .. MaxLines : f.content \in [1 .. n -> TextLine]
  BY DEF File, BoundedSeq, SeqOf
<1>2. n \in Nat
  BY BoundsAssumption
<1>3. f.content \in Seq(ContentText)
  <2>1. f.content \in [1 .. n -> ContentText]
    BY <1>1, TextLineOK
  <2>2. QED
    BY <1>2, <2>1
<1>4. f.path \in Names /\ f.owner \in {""} \cup Names /\ f.permissions \in {"", "0755"}
  BY Zenon DEF File
<1>5. f.path \in Strings /\ f.owner \in Strings /\ f.permissions \in Strings
  BY <1>4, TextsOK, Zenon
<1>6. f.permissions # "{{ a }}"
  BY <1>4, TextsOK, Zenon
<1>7. f = [path |-> f.path, owner |-> f.owner, permissions |-> f.permissions,
           content |-> f.content]
  BY DEF File
<1>8. f \in AnyFile
  BY <1>3, <1>5, <1>7 DEF AnyFile
<1>9. QED
  BY <1>6, <1>8 DEF DocumentFile

-----------------------------------------------------------------------------
(* The invariant: what is read is what is generated from the spec.         *)

SpecOK ==
  spec \in [files : Seq(File), users : Seq(User), commands : Seq(Texts),
            ntp : Seq(NTP)]

StepOK == step \in {"spec", "generated", "booted", "broken"}

\* The document is the one of the spec, until the end.
Generated == step # "spec" => userData = Document

\* What the node got was read from it, ...
Booted == step = "booted" => node = ReadDocument(Items(userData.files))

\* ... or there was something in it that cannot be read.
Broken == step = "broken" => (IsYAML(Items(userData.files)) => HasTemplate)

IInv == SpecOK /\ StepOK /\ Generated /\ Booted /\ Broken

\* Bounded sequences are sequences.
LEMMA BoundedSequence ==
  ASSUME NEW S, NEW n \in Nat, NEW s \in Seqs(S, n)
  PROVE  s \in Seq(S)
BY DEF Seqs

\* The invariant holds at first, ...
LEMMA InitIInv == Init => IInv
<1> SUFFICES ASSUME Init PROVE IInv
  OBVIOUS
<1>1. SpecOK
  <2>1. PICK f \in 0 .. MaxFiles, u \in 0 .. MaxUsers, c \in 0 .. MaxCommands,
             n \in 0 .. 1 :
          spec \in [files : Seqs(File, f), users : Seqs(User, u),
                    commands : Seqs(Texts, c), ntp : Seqs(NTP, n)]
    BY DEF Init
  <2>2. f \in Nat /\ u \in Nat /\ c \in Nat /\ n \in Nat
    BY BoundsAssumption
  <2>3. spec.files \in Seq(File) /\ spec.users \in Seq(User)
    BY <2>1, <2>2, BoundedSequence
  <2>4. spec.commands \in Seq(Texts) /\ spec.ntp \in Seq(NTP)
    BY <2>1, <2>2, BoundedSequence
  <2>5. spec = [files |-> spec.files, users |-> spec.users,
                commands |-> spec.commands, ntp |-> spec.ntp]
    BY <2>1
  <2>6. QED
    BY <2>3, <2>4, <2>5 DEF SpecOK
<1>2. QED
  BY <1>1 DEF Init, IInv, StepOK, Generated, Booted, Broken

\* ... and every step keeps it.
LEMMA NextIInv == IInv /\ [Next]_vars => IInv'
<1> SUFFICES ASSUME IInv, [Next]_vars PROVE IInv'
  OBVIOUS
<1> USE DEF IInv
<1>1. CASE NewNode
  <2>1. SpecOK' /\ StepOK' /\ Booted' /\ Broken'
    BY <1>1 DEF NewNode, SpecOK, StepOK, Booted, Broken
  <2>2. Generated'
    BY <1>1 DEF NewNode, Generated, Document
  <2>3. QED
    BY <2>1, <2>2
<1>2. CASE Boot
  <2>1. UNCHANGED <<spec, userData>> /\ step = "generated"
    BY <1>2 DEF Boot
  <2>2. SpecOK'
    BY <2>1 DEF SpecOK
  <2>3. Generated'
    BY <2>1 DEF Generated, Document
  <2>4. UNCHANGED Items(userData.files)
    BY <2>1
  <2>5. UNCHANGED IsYAML(Items(userData.files)) /\ UNCHANGED HasTemplate
    BY <2>1 DEF IsYAML, HasTemplate, Scalars
  <2>6. CASE IsYAML(Items(userData.files)) /\ step' = "booted"
             /\ node' = ReadDocument(Items(userData.files))
    <3>1. StepOK' /\ Broken'
      BY <2>6 DEF StepOK, Broken
    <3>2. Booted'
      BY <2>1, <2>6 DEF Booted, ReadDocument
    <3>3. QED
      BY <2>2, <2>3, <3>1, <3>2
  <2>7. CASE (IsYAML(Items(userData.files)) => HasTemplate) /\ step' = "broken"
    <3>1. StepOK' /\ Booted'
      BY <2>7 DEF StepOK, Booted
    <3>2. Broken'
      BY <2>5, <2>7 DEF Broken
    <3>3. QED
      BY <2>2, <2>3, <3>1, <3>2
  <2>8. QED
    BY <1>2, <2>6, <2>7 DEF Boot
<1>3. CASE UNCHANGED vars
  <2>1. UNCHANGED <<spec, step, userData, node>>
    BY <1>3 DEF vars
  <2>2. UNCHANGED IsYAML(Items(userData.files)) /\ UNCHANGED HasTemplate
    BY <2>1 DEF IsYAML, HasTemplate, Scalars
  <2>3. SpecOK' /\ StepOK'
    BY <2>1 DEF SpecOK, StepOK
  <2>4. Generated'
    BY <2>1 DEF Generated, Document
  <2>5. Booted'
    BY <2>1 DEF Booted, ReadDocument
  <2>6. Broken'
    BY <2>1, <2>2 DEF Broken
  <2>7. QED
    BY <2>3, <2>4, <2>5, <2>6
<1>4. QED
  BY <1>1, <1>2, <1>3 DEF Next

\* The invariant holds.
LEMMA Invariance == Spec => []IInv
  BY InitIInv, NextIInv, PTL DEF Spec

-----------------------------------------------------------------------------
(* Commands and users *)

\* Quotes keep everything but a template.
LEMMA QuotedArrives ==
  ASSUME NEW t \in Text, t # "{{ a }}"
  PROVE  Read(Quoted(t)) = t
BY DEF Text, Read, Quoted, Scalar

\* A word needs no quotes.
LEMMA WordArrives ==
  Read(Plain("word")) = "word" /\ Read(PlainItem("word")) = "word"
BY DEF Read, Plain, PlainItem, Scalar

\* The invariant implies that commands arrive, ...
LEMMA CommandsFromInvariant == IInv => CommandsArrive
<1> SUFFICES ASSUME IInv, step = "booted" PROVE CommandsArrive
  BY DEF CommandsArrive
<1>1. spec.commands \in Seq(Texts)
  BY DEF IInv, SpecOK
<1>2. node.commands = Each(Read, Each(Quoted, spec.commands))
  BY DEF IInv, Booted, Generated, Document, ReadDocument, CommandsSection
<1>3. node.commands = [k \in DOMAIN spec.commands |-> Read(Quoted(spec.commands[k]))]
  BY <1>2 DEF Each
<1>4. Len(node.commands) = Len(spec.commands)
  <2>1. DOMAIN node.commands = 1 .. Len(spec.commands)
    BY <1>1, <1>3
  <2>2. node.commands \in Seq({node.commands[k] : k \in 1 .. Len(spec.commands)})
    BY <1>1, <1>3, <2>1
  <2>3. QED
    BY <1>1, <2>1, <2>2
<1>5. ASSUME NEW k \in DOMAIN spec.commands, spec.commands[k] # "{{ a }}"
      PROVE  node.commands[k] = spec.commands[k]
  <2>1. spec.commands[k] \in Text
    BY <1>1, TextsAssumption
  <2>2. QED
    BY <1>3, <1>5, <2>1, QuotedArrives
<1>6. QED
  BY <1>4, <1>5 DEF CommandsArrive

\* ... that users do, ...
LEMMA UsersFromInvariant == IInv => UsersArrive
<1> SUFFICES ASSUME IInv, step = "booted" PROVE UsersArrive
  BY DEF UsersArrive
<1>1. spec.users \in Seq(User)
  BY DEF IInv, SpecOK
<1>2. node.users = Each(ReadUser, Each(UserLines, spec.users))
  BY DEF IInv, Booted, Generated, Document, ReadDocument, UsersSection
<1>3. node.users = [k \in DOMAIN spec.users |-> ReadUser(UserLines(spec.users[k]))]
  BY <1>2 DEF Each
<1>4. Len(node.users) = Len(spec.users)
  <2>1. DOMAIN node.users = 1 .. Len(spec.users)
    BY <1>1, <1>3
  <2>2. node.users \in Seq({node.users[k] : k \in 1 .. Len(spec.users)})
    BY <1>1, <1>3, <2>1
  <2>3. QED
    BY <1>1, <2>1, <2>2
<1>5. ASSUME NEW k \in DOMAIN spec.users, UserTexts(spec.users[k]) = {"word"}
      PROVE  node.users[k] =
               [spec.users[k] EXCEPT !.inactive = node.users[k].inactive]
  <2> DEFINE u == spec.users[k]
             read == ReadUser(UserLines(u))
  <2>1. u \in User
    BY <1>1
  <2>2. PICK m \in 0 .. 1 : u.keys \in [1 .. m -> Texts]
    BY <2>1 DEF User, BoundedSeq, SeqOf
  <2> HIDE DEF u
  <2>3. u.name = "word" /\ (u.sudo # Unset => u.sudo = "word")
    <3>1. u.name \in Text
      BY <2>1, TextsAssumption DEF User
    <3>2. QED
      BY <1>5, <3>1, UnsetAssumption DEF UserTexts, u
  <2>4. \A i \in 1 .. m : u.keys[i] = "word"
    <3>1. SUFFICES ASSUME NEW i \in 1 .. m PROVE u.keys[i] = "word"
      OBVIOUS
    <3>2. u.keys[i] \in Text /\ u.keys[i] \in ToSet(u.keys)
      BY <2>2, TextsAssumption DEF ToSet
    <3>3. QED
      BY <1>5, <3>2, UnsetAssumption DEF UserTexts, u
  <2>5. Each(Read, Each(PlainItem, u.keys)) = u.keys
    BY <2>2, <2>4, WordArrives DEF Each
  <2>6. Plain("word") # Unset
    BY UnsetAssumption DEF Text
  <2>7. read = [u EXCEPT !.inactive = Rendered(@)]
    BY <2>1, <2>3, <2>5, <2>6, WordArrives DEF ReadUser, UserLines, User
  <2>8. QED
    BY <1>3, <2>1, <2>7 DEF u, User
<1>6. QED
  BY <1>4, <1>5 DEF UsersArrive

-----------------------------------------------------------------------------
(* Files *)

\* A text which YAML and Jinja leave as it is
Safe(scalar) == ~ Refused(scalar) /\ scalar.text # "{{ a }}"

SafeLine == {l \in DocumentLine : Safe(l.value)}

\* Which texts are safe where
SafeItem(text) == text # "{{ a }}" /\ text # "@x"
SafeValue(text) == SafeItem(text) /\ text # "a: b"

LEMMA SafeScalars ==
  ASSUME NEW text, text # "{{ a }}"
  PROVE  /\ Safe(Quoted(text)) /\ Safe(Scalar("block", text))
         /\ SafeItem(text) => Safe(PlainItem(text))
         /\ SafeValue(text) => Safe(Plain(text))
BY DEF Safe, Refused, Quoted, PlainItem, Plain, Scalar, SafeItem, SafeValue

Untemplated(f) == "{{ a }}" \notin Lines(f)

\* What Harmless demands of a file
HarmlessFile(f) ==
  StartsAtMargin(f) /\ Untemplated(f) /\ SafeValue(f.path) /\ SafeValue(f.owner)

\* All texts of a harmless file are safe.
LEMMA FileSafe ==
  ASSUME NEW f \in DocumentFile, HarmlessFile(f)
  PROVE  FileLines(f) \in Seq(SafeLine)
<1> DEFINE item == FileLines(f)
<1>1. f \in AnyFile
  BY DEF DocumentFile
<1>2. Safe(Plain(f.path)) /\ Safe(Plain(f.owner)) /\ Safe(Quoted(f.permissions))
  BY SafeScalars DEF DocumentFile, HarmlessFile, SafeValue, SafeItem
<1>3. Safe(PathLine(f).value) /\ Safe(OwnerLine(f).value) /\ Safe(PermissionsLine(f).value)
  BY <1>2, KeysOfLines
<1>4. Safe(ContentLine.value)
  <2>1. ContentLine.value = Plain("|")
    BY DEF ContentLine, Line
  <2>2. "|" # "{{ a }}" /\ SafeValue("|")
    BY Zenon DEF SafeValue, SafeItem
  <2>3. QED
    BY <2>1, <2>2, SafeScalars, Zenon
<1>5. ASSUME NEW k \in 1 .. Len(f.content) PROVE Safe(IndentedLine(f.content[k]).value)
  <2>1. f.content[k].word # "{{ a }}"
    BY <1>1, BlockDomain DEF HarmlessFile, Untemplated, Lines, ToSet
  <2>2. QED
    BY <2>1, IndentedLineIs, SafeScalars
<1>6. PICK h \in 2 .. 4, n \in Nat : h = HeaderLen(f) /\ n = Len(f.content)
  BY <1>1, FileLinesDomain, FileLinesIs
<1>7. item \in Seq(DocumentLine) /\ Len(item) = h + n
  BY <1>1, <1>6, FileLinesIs
<1>8. ASSUME NEW k \in 1 .. h + n PROVE item[k] \in SafeLine
  <2>1. item[k] \in DocumentLine
    BY <1>7
  <2>2. Safe(item[k].value)
    <3>1. CASE k \in 1 .. h
      <4>1. item[k] = Header(f)[k]
        BY <1>1, <1>6, <3>1, FileLinesIs
      <4>2. k = 1 \/ k = h \/ k \in 2 .. h - 1
        BY <3>1
      <4>3. item[k] \in {PathLine(f), OwnerLine(f), PermissionsLine(f), ContentLine}
        BY <1>1, <1>6, <4>1, <4>2, HeaderIs
      <4> HIDE DEF item
      <4>4. QED
        BY <1>3, <1>4, <4>3
    <3>2. CASE k > h
      <4>1. k - h \in 1 .. n /\ h + (k - h) = k
        BY <3>2
      <4>2. PICK j \in 1 .. n : item[k] = IndentedLine(f.content[j])
        BY <1>1, <1>6, <4>1, FileLinesIs
      <4> HIDE DEF item
      <4>3. QED
        BY <1>5, <1>6, <4>2
    <3>3. k \in 1 .. h \/ k > h
      OBVIOUS
    <3>4. QED
      BY <3>1, <3>2, <3>3, Zenon
  <2> HIDE DEF item
  <2>3. QED
    BY <2>1, <2>2 DEF SafeLine
<1> HIDE DEF item
<1>9. item \in Seq(SafeLine)
  BY <1>7, <1>8
<1>10. QED
  BY <1>9 DEF item

\* The operator's file is one that arrives.
LEMMA KubeadmFileHarmless == HarmlessFile(KubeadmFile)
<1> DEFINE a == [indent |-> 0, word |-> "---"]
           b == [indent |-> 0, word |-> ""]
           content == KubeadmFile.content
<1>1. content = <<a, b>>
  BY Zenon DEF KubeadmFile
<1>2. a.indent = 0 /\ b.indent = 0
  OBVIOUS
<1>3. a.word # "{{ a }}" /\ b.word # "{{ a }}"
  BY Zenon
<1> HIDE DEF a, b
<1>4. content[1] = a /\ content[2] = b /\ DOMAIN content = 1 .. 2 /\ Len(content) = 2
  BY <1>1
<1> HIDE DEF content
<1>5. \A k \in 1 .. 2 : k = 1 \/ k = 2
  OBVIOUS
<1>6. \A k \in 1 .. 2 : content[k].indent = 0 /\ content[k].word # "{{ a }}"
  BY <1>2, <1>3, <1>4, <1>5
<1>7. "{{ a }}" \notin Lines(KubeadmFile)
  BY <1>4, <1>6 DEF Lines, ToSet, content
<1>8. StartsAtMargin(KubeadmFile)
  BY <1>4, <1>6 DEF StartsAtMargin, content
<1>9. SafeValue(KubeadmFile.path) /\ SafeValue(KubeadmFile.owner)
  <2>1. KubeadmFile.path = "/tmp/kubeadm-node.yaml" /\ KubeadmFile.owner = "root:root"
    BY Zenon DEF KubeadmFile
  <2>2. SafeValue("/tmp/kubeadm-node.yaml") /\ SafeValue("root:root")
    BY Zenon DEF SafeValue, SafeItem
  <2>3. QED
    BY <2>1, <2>2, Zenon
<1>10. QED
  BY <1>7, <1>8, <1>9 DEF HarmlessFile, Untemplated

\* The files that arrive: those of the spec, and the operator's
AllFiles == spec.files \o <<KubeadmFile>>

\* The items that are read are those of the files.
LEMMA ItemsOfDocument ==
  ASSUME SpecOK
  PROVE  LET items == Items(FilesSection(spec.files))
         IN  /\ Len(spec.files) \in Nat
             /\ items \in Seq(Seq(DocumentLine))
             /\ Len(items) = Len(spec.files) + 1
             /\ \A k \in 1 .. Len(spec.files) + 1 :
                  AllFiles[k] \in DocumentFile /\ items[k] = FileLines(AllFiles[k])
<1> DEFINE files == spec.files
           n == Len(files)
           items == Items(FilesSection(files))
           each == Each(FileLines, files)
           last == FileLines(KubeadmFile)
<1>1. files \in Seq(File)
  BY DEF SpecOK
<1>2. KubeadmFile \in AnyFile
  BY KubeadmFileOK DEF DocumentFile
<1>3. files \in Seq(AnyFile)
  <2>1. File \subseteq AnyFile
    BY FileOK DEF DocumentFile
  <2>2. QED
    BY <1>1, <2>1
<1>4. n \in Nat /\ \A k \in 1 .. n : files[k] \in DocumentFile
  BY <1>1, FileOK
<1>5. \A k \in 1 .. n : FileLines(files[k]) \in Seq(DocumentLine)
  BY <1>3, FileLinesIs
<1>6. last \in Seq(DocumentLine)
  BY <1>2, FileLinesIs
<1>7. items = Append(each, last)
  <2> HIDE DEF files
  <2>1. QED
    BY <1>2, <1>3, <1>5, <1>6, SectionItems
<1>8. each = [k \in 1 .. n |-> FileLines(files[k])]
  BY <1>1 DEF Each
<1> HIDE DEF files, last
<1>9. each \in Seq(Seq(DocumentLine)) /\ Len(each) = n
  BY <1>4, <1>5, <1>8
<1>10. \A k \in 1 .. n : each[k] = FileLines(files[k])
  BY <1>8
<1> HIDE DEF each, items, n
<1>11. /\ items \in Seq(Seq(DocumentLine)) /\ Len(items) = n + 1
       /\ items[n + 1] = last /\ \A k \in 1 .. n : items[k] = each[k]
  BY <1>4, <1>6, <1>7, <1>9
<1>12. AllFiles[n + 1] = KubeadmFile /\ \A k \in 1 .. n : AllFiles[k] = files[k]
  BY <1>1 DEF AllFiles, files, n
<1>13. ASSUME NEW k \in 1 .. n + 1
       PROVE  AllFiles[k] \in DocumentFile /\ items[k] = FileLines(AllFiles[k])
  <2>1. CASE k = n + 1
    BY <1>11, <1>12, <2>1, KubeadmFileOK DEF last
  <2>2. CASE k \in 1 .. n
    BY <1>4, <1>10, <1>11, <1>12, <2>2
  <2>3. QED
    BY <1>4, <2>1, <2>2
<1>14. QED
  BY <1>4, <1>11, <1>13 DEF items, n, files

\* What a spec has to fulfil for its file to arrive
Arriving(f) ==
  {f.path, f.owner} \cap {"no", "{{ a }}"} = {} /\ StartsAtMargin(f) /\ Untemplated(f)

Clipped(f) == [f EXCEPT !.content = Clip(@)]

\* An arriving file is read as it was written.
LEMMA ArrivingRead ==
  ASSUME NEW f \in DocumentFile, Arriving(f)
  PROVE  ReadItem(FileLines(f)) = Clipped(f)
<1>1. Literal(f.path) /\ Literal(f.owner)
  BY Zenon DEF Arriving, Literal
<1>2. QED
  BY <1>1, FileRead DEF Arriving, Untemplated, Clipped

\* What the node got are the files of the spec and the operator's.
LEMMA FilesOfNode ==
  ASSUME IInv, step = "booted"
  PROVE  /\ Len(node.files) = Len(spec.files) + 1
         /\ DOMAIN node.files = 1 .. Len(spec.files) + 1
         /\ \A k \in DOMAIN node.files :
              Arriving(AllFiles[k]) => node.files[k] = Clipped(AllFiles[k])
<1> DEFINE items == Items(FilesSection(spec.files))
<1>1. SpecOK /\ Booted /\ Generated
  BY DEF IInv
<1>2. node.files = Each(ReadItem, items)
  BY <1>1 DEF Booted, Generated, Document, ReadDocument
<1>3. PICK n \in Nat : n = Len(spec.files)
  BY <1>1, ItemsOfDocument
<1>4. items \in Seq(Seq(DocumentLine)) /\ Len(items) = n + 1
  BY <1>1, <1>3, ItemsOfDocument
<1>5. \A k \in 1 .. n + 1 :
        AllFiles[k] \in DocumentFile /\ items[k] = FileLines(AllFiles[k])
  BY <1>1, <1>3, ItemsOfDocument
<1> HIDE DEF items
<1>6. node.files = [k \in 1 .. n + 1 |-> ReadItem(items[k])]
  BY <1>2, <1>4 DEF Each
<1>7. DOMAIN node.files = 1 .. n + 1
  BY <1>6
<1>8. Len(node.files) = n + 1
  <2>1. node.files \in Seq({node.files[k] : k \in 1 .. n + 1})
    BY <1>6
  <2>2. QED
    BY <1>7, <2>1
<1>9. ASSUME NEW k \in 1 .. n + 1, Arriving(AllFiles[k])
      PROVE  node.files[k] = Clipped(AllFiles[k])
  <2>1. node.files[k] = ReadItem(FileLines(AllFiles[k]))
    BY <1>5, <1>6
  <2>2. QED
    BY <1>5, <1>9, <2>1, ArrivingRead
<1>10. QED
  BY <1>3, <1>7, <1>8, <1>9

\* What Harmless demands of users and other texts
PlainTexts == {"word", "no"}
ItemTexts == {"word", "no", "a: b"}
HarmlessUser(u) ==
  /\ u.name \in PlainTexts /\ u.sudo \in PlainTexts \cup {Unset}
  /\ ToSet(u.keys) \subseteq ItemTexts
HarmlessTexts(texts) == "{{ a }}" \notin ToSet(texts)
HarmlessItems(texts) == ToSet(texts) \subseteq ItemTexts

\* Which texts are safe
LEMMA TextsSafe ==
  /\ \A text \in PlainTexts : SafeValue(text)
  /\ \A text \in ItemTexts : SafeItem(text)
  /\ SafeValue("")
BY Zenon DEF PlainTexts, ItemTexts, SafeValue, SafeItem

\* Harmless, part by part
LEMMA HarmlessIs ==
  ASSUME Harmless
  PROVE  /\ \A f \in ToSet(spec.files) : HarmlessFile(f)
         /\ \A u \in ToSet(spec.users) : HarmlessUser(u)
         /\ HarmlessTexts(spec.commands)
         /\ \A n \in ToSet(spec.ntp) : HarmlessItems(n.servers)
<1>1. Values \subseteq PlainTexts
  BY Zenon DEF Harmless, PlainTexts
<1>2. ASSUME NEW f \in ToSet(spec.files) PROVE HarmlessFile(f)
  <2>1. f.path \in Values /\ (f.owner = "" \/ f.owner \in Values)
    BY Zenon DEF Values
  <2>2. SafeValue(f.path) /\ SafeValue(f.owner)
    BY <1>1, <2>1, TextsSafe, Zenon
  <2>3. StartsAtMargin(f) /\ Untemplated(f)
    BY Zenon DEF Harmless, Untemplated
  <2>4. QED
    BY <2>2, <2>3 DEF HarmlessFile
<1>3. ASSUME NEW u \in ToSet(spec.users) PROVE HarmlessUser(u)
  <2>1. u.name \in Values /\ (u.sudo = Unset \/ u.sudo \in Values)
    BY Zenon DEF Values
  <2>2. ToSet(u.keys) \subseteq ItemTexts
    BY Zenon DEF Harmless, ItemTexts
  <2>3. QED
    BY <1>1, <2>1, <2>2, Zenon DEF HarmlessUser
<1>4. HarmlessTexts(spec.commands)
  BY Zenon DEF Harmless, HarmlessTexts
<1>5. ASSUME NEW n \in ToSet(spec.ntp) PROVE HarmlessItems(n.servers)
  BY Zenon DEF Harmless, HarmlessItems, ItemTexts
<1>6. QED
  BY <1>2, <1>3, <1>4, <1>5

\* The texts of harmless users are safe.
LEMMA HarmlessUserSafe ==
  ASSUME NEW u \in User, HarmlessUser(u)
  PROVE  /\ Safe(Plain(u.name)) /\ (u.sudo # Unset => Safe(Plain(u.sudo)))
         /\ \A i \in DOMAIN u.keys : Safe(PlainItem(u.keys[i]))
<1>1. \A text \in PlainTexts : Safe(Plain(text))
  BY TextsSafe, SafeScalars DEF SafeValue, SafeItem
<1>2. \A text \in ItemTexts : Safe(PlainItem(text))
  BY TextsSafe, SafeScalars DEF SafeItem
<1>3. u.name \in PlainTexts /\ (u.sudo # Unset => u.sudo \in PlainTexts)
  BY Zenon DEF HarmlessUser
<1>4. ASSUME NEW i \in DOMAIN u.keys PROVE u.keys[i] \in ItemTexts
  BY Zenon DEF HarmlessUser, ToSet
<1>5. QED
  BY <1>1, <1>2, <1>3, <1>4

\* Commands without templates are safe, since they are quoted.
LEMMA HarmlessTextsSafe ==
  ASSUME NEW texts, HarmlessTexts(texts), NEW i \in DOMAIN texts
  PROVE  Safe(Quoted(texts[i]))
<1>1. texts[i] # "{{ a }}"
  BY Zenon DEF HarmlessTexts, ToSet
<1>2. QED
  BY <1>1, SafeScalars

\* So are harmless items.
LEMMA HarmlessItemsSafe ==
  ASSUME NEW texts, HarmlessItems(texts), NEW i \in DOMAIN texts
  PROVE  Safe(PlainItem(texts[i]))
<1>1. texts[i] \in ItemTexts
  BY Zenon DEF HarmlessItems, ToSet
<1>2. SafeItem(texts[i])
  BY <1>1, TextsSafe
<1>3. QED
  BY <1>2, SafeScalars DEF SafeItem

\* The texts of a document
ScalarsOf(doc) ==
  LET users == ToSet(doc.users)
  IN  {l.value : l \in ToSet(doc.files)} \cup ToSet(doc.commands)
        \cup {u.name : u \in users} \cup ({u.sudo : u \in users} \ {Unset})
        \cup (UNION {ToSet(u.keys) : u \in users})
        \cup (UNION {ToSet(n.servers) : n \in ToSet(doc.ntp)})

\* The section of harmless files is safe and well-formed.
LEMMA FilesSafe ==
  ASSUME SpecOK, \A f \in ToSet(spec.files) : HarmlessFile(f)
  PROVE  /\ FilesSection(spec.files) \in Seq(SafeLine)
         /\ \A k \in DOMAIN Items(FilesSection(spec.files)) :
              WellFormed(Items(FilesSection(spec.files))[k])
<1> DEFINE files == spec.files
           items == Items(FilesSection(files))
<1>1. files \in Seq(File)
  BY DEF SpecOK
<1>2. KubeadmFile \in DocumentFile /\ KubeadmFile \in AnyFile
  BY KubeadmFileOK DEF DocumentFile
<1>3. HarmlessFile(KubeadmFile)
  BY KubeadmFileHarmless
<1>4. ASSUME NEW k \in 1 .. Len(files)
      PROVE  files[k] \in DocumentFile /\ HarmlessFile(files[k])
  <2>1. files[k] \in File /\ files[k] \in ToSet(files)
    BY <1>1 DEF ToSet
  <2>2. QED
    BY <2>1, FileOK
<1>5. \A k \in 1 .. Len(files) : FileLines(files[k]) \in Seq(SafeLine)
  BY <1>4, FileSafe
<1>6. FileLines(KubeadmFile) \in Seq(SafeLine)
  BY <1>2, <1>3, FileSafe
<1>7. files \in Seq(AnyFile)
  <2>1. File \subseteq AnyFile
    BY FileOK DEF DocumentFile
  <2>2. QED
    BY <1>1, <2>1
<1>8. FilesSection(files) \in Seq(SafeLine)
  <2> HIDE DEF files
  <2>1. QED
    BY <1>2, <1>5, <1>6, <1>7, SectionItems
<1>9. PICK n \in Nat : n = Len(files)
  BY <1>1
<1>10. items \in Seq(Seq(DocumentLine)) /\ Len(items) = n + 1
  BY <1>9, ItemsOfDocument
<1>11. \A k \in 1 .. n + 1 :
         AllFiles[k] \in DocumentFile /\ items[k] = FileLines(AllFiles[k])
  BY <1>9, ItemsOfDocument
<1>12. DOMAIN items = 1 .. n + 1
  <2> HIDE DEF items
  <2>1. QED
    BY <1>9, <1>10
<1>13. AllFiles[n + 1] = KubeadmFile /\ \A k \in 1 .. n : AllFiles[k] = files[k]
  BY <1>1, <1>9 DEF AllFiles
<1>14. ASSUME NEW k \in 1 .. n + 1 PROVE WellFormed(items[k])
  <2>1. HarmlessFile(AllFiles[k])
    <3>1. CASE k = n + 1
      BY <1>3, <1>13, <3>1
    <3>2. CASE k \in 1 .. n
      BY <1>4, <1>9, <1>13, <3>2
    <3>3. QED
      BY <3>1, <3>2
  <2>2. AllFiles[k] \in AnyFile
    BY <1>11 DEF DocumentFile
  <2>3. QED
    BY <1>11, <2>1, <2>2, FileWellFormed DEF HarmlessFile
<1>15. QED
  BY <1>8, <1>12, <1>14

\* All texts in the document of a harmless spec are safe.
LEMMA DocumentSafe ==
  ASSUME SpecOK, Harmless, NEW s \in ScalarsOf(Document)
  PROVE  Safe(s)
<1>1. /\ \A f \in ToSet(spec.files) : HarmlessFile(f)
      /\ \A u \in ToSet(spec.users) : HarmlessUser(u)
      /\ HarmlessTexts(spec.commands)
      /\ \A n \in ToSet(spec.ntp) : HarmlessItems(n.servers)
  BY HarmlessIs
<1>2. spec.users \in Seq(User)
  BY DEF SpecOK
<1>3. /\ Document.files = FilesSection(spec.files)
      /\ Document.users = UsersSection(spec.users)
      /\ Document.commands = CommandsSection(spec.commands)
      /\ Document.ntp = NTPSection(spec.ntp)
  BY DEF Document
<1>4. ASSUME NEW v \in ToSet(Document.users)
      PROVE  \E u \in User : HarmlessUser(u) /\ v = UserLines(u)
  <2>1. PICK k \in DOMAIN spec.users : v = UserLines(spec.users[k])
    BY <1>3 DEF ToSet, UsersSection, Each
  <2>2. spec.users[k] \in User /\ spec.users[k] \in ToSet(spec.users)
    BY <1>2 DEF ToSet
  <2>3. QED
    BY <1>1, <2>1, <2>2
<1>5. ASSUME NEW u \in User
      PROVE  /\ UserLines(u).name = Plain(u.name)
             /\ UserLines(u).sudo = IF u.sudo = Unset THEN Unset ELSE Plain(u.sudo)
             /\ UserLines(u).keys = [k \in DOMAIN u.keys |-> PlainItem(u.keys[k])]
  BY DEF UserLines, User, Each
<1>6. CASE s \in {l.value : l \in ToSet(Document.files)}
  <2>1. PICK l \in ToSet(FilesSection(spec.files)) : s = l.value
    BY <1>3, <1>6
  <2>2. FilesSection(spec.files) \in Seq(SafeLine)
    BY <1>1, FilesSafe
  <2>3. l \in SafeLine
    BY <2>2 DEF ToSet
  <2>4. QED
    BY <2>1, <2>3 DEF SafeLine
<1>7. CASE s \in ToSet(Document.commands)
  <2>1. PICK k \in DOMAIN spec.commands : s = Quoted(spec.commands[k])
    BY <1>3, <1>7 DEF CommandsSection, Each, ToSet
  <2>2. QED
    BY <1>1, <2>1, HarmlessTextsSafe
<1>8. CASE s \in {u.name : u \in ToSet(Document.users)}
  <2>1. PICK v \in ToSet(Document.users) : s = v.name
    BY <1>8
  <2>2. PICK u \in User : HarmlessUser(u) /\ v = UserLines(u)
    BY <1>4
  <2>3. s = Plain(u.name)
    BY <1>5, <2>1, <2>2
  <2>4. QED
    BY <2>2, <2>3, HarmlessUserSafe
<1>9. CASE s \in {u.sudo : u \in ToSet(Document.users)} \ {Unset}
  <2>1. PICK v \in ToSet(Document.users) : s = v.sudo /\ s # Unset
    BY <1>9
  <2>2. PICK u \in User : HarmlessUser(u) /\ v = UserLines(u)
    BY <1>4
  <2>3. s = Plain(u.sudo) /\ u.sudo # Unset
    BY <1>5, <2>1, <2>2
  <2>4. QED
    BY <2>2, <2>3, HarmlessUserSafe
<1>10. CASE s \in UNION {ToSet(u.keys) : u \in ToSet(Document.users)}
  <2>1. PICK v \in ToSet(Document.users) : s \in ToSet(v.keys)
    BY <1>10
  <2>2. PICK u \in User : HarmlessUser(u) /\ v = UserLines(u)
    BY <1>4
  <2>3. PICK i \in DOMAIN u.keys : s = PlainItem(u.keys[i])
    BY <1>5, <2>1, <2>2 DEF ToSet
  <2>4. QED
    BY <2>2, <2>3, HarmlessUserSafe
<1>11. CASE s \in UNION {ToSet(n.servers) : n \in ToSet(Document.ntp)}
  <2>1. PICK m \in ToSet(Document.ntp) : s \in ToSet(m.servers)
    BY <1>11
  <2>2. PICK k \in DOMAIN spec.ntp :
          m.servers = [i \in DOMAIN spec.ntp[k].servers |->
                         PlainItem(spec.ntp[k].servers[i])]
    BY <1>3, <2>1 DEF NTPSection, Each, ToSet
  <2>3. PICK i \in DOMAIN spec.ntp[k].servers :
          s = PlainItem(spec.ntp[k].servers[i])
    BY <2>1, <2>2 DEF ToSet
  <2>4. spec.ntp[k] \in ToSet(spec.ntp)
    BY DEF ToSet
  <2>5. QED
    BY <1>1, <2>3, <2>4, HarmlessItemsSafe
<1>12. \/ s \in {l.value : l \in ToSet(Document.files)}
       \/ s \in ToSet(Document.commands)
       \/ s \in {u.name : u \in ToSet(Document.users)}
       \/ s \in {u.sudo : u \in ToSet(Document.users)} \ {Unset}
       \/ s \in UNION {ToSet(u.keys) : u \in ToSet(Document.users)}
       \/ s \in UNION {ToSet(n.servers) : n \in ToSet(Document.ntp)}
  <2> DEFINE A == {l.value : l \in ToSet(Document.files)}
             B == ToSet(Document.commands)
             C == {u.name : u \in ToSet(Document.users)}
             D == {u.sudo : u \in ToSet(Document.users)} \ {Unset}
             E == UNION {ToSet(u.keys) : u \in ToSet(Document.users)}
             F == UNION {ToSet(n.servers) : n \in ToSet(Document.ntp)}
  <2>1. ScalarsOf(Document) = A \cup B \cup C \cup D \cup E \cup F
    BY Zenon DEF ScalarsOf
  <2> HIDE DEF A, B, C, D, E, F
  <2>2. s \in A \/ s \in B \/ s \in C \/ s \in D \/ s \in E \/ s \in F
    BY <2>1
  <2>3. QED
    BY <2>2 DEF A, B, C, D, E, F
<1>13. QED
  BY <1>6, <1>7, <1>8, <1>9, <1>10, <1>11, <1>12

\* So that document is YAML, and has no template.
LEMMA HarmlessBoots ==
  ASSUME SpecOK, Harmless, userData = Document
  PROVE  IsYAML(Items(userData.files)) /\ ~ HasTemplate
<1>1. Scalars = ScalarsOf(Document)
  BY DEF Scalars, ScalarsOf
<1>2. \A s \in Scalars : Safe(s)
  BY <1>1, DocumentSafe
<1>3. userData.files = FilesSection(spec.files)
  BY DEF Document
<1>4. \A f \in ToSet(spec.files) : HarmlessFile(f)
  BY HarmlessIs
<1>5. \A k \in DOMAIN Items(userData.files) : WellFormed(Items(userData.files)[k])
  BY <1>3, <1>4, FilesSafe
<1>6. QED
  BY <1>2, <1>5 DEF IsYAML, HasTemplate, Safe

\* ... and that files do.
LEMMA FilesFromInvariant == IInv => FilesArrive
<1> SUFFICES ASSUME IInv PROVE FilesArrive
  OBVIOUS
<1>1. step = "broken" => ~ Harmless
  <2>1. SUFFICES ASSUME step = "broken", Harmless PROVE FALSE
    OBVIOUS
  <2>2. SpecOK /\ userData = Document
        /\ (IsYAML(Items(userData.files)) => HasTemplate)
    BY <2>1 DEF IInv, Generated, Broken
  <2>3. QED
    BY <2>1, <2>2, HarmlessBoots
<1>2. ASSUME step = "booted"
      PROVE  /\ Len(node.files) = Len(spec.files) + 1
             /\ \A k \in DOMAIN node.files :
                  Arriving(AllFiles[k]) => node.files[k] = Clipped(AllFiles[k])
  BY <1>2, FilesOfNode
<1>3. QED
  BY <1>1, <1>2, Zenon DEF FilesArrive, Arriving, AllFiles, Clipped, Untemplated

-----------------------------------------------------------------------------
(* The theorems *)

\* Files that start at the margin arrive, for any number of files of any length.
THEOREM FilesArriveHolds == Spec => []FilesArrive
  BY Invariance, FilesFromInvariant, PTL

\* Commands arrive, for any number of them and any texts.
THEOREM CommandsArriveHolds == Spec => []CommandsArrive
  BY Invariance, CommandsFromInvariant, PTL

\* Users made of words arrive, for any number of them.
THEOREM UsersArriveHolds == Spec => []UsersArrive
  BY Invariance, UsersFromInvariant, PTL

=============================================================================
