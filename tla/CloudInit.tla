----------------------------- MODULE CloudInit -----------------------------
(***************************************************************************)
(* util/cloudinit: the user data generated from the spec of a NodeConfig,  *)
(* and what cloud-init makes of it when the node boots: Jinja first, for   *)
(* the header asks for it, then the YAML reader.                           *)
(*                                                                         *)
(* write_files is modelled line by line, since the contents of files get   *)
(* into the document by being indented.  The other sections are mappings   *)
(* and lists whose fields stand on lines of their own, and are modelled as *)
(* records and sequences.                                                  *)
(***************************************************************************)
EXTENDS Naturals, Sequences, SequencesExt

CONSTANTS
  Texts,        \* the texts which users put into a spec
  Names,        \* those which they put into paths, owners and names
  Flags,        \* and the pointers to Booleans
  MaxItems,     \* bound on the files, users, commands and NTP of a spec
  MaxFiles,     \* bound on its files
  MaxLines,     \* bound on the lines of a file
  MaxUsers,     \* bound on its users
  MaxCommands,  \* bound on its commands
  Unset         \* a pointer that is nil

VARIABLES
  spec,      \* files, users, commands and NTP of a NodeConfig
  step,      \* "spec", then "generated", then "booted" or "broken"
  userData,  \* the document
  node       \* what cloud-init read
vars == <<spec, step, userData, node>>

\* Texts differ in what Jinja and YAML make of them where they are not quoted:
\* nothing special, another scalar (a Boolean), a mapping, nothing at all, as
\* with what begins like an alias or a list, and a template.
Text == {"word", "no", "a: b", "@x", "{{ a }}"}

ASSUME TextsAssumption == Texts \subseteq Text /\ Names \subseteq Text

ASSUME FlagsAssumption == Flags \subseteq BOOLEAN \cup {Unset}

ASSUME BoundsAssumption ==
  {MaxItems, MaxFiles, MaxLines, MaxUsers, MaxCommands} \subseteq Nat

\* A line of a file; the word of a blank one is empty.  In a block of lines
\* YAML reads nothing into words.
TextLine == [indent : 0 .. 1, word : {""} \cup (Texts \cap {"word", "{{ a }}"})]

File == [path : Names, owner : {""} \cup Names, permissions : {"", "0755"},
         content : BoundedSeq(TextLine, MaxLines) \ {<<>>}]

\* sudo stands for all optional strings of a user.
User == [name : Names, sudo : Texts \cup {Unset}, keys : BoundedSeq(Texts, 1),
         inactive : Flags, lockPassword : Flags]

NTP == [enabled : Flags, servers : BoundedSeq(Texts, 1)]

\* The spec's pointer to NTP is a sequence of at most one.
Nothing == [files |-> <<>>, users |-> <<>>, commands |-> <<>>, ntp |-> <<>>]

Seqs(S, n) == [1 .. n -> S]

Init ==
  /\ \E f \in 0 .. MaxFiles, u \in 0 .. MaxUsers, c \in 0 .. MaxCommands,
        n \in 0 .. 1 :
       /\ f + u + c + n <= MaxItems
       /\ spec \in [files : Seqs(File, f), users : Seqs(User, u),
                    commands : Seqs(Texts, c), ntp : Seqs(NTP, n)]
  /\ step = "spec"
  /\ userData = Nothing
  /\ node = Nothing

-----------------------------------------------------------------------------
(* The templates *)

\* A text in the document: the plain value of a key, a plain item of a list,
\* a text in quotes, or a line of a block
Scalar(style, text) == [style |-> style, text |-> text]
Plain(text) == Scalar("plain", text)
Quoted(text) == Scalar("quoted", text)
PlainItem(text) == Scalar("item", text)

\* A nil pointer is no text, neither in a spec nor in a document.
ASSUME UnsetAssumption ==
  \A text \in Text : Unset # text /\ Unset # Plain(text)

Each(Op(_), seq) == [k \in DOMAIN seq |-> Op(seq[k])]

Line(indent, key, value) == [indent |-> indent, key |-> key, value |-> value]

\* Mutant of Indent: the first line is left where it is.
IndentOthers(n, content) ==
  [k \in DOMAIN content |->
     Line(content[k].indent + IF k = 1 THEN 0 ELSE n, "",
          Scalar("block", content[k].word))]

Indent(n, content) ==
  [k \in DOMAIN content |->
     Line(content[k].indent + n, "", Scalar("block", content[k].word))]

Given(text, line) == IF text = "" THEN <<>> ELSE <<line>>

FileLines(f) ==
  <<Line(0, "path", Plain(f.path))>>
    \o Given(f.owner, Line(4, "owner", Plain(f.owner)))
    \o Given(f.permissions, Line(4, "permissions", Quoted(f.permissions)))
    \o <<Line(4, "content", Plain("|"))>>
    \o Indent(6, f.content)

\* The file that every node gets, behind those of the spec.
KubeadmFile ==
  [path |-> "/tmp/kubeadm-node.yaml", owner |-> "root:root",
   permissions |-> "0640",
   content |-> <<[indent |-> 0, word |-> "---"], [indent |-> 0, word |-> ""]>>]

FilesSection(files) ==
  FlattenSeq(Each(FileLines, files)) \o FileLines(KubeadmFile)

\* Mutant of CommandsSection: without the quotes of %q.
PlainCommands(commands) == Each(PlainItem, commands)

CommandsSection(commands) == Each(Quoted, commands)

\* The condition of a template tests whether the pointer is nil.
Rendered(flag) == IF flag = Unset THEN Unset ELSE TRUE

NTPSection(ntp) ==
  Each(LAMBDA n : [enabled |-> Rendered(n.enabled),
                   servers |-> Each(PlainItem, n.servers)],
       ntp)

UserLines(u) ==
  [u EXCEPT !.name = Plain(@),
            !.sudo = IF @ = Unset THEN @ ELSE Plain(@),
            !.keys = Each(PlainItem, @),
            !.inactive = Rendered(@)]

\* Mutant of UsersSection: all flags are rendered alike.
LockedUsers(users) ==
  Each(LAMBDA u : [UserLines(u) EXCEPT !.lockPassword = Rendered(@)], users)

UsersSection(users) == Each(UserLines, users)

Document ==
  [files |-> FilesSection(spec.files), users |-> UsersSection(spec.users),
   commands |-> CommandsSection(spec.commands), ntp |-> NTPSection(spec.ntp)]

NewNode ==
  /\ step = "spec"
  /\ userData' = Document
  /\ step' = "generated"
  /\ UNCHANGED <<spec, node>>

-----------------------------------------------------------------------------
(* cloud-init *)

\* What is read where a text stands.  A template is replaced by what it
\* evaluates to, wherever it is.
Read(scalar) ==
  CASE scalar.text = "{{ a }}" -> "rendered"
    [] scalar.style \in {"plain", "item"} /\ scalar.text = "no" -> "false"
    [] scalar.style = "item" /\ scalar.text = "a: b" -> "mapping"
    [] OTHER -> scalar.text

\* A mapping is not allowed behind a key on the same line, and some texts are
\* not allowed without quotes anywhere.
Refused(scalar) ==
  \/ scalar.style = "plain" /\ scalar.text = "a: b"
  \/ scalar.style \in {"plain", "item"} /\ scalar.text = "@x"

\* Lines without the empty ones at their end
Clip(lines) ==
  LET kept == {k \in DOMAIN lines : lines[k] # [indent |-> 0, word |-> ""]}
  IN  IF kept = {} THEN <<>> ELSE SubSeq(lines, 1, Max(kept))

\* An item of write_files begins with its path, and the lines up to the next
\* path belong to it.
AddLine(items, line) ==
  IF line.key = "path" THEN Append(items, <<line>>)
  ELSE [items EXCEPT ![Len(items)] = Append(@, line)]

\* The items, read line by line
Items(lines) ==
  LET items[k \in 0 .. Len(lines)] ==
        IF k = 0 THEN <<>> ELSE AddLine(items[k - 1], lines[k])
  IN  items[Len(lines)]

\* The line of an item where a key is; 0 when it is not there
LineOf(item, key) == SelectInSeq(item, LAMBDA l : l.key = key)

\* The lines behind "content: |"
Block(item) == SubSeq(item, LineOf(item, "content") + 1, Len(item))

Blank(line) == line.value.text = ""

\* The blank lines at the beginning, and the first one that is not blank: the
\* deepest of them says how far the text is indented.
Leading(block) == {k \in DOMAIN block : \A j \in 1 .. k - 1 : Blank(block[j])}

Indentation(block) == Max({block[k].indent : k \in Leading(block)})

\* The block has to be indented deeper than its key, and a line which is less
\* indented than the text ends it: what is left is no YAML.
WellFormed(item) ==
  LET block == Block(item)
  IN  \A k \in DOMAIN block :
        \/ Blank(block[k])
        \/ block[k].indent > 4 /\ block[k].indent >= Indentation(block)

\* A field of an item; "" when it is not there
Field(item, key) ==
  LET k == LineOf(item, key)
  IN  IF k = 0 THEN "" ELSE Read(item[k].value)

\* Of a blank line, too, what is deeper than the text is part of it.
ReadItem(item) ==
  LET block == Block(item)
      n == Indentation(block)
  IN  [path |-> Field(item, "path"), owner |-> Field(item, "owner"),
       permissions |-> Field(item, "permissions"),
       content |-> Clip([k \in DOMAIN block |->
                     [indent |-> IF block[k].indent <= n THEN 0
                                 ELSE block[k].indent - n,
                      word |-> Read(block[k].value)]])]

ReadUser(u) == [u EXCEPT !.name = Read(@),
                         !.sudo = IF @ = Unset THEN @ ELSE Read(@),
                         !.keys = Each(Read, @)]

ReadNTP(n) == [n EXCEPT !.servers = Each(Read, @)]

\* All texts of the document
Scalars ==
  LET users == ToSet(userData.users)
  IN  {l.value : l \in ToSet(userData.files)} \cup ToSet(userData.commands)
        \cup {u.name : u \in users} \cup ({u.sudo : u \in users} \ {Unset})
        \cup (UNION {ToSet(u.keys) : u \in users})
        \cup (UNION {ToSet(n.servers) : n \in ToSet(userData.ntp)})

ReadDocument(items) ==
  [files |-> Each(ReadItem, items),
   users |-> Each(ReadUser, userData.users),
   commands |-> Each(Read, userData.commands),
   ntp |-> Each(ReadNTP, userData.ntp)]

IsYAML(items) ==
  /\ \A s \in Scalars : ~Refused(s)
  /\ \A k \in DOMAIN items : WellFormed(items[k])

HasTemplate == \E s \in Scalars : s.text = "{{ a }}"

\* A document that is no YAML is refused, and Jinja may refuse a template.
Boot ==
  /\ step = "generated"
  /\ LET items == Items(userData.files)
     IN  \/ /\ IsYAML(items)
            /\ step' = "booted"
            /\ node' = ReadDocument(items)
         \/ /\ IsYAML(items) => HasTemplate
            /\ step' = "broken"
            /\ UNCHANGED node
  /\ UNCHANGED <<spec, userData>>

Next == NewNode \/ Boot

Spec == Init /\ [][Next]_vars

-----------------------------------------------------------------------------
(* Properties *)

\* Whether neither the first line that is not blank nor a blank one before it
\* is indented
StartsAtMargin(f) ==
  \A k \in DOMAIN f.content :
    (\A j \in 1 .. k - 1 : f.content[j].word = "") => f.content[k].indent = 0

Lines(f) == {l.word : l \in ToSet(f.content)}

\* The texts of a user, of which all are written plain
UserTexts(u) == ({u.name, u.sudo} \cup ToSet(u.keys)) \ {Unset}

\* The texts behind a key on the same line
Values ==
  LET files == ToSet(spec.files)
      users == ToSet(spec.users)
  IN  {f.path : f \in files} \cup ({f.owner : f \in files} \ {""})
        \cup {u.name : u \in users} \cup ({u.sudo : u \in users} \ {Unset})

\* Specs without templates, and without texts that YAML refuses where they
\* stand.  It may still take texts for something else, and commands may look
\* like anything.
Harmless ==
  /\ \A f \in ToSet(spec.files) :
       StartsAtMargin(f) /\ "{{ a }}" \notin Lines(f)
  /\ Values \subseteq {"word", "no"}
  /\ \A x \in ToSet(spec.users) : ToSet(x.keys) \subseteq {"word", "no", "a: b"}
  /\ \A x \in ToSet(spec.ntp) : ToSet(x.servers) \subseteq {"word", "no", "a: b"}
  /\ "{{ a }}" \notin ToSet(spec.commands)

\* A harmless spec gives a document that can be read.  Files that start at the
\* margin arrive on the node, each with its content and in their order, the
\* one of the operator behind them, whatever else is in the document; only the
\* empty lines at the end of a file may differ.
FilesArrive ==
  /\ step = "broken" => ~Harmless
  /\ step = "booted" =>
       /\ Len(node.files) = Len(spec.files) + 1
       /\ \A k \in DOMAIN node.files :
            LET f == (spec.files \o <<KubeadmFile>>)[k]
            IN  /\ {f.path, f.owner} \cap {"no", "{{ a }}"} = {}
                /\ StartsAtMargin(f)
                /\ "{{ a }}" \notin Lines(f)
                => node.files[k] = [f EXCEPT !.content = Clip(@)]

\* Commands arrive in their order, whatever they look like in YAML; only what
\* looks like a template does not.
CommandsArrive ==
  step = "booted" =>
    /\ Len(node.commands) = Len(spec.commands)
    /\ \A k \in DOMAIN spec.commands :
         spec.commands[k] # "{{ a }}" => node.commands[k] = spec.commands[k]

\* Users whose texts are words arrive in their order, and with the password
\* locked or not as the spec says.
UsersArrive ==
  step = "booted" =>
    /\ Len(node.users) = Len(spec.users)
    /\ \A k \in DOMAIN spec.users :
         UserTexts(spec.users[k]) = {"word"} =>
           node.users[k] = [spec.users[k] EXCEPT !.inactive = node.users[k].inactive]

-----------------------------------------------------------------------------
(* Claims of comments, all of them refuted *)

\* nodeconfig_types.go:259: the content is the actual content of the file.
\* So every file arrives, whatever its first line looks like.
ContentKept ==
  /\ step # "broken"
  /\ step = "booted" => \A k \in DOMAIN spec.files :
       node.files[k].content = Clip(spec.files[k].content)

\* nodeconfig_types.go:280, :315: whether to mark the user as inactive, and
\* whether NTP should be enabled.  So neither is done when the flag is FALSE.
FlagsKept ==
  step = "booted" =>
    /\ \A k \in DOMAIN spec.ntp :
         spec.ntp[k].enabled = FALSE => node.ntp[k].enabled # TRUE
    /\ \A k \in DOMAIN spec.users :
         spec.users[k].inactive = FALSE => node.users[k].inactive # TRUE

=============================================================================
