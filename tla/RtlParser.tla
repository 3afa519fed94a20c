------------------------------ MODULE RtlParser ------------------------------
(***************************************************************************)
(* The microcode toolchain, line by line.  rtlparser.sh reads the listing  *)
(* once, keeping the labels of the open constructs in shell variables      *)
(* named after the nesting level, and writes lines that still refer to     *)
(* those variables; at each fi or until it substitutes the references of   *)
(* that level in everything written so far.  ucodegenerator.py and         *)
(* jtabgenerator.py then turn the result into the two memory images.       *)
(*                                                                         *)
(* One step is one turn of the script's while loop; an elif is a line      *)
(* "else" that sed has inserted and then the elif.                         *)
(***************************************************************************)
EXTENDS RtlListing

CONSTANT Listings   \* the listings that may be parsed

(* The construct of line m is still open before line k. *)
StaysOpen(L, m, k) == \A j \in (m + 1)..k : Opened(L, j) >= Nesting(L, m)

(* Line k is in a construct that a line of the given kind opened. *)
Encloses(L, kind, k) ==
  \E m \in 1..(k - 1) : /\ L[m].kind = kind /\ Nesting(L, m) = Nesting(L, k)
                        /\ StaysOpen(L, m, k)

(* Ifs and loops are properly nested, and all are closed in the end. *)
WellNested(L) ==
  /\ L \in Seq({L[k] : k \in DOMAIN L})
  /\ \A k \in DOMAIN L : L[k].kind \in ClauseKinds => Encloses(L, "if", k)
  /\ \A k \in DOMAIN L : L[k].kind = "until" => Encloses(L, "loop", k)
  /\ Opened(L, Len(L) + 1) = 0

(* A place has one label, and a name that the script's greps do not take for a
   loop, an else or a fi.                                                  *)
WellNamed(L) ==
  LET labels == {k \in DOMAIN L : L[k].kind = "label"}
  IN  /\ \A k \in DOMAIN L : L[k].kind \in NameKinds => L[k].text \notin {"loop", "else", "fi"}
      /\ \A j, k \in labels : L[j].text = L[k].text => j = k
      /\ \A k \in DOMAIN L : L[k].kind \in {"here", "call"} =>
            \E j \in labels : L[j].text = L[k].text

ASSUME ListingsAssumption == \A L \in Listings : WellNested(L) /\ WellNamed(L)

VARIABLES
  listing,    \* the listing being parsed
  n,          \* the line to read next
  address,    \* the address of the next microinstruction
  loops, elses, fis,  \* how many labels of each family have been made
  level,      \* how many constructs are open
  saved,      \* saved[lvl] is $arr<lvl>_0: a number of labels of that level
  arr,        \* arr[<<lvl, k>>] is $arr<lvl>_<k>: a label
  microtemp,  \* the lines written so far
  jumptable,  \* the second column of the jump table: labels
  at          \* its first column, by label: rows of one name share an address

vars == <<listing, n, address, loops, elses, fis, level, saved, arr,
          microtemp, jumptable, at>>

NoLabel == <<"", 0>>
Named(name) == <<name, 0>>

(* The names come first, in listing order, so that low rows are opcodes. *)
InitialTable(L) ==
  LET nth(i) == CHOOSE k \in DOMAIN L : L[k].kind \in NameKinds /\ Before(L, k, NameKinds) = i - 1
  IN  <<>> \o [i \in 1..Before(L, Len(L) + 1, NameKinds) |-> Named(L[nth(i)].text)]

(* A variable of the shell, or a line of a file, gets a value. *)
Assign(f, x, v) == [y \in DOMAIN f \cup {x} |-> IF y = x THEN v ELSE f[y]]

Init == /\ listing \in Listings
        /\ n = 1 /\ address = 0 /\ level = 0
        /\ loops = 0 /\ elses = 0 /\ fis = 0
        /\ saved = [lvl \in {0} |-> 0]
        /\ arr = [slot \in {<<0, 0>>} |-> NoLabel]
        /\ microtemp = <<>>
        /\ jumptable = InitialTable(listing)
        /\ at = [label \in {NoLabel} |-> 0]

Current == listing[n]

(* A written line and the reference $arr<lvl>_<k> it ends with; lvl = 0: none,
   its destination (if any) is known.                                      *)
Emitted(line, lvl, k, dest) ==
  [kind |-> line.kind, text |-> line.text, lvl |-> lvl, k |-> k, dest |-> dest]
Written(line, lvl, k) == Emitted(line, lvl, k, NoLabel)

Lookup(slots, lvl, k) == IF <<lvl, k>> \in DOMAIN slots THEN slots[<<lvl, k>>] ELSE NoLabel

(* microcodewriteback: slot 0 holds the number of the last label. *)
Writeback(lines, slots) ==
  [l \in DOMAIN lines |->
     LET m == lines[l]
     IN  IF m.lvl = level /\ m.lvl # 0
         THEN Emitted(m, 0, m.k, Lookup(slots, level, IF m.k = 0 THEN saved[level] ELSE m.k))
         ELSE m]

(* processlangbranch: a new row of the jump table. *)
NewRow(label, addr) == /\ jumptable' = Append(jumptable, label)
                       /\ at' = Assign(at, label, addr)

ReadLoop ==
  LET label == <<"loop", loops>>
  IN  /\ Current.kind = "loop"
      /\ level' = level + 1
      /\ arr' = Assign(arr, <<level + 1, 1>>, label)
      /\ saved' = Assign(saved, level + 1, 1)
      /\ NewRow(label, address)
      /\ loops' = loops + 1
      /\ UNCHANGED <<address, elses, fis, microtemp>>

(* Mutant: the label of an else lands on the jump that ends the clause before. *)
ReadElseEarly ==
  LET label == <<"else", elses>>
      test  == IF Current.kind = "elif"
               THEN <<Written(Current, level, saved[level] + 1)>> ELSE <<>>
  IN  /\ Current.kind \in ElseKinds
      /\ arr' = Assign(arr, <<level, saved[level]>>, label)
      /\ saved' = [saved EXCEPT ![level] = @ + 1]
      /\ NewRow(label, address)
      /\ microtemp' = microtemp \o <<Written(Else, level, 0)>> \o test
      /\ address' = address + 1 + Len(test)
      /\ elses' = elses + 1
      /\ UNCHANGED <<loops, fis, level>>

(* An else ends the clause before it with a jump, then starts its own. *)
ReadElse ==
  LET label == <<"else", elses>>
      test  == IF Current.kind = "elif"
               THEN <<Written(Current, level, saved[level] + 1)>> ELSE <<>>
  IN  /\ Current.kind \in ElseKinds
      /\ arr' = Assign(arr, <<level, saved[level]>>, label)
      /\ saved' = [saved EXCEPT ![level] = @ + 1]
      /\ NewRow(label, address + 1)
      /\ microtemp' = microtemp \o <<Written(Else, level, 0)>> \o test
      /\ address' = address + 1 + Len(test)
      /\ elses' = elses + 1
      /\ UNCHANGED <<loops, fis, level>>

(* Mutant: only until resolves references. *)
ReadFiUnresolved ==
  LET label == <<"fi", fis>>
  IN  /\ Current.kind = "fi"
      /\ arr' = Assign(arr, <<level, saved[level]>>, label)
      /\ NewRow(label, address)
      /\ level' = level - 1
      /\ fis' = fis + 1
      /\ UNCHANGED <<microtemp, address, loops, elses, saved>>

ReadFi ==
  LET label == <<"fi", fis>>
      slots == Assign(arr, <<level, saved[level]>>, label)
  IN  /\ Current.kind = "fi"
      /\ arr' = slots
      /\ NewRow(label, address)
      /\ microtemp' = Writeback(microtemp, slots)
      /\ level' = level - 1
      /\ fis' = fis + 1
      /\ UNCHANGED <<address, loops, elses, saved>>

ReadName ==
  /\ Current.kind \in NameKinds
  /\ at' = IF Current.kind = "label" THEN Assign(at, Named(Current.text), address) ELSE at
  /\ UNCHANGED <<address, loops, elses, fis, level, saved, arr, microtemp, jumptable>>

(* Mutant: the jump of an until is not counted. *)
ReadUntilUncounted ==
  /\ Current.kind = "until"
  /\ microtemp' = Writeback(Append(microtemp, Written(Current, level, 1)), arr)
  /\ level' = level - 1
  /\ UNCHANGED <<address, loops, elses, fis, saved, arr, jumptable, at>>

ReadUntil ==
  /\ Current.kind = "until"
  /\ microtemp' = Writeback(Append(microtemp, Written(Current, level, 1)), arr)
  /\ level' = level - 1
  /\ address' = address + 1
  /\ UNCHANGED <<loops, elses, fis, saved, arr, jumptable, at>>

ReadIf ==
  /\ Current.kind = "if"
  /\ level' = level + 1
  /\ saved' = Assign(saved, level + 1, 1)
  /\ microtemp' = Append(microtemp, Written(Current, level + 1, 1))
  /\ address' = address + 1
  /\ UNCHANGED <<loops, elses, fis, arr, jumptable, at>>

ReadPlain ==
  /\ Current.kind \notin NameKinds \cup MarkKinds \cup {"until", "if"}
  /\ microtemp' = Append(microtemp, Written(Current, 0, 0))
  /\ address' = address + 1
  /\ UNCHANGED <<loops, elses, fis, level, saved, arr, jumptable, at>>

AtEnd == n > Len(listing)

Read == /\ ~AtEnd
        /\ n' = n + 1
        /\ UNCHANGED listing
        /\ \/ ReadLoop \/ ReadElse \/ ReadFi \/ ReadName
           \/ ReadUntil \/ ReadIf \/ ReadPlain

Done == AtEnd /\ UNCHANGED vars

Next == Read \/ Done

Spec == Init /\ [][Next]_vars

-----------------------------------------------------------------------------
(* ucodegenerator.py and jtabgenerator.py, on the finished files. *)

(* The dictionary keeps the last row of a label that has several. *)
RowOf(label) ==
  (CHOOSE k \in DOMAIN jumptable :
     /\ jumptable[k] = label
     /\ \A j \in (k + 1)..Len(jumptable) : jumptable[j] # label) - 1

Translate(m) ==
  CASE m.kind = "rtl"  -> Micro("ctrl", "always", m.text, 0)
    [] m.kind = "call" -> Micro("call", "always", "", RowOf(Named(m.text)))
    [] m.kind \in {"if", "elif", "until"} -> Micro("jump", m.text, "", RowOf(m.dest))
    [] m.kind = "else" -> Micro("jump", "always", "", RowOf(m.dest))
    [] OTHER           -> Micro(m.kind, "always", "", 0)

MicroFile == [l \in DOMAIN microtemp |-> Translate(microtemp[l])]
JumpFile  == [k \in DOMAIN jumptable |-> at[jumptable[k]]]

-----------------------------------------------------------------------------
\* The address the script counts is the number of lines it has written: the
\* rows of the jump table point where the lines really land.
AddressCounts == address = Len(microtemp)

\* A line keeps a reference to a shell variable only while its construct is
\* open: closing a level resolves every reference of that level, whatever was
\* parsed inside it, so that reusing the variables never changes old lines.
ReferencesOpen ==
  /\ \A l \in DOMAIN microtemp : microtemp[l].lvl <= level
  /\ AtEnd => \A l \in DOMAIN microtemp : microtemp[l].lvl = 0

\* The files are the images that the structure of the listing calls for.
ImagesRight == AtEnd => /\ MicroFile = MicroImage(Placed(listing))
                        /\ JumpFile = JumpImage(Placed(listing))
=============================================================================
