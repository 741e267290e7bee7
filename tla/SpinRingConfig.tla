--------------------------- MODULE SpinRingConfig ---------------------------
(***************************************************************************)
(* GarnetNetwork::init_spinRing: the loop that reads the spin-ring file    *)
(* and the code after it that fills in and closes the ring.               *)
(*                                                                         *)
(* The file is a sequence of tokens and a flag for whitespace after the    *)
(* last one.  "infile >> s" skips whitespace and reads a token; eof() is   *)
(* set when the read reaches the end of the file, which happens while      *)
(* reading the last token only if no whitespace follows it.  A read that   *)
(* finds no token sets eof and failbit and leaves s unchanged, and every   *)
(* read after a failed one fails too.                                      *)
(***************************************************************************)
EXTENDS Mesh, Integers, Sequences, TLC

CONSTANTS
  RouterToks,   \* the router-id tokens a file may hold (numbers)
  DirToks,      \* the direction tokens a file may hold
  MaxToks,      \* the longest file considered
  TrailingWs    \* whether whitespace may follow the last token ({FALSE}, {TRUE, FALSE})

\* Mutant of DirName: only the upper-case letters are recognised.
DirNameUpper == [t \in {"N", "E", "S", "W"} |->
                   CASE t = "N" -> "North" [] t = "E" -> "East"
                     [] t = "S" -> "South" [] t = "W" -> "West"]

\* The direction tokens init_spinRing accepts and what they become.
DirName == [t \in {"N", "n", "E", "e", "S", "s", "W", "w"} |->
              CASE t \in {"N", "n"} -> "North"
                [] t \in {"E", "e"} -> "East"
                [] t \in {"S", "s"} -> "South"
                [] t \in {"W", "w"} -> "West"]

\* The files of k tokens: a router-id token, then a direction token, ...
RECURSIVE FilesOf(_)
FilesOf(k) ==
  IF k = 0 THEN {<<>>}
  ELSE {Append(f, t) : f \in FilesOf(k - 1),
                       t \in IF k % 2 = 1 THEN RouterToks ELSE DirToks}

Files == UNION {FilesOf(k) : k \in 0 .. MaxToks}

VARIABLES
  file, trailing,   \* the file's tokens, whitespace after the last one
  pos,              \* the next token the stream would read
  eof, fail,        \* the stream's eofbit and failbit
  data, data1,      \* the two strings of the loop
  spinRing,         \* the ring built so far
  pc                \* "loop", then "done", "fatal" or "abort"

vars == <<file, trailing, pos, eof, fail, data, data1, spinRing, pc>>

\* One "infile >> s" at token p with failbit fl: the stream after it and
\* the value s then holds.
Extract(s, p, fl) ==
  IF ~fl /\ p <= Len(file)
  THEN [val |-> file[p], pos |-> p + 1, fail |-> FALSE,
        eof |-> p = Len(file) /\ ~trailing]
  ELSE [val |-> s, pos |-> p, fail |-> TRUE, eof |-> TRUE]

(* The file opens; spinRing holds the placeholder spinStruct(-1,          *)
(* "Unknown") for node 0.  data and data1 start as empty strings.        *)
Init ==
  /\ file \in Files /\ trailing \in TrailingWs
  /\ pos = 1 /\ eof = FALSE /\ fail = FALSE
  /\ data = "" /\ data1 = ""
  /\ spinRing = << <<-1, "Unknown">> >>
  /\ pc = "loop"

\* Mutant of ReadPair: the token itself is stored instead of its name.
ReadPairRaw ==
  /\ pc = "loop" /\ ~eof
  /\ LET a == Extract(data, pos, fail)
         b == Extract(data1, a.pos, a.fail)
     IN  /\ pos' = b.pos /\ eof' = (a.eof \/ b.eof) /\ fail' = b.fail
         /\ data' = a.val /\ data1' = b.val
         /\ IF b.val \in DOMAIN DirName
            THEN spinRing' = Append(spinRing, <<a.val, b.val>>) /\ pc' = "loop"
            ELSE spinRing' = spinRing /\ pc' = "fatal"
  /\ UNCHANGED <<file, trailing>>

(* One pass of "while (!infile.eof())": two reads, the direction check   *)
(* (fatal on anything but N|n|E|e|S|s|W|w) and the push_back of           *)
(* spinStruct(stoi(data), data1).                                         *)
ReadPair ==
  /\ pc = "loop" /\ ~eof
  /\ LET a == Extract(data, pos, fail)
         b == Extract(data1, a.pos, a.fail)
     IN  /\ pos' = b.pos /\ eof' = (a.eof \/ b.eof) /\ fail' = b.fail
         /\ data' = a.val
         /\ IF b.val \in DOMAIN DirName
            THEN /\ data1' = DirName[b.val]
                 /\ spinRing' = Append(spinRing, <<a.val, DirName[b.val]>>)
                 /\ pc' = "loop"
            ELSE /\ data1' = b.val /\ spinRing' = spinRing /\ pc' = "fatal"
  /\ UNCHANGED <<file, trailing>>

(* After the loop: node 0 becomes (0, "East") if the last router read is  *)
(* 1, (0, "North") if it is m_num_rows, and anything else is assert(0);   *)
(* then node 0 is pushed again to close the ring.                         *)
CloseRing ==
  /\ pc = "loop" /\ eof
  /\ LET last == spinRing[Len(spinRing)][1]
         first == IF last = 1 THEN <<0, "East">> ELSE <<0, "North">>
     IN  IF last \in {1, Rows}
         THEN /\ spinRing' = Append([spinRing EXCEPT ![1] = first], first)
              /\ pc' = "done"
         ELSE /\ spinRing' = spinRing /\ pc' = "abort"
  /\ UNCHANGED <<file, trailing, pos, eof, fail, data, data1>>

Next == ReadPair \/ CloseRing

\* init_spinRing runs to its end once it is called (the constructor calls it).
Spec == Init /\ [][Next]_vars /\ WF_vars(Next)

-----------------------------------------------------------------------------
(* The format of spec section 6: whitespace-separated (router, direction) *)
(* pairs with directions N|n|E|e|S|s|W|w; the ring gets the first node    *)
(* (0, East) when the last router is 1 and (0, North) when it is          *)
(* num_rows, and is closed by repeating that node.  Anything else is a    *)
(* fatal configuration error.                                             *)
SpecDir == [t \in {"N", "n"} |-> "North"] @@ [t \in {"E", "e"} |-> "East"]
           @@ [t \in {"S", "s"} |-> "South"] @@ [t \in {"W", "w"} |-> "West"]
Pairs(f) == Len(f) % 2 = 0 /\ Len(f) > 0
            /\ \A i \in 1 .. Len(f) \div 2 : f[2 * i] \in DOMAIN SpecDir
SpecAccepts(f) == Pairs(f) /\ f[Len(f) - 1] \in {1, Rows}
SpecRing(f) ==
  LET first == IF f[Len(f) - 1] = 1 THEN <<0, "East">> ELSE <<0, "North">>
  IN  <<first>> \o [i \in 1 .. Len(f) \div 2 |-> <<f[2 * i - 1], SpecDir[f[2 * i]]>>]
        \o <<first>>

\* One type invariant: positions stay in the file and the ring holds
\* router ids and the four direction names (after the placeholder).
TypeOK ==
  /\ pos \in 1 .. Len(file) + 1 /\ eof \in BOOLEAN /\ fail \in BOOLEAN
  /\ pc \in {"loop", "done", "fatal", "abort"}
  /\ \A i \in 2 .. Len(spinRing) :
       spinRing[i][1] \in RouterToks \cup {0} /\ spinRing[i][2] \in Dirs

(* init_spinRing reads the format of spec section 6: when it has finished *)
(* it accepted exactly the files the format allows, and built the ring    *)
(* the format describes.  The eof() loop and the stream's sticky failbit  *)
(* decide what it does with a short or odd file.                          *)
ParseAgrees ==
  pc # "loop" =>
    /\ (pc = "done") = SpecAccepts(file)
    /\ pc = "done" => spinRing = SpecRing(file)


=============================================================================
