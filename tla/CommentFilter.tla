---------------------------- MODULE CommentFilter ----------------------------
(***************************************************************************)
(* eleutheria/fsm/test_rmcom.c: a state machine with two states copies a   *)
(* text and leaves out its C comments.  The text is read with fgets in     *)
(* pieces that end at a newline or when the buffer is full.  What is       *)
(* printed for an event is *p; get_evt_key moves p in the same argument    *)
(* list, so the compiler chooses whether p is the character or what        *)
(* follows the event.                                                      *)
(***************************************************************************)
EXTENDS Integers, Sequences

CONSTANTS
    BufSize,        \* sizeof buf
    MaxText,        \* bound: the length of the text
    ArgsFromRight   \* the compiler evaluates the arguments from the right

ASSUME FilterAssumption == BufSize \in Nat \ {0, 1} /\ MaxText \in Nat /\ ArgsFromRight \in BOOLEAN

Chars == {"/", "*", "x", "newline"}
NUL == "NUL"

VARIABLES
    text, rest,     \* the file, and what was not read yet
    buf, p,         \* the buffer and the place in it
    comment,        \* the current state is ST_COMMENT
    printed

filter == <<text, rest, buf, p, comment, printed>>

FilterInit ==
    /\ text \in UNION {[1..n -> Chars] : n \in 0..MaxText}
    /\ rest = text /\ buf = <<>> /\ p = 1
    /\ comment = FALSE /\ printed = <<>>

Earliest(places) == CHOOSE i \in places : \A j \in places : i <= j

\* The length of what fgets reads.
LineLen(s) ==
    LET full == IF Len(s) < BufSize - 1 THEN Len(s) ELSE BufSize - 1
        ends == {i \in 1..full : s[i] = "newline"}
    IN  IF ends = {} THEN full ELSE Earliest(ends)

fgets ==
    /\ p > Len(buf) /\ rest # <<>>
    /\ buf' = SubSeq(rest, 1, LineLen(rest))
    /\ rest' = SubSeq(rest, LineLen(rest) + 1, Len(rest))
    /\ p' = 1
    /\ UNCHANGED <<text, comment, printed>>

At(i) == IF i <= Len(buf) THEN buf[i] ELSE NUL

\* get_evt_key: the event, and how far p moves.
get_evt_key ==
    IF ~comment
      THEN IF At(p) = "/" /\ At(p + 1) = "*" THEN "EVT_START_COMMENT" ELSE "EVT_NO_START_COMMENT"
      ELSE IF At(p) = "*" /\ At(p + 1) = "/" THEN "EVT_END_COMMENT" ELSE "EVT_NO_END_COMMENT"
Moves_One(evt) == 1
Moves(evt) == IF evt \in {"EVT_START_COMMENT", "EVT_END_COMMENT"} THEN 2 ELSE 1

\* fsm_process_event with the table of main: only EVT_NO_START_COMMENT prints.
Process ==
    LET evt == get_evt_key IN
    /\ p <= Len(buf)
    /\ p' = p + Moves(evt)
    /\ comment' = CASE evt = "EVT_START_COMMENT" -> TRUE
                    [] evt = "EVT_END_COMMENT" -> FALSE
                    [] OTHER -> comment
    /\ printed' = IF evt = "EVT_NO_START_COMMENT"
                    THEN Append(printed, IF ArgsFromRight THEN At(p) ELSE At(p')) ELSE printed
    /\ UNCHANGED <<text, rest, buf>>

FilterSteps == fgets \/ Process

FilterSpec == FilterInit /\ [][FilterSteps]_filter

-----------------------------------------------------------------------------
(* Properties *)

\* The marks of a text, and where comments end from i on.
MarkAt(s, i, a, b) == i < Len(s) /\ s[i] = a /\ s[i + 1] = b
EndsFrom(s, i) == {j \in i..Len(s) : MarkAt(s, j, "*", "/")}

\* What is left of s from each place that is not inside a comment: a comment
\* ends at the first end mark that begins after its start mark, or never.
Remainder(s) ==
    LET from[i \in 1..(Len(s) + 2)] ==
          IF i > Len(s) THEN <<>>
          ELSE IF ~MarkAt(s, i, "/", "*") THEN <<s[i]>> \o from[i + 1]
          ELSE IF EndsFrom(s, i + 2) = {} THEN <<>>
          ELSE from[Earliest(EndsFrom(s, i + 2)) + 2]
    IN  from

\* The text without its comments.
Stripped(s) == Remainder(s)[1]

\* "Must be big enough, or else beginning of comment might split" (the
\* declaration of buf): no line is cut.
LinesFit ==
    \A i \in 0..Len(text) :
        i + BufSize - 1 < Len(text) => \E j \in (i + 1)..(i + BufSize - 1) : text[j] = "newline"

\* When the arguments are evaluated from the right, what is printed is the
\* text without its comments, marks that share characters included.
StripsComments ==
    LinesFit /\ rest = <<>> /\ p > Len(buf) => printed = Stripped(text)

\* The inductive invariant of the proofs.  The buffer follows what was read
\* before it and ends with a line or with the text; what was printed, with
\* what is left from the place p points to, is the stripped text.
FilterTypeOK ==
    /\ text \in Seq(Chars) /\ rest \in Seq(Chars) /\ buf \in Seq(Chars)
    /\ p \in 1..(Len(buf) + 1)
    /\ comment \in BOOLEAN /\ printed \in Seq(Chars)
Before == Len(text) - Len(rest) - Len(buf)
Place == Before + p
ReadInOrder ==
    /\ Before \in Nat
    /\ \A i \in 1..Len(buf) : buf[i] = text[Before + i]
    /\ \A i \in 1..Len(rest) : rest[i] = text[Before + Len(buf) + i]
LinesEnd == rest = <<>> \/ buf = <<>> \/ buf[Len(buf)] = "newline"
\* What is left from i on, inside a comment.
AfterEnd(s, i) == IF EndsFrom(s, i) = {} THEN <<>> ELSE Remainder(s)[Earliest(EndsFrom(s, i)) + 2]
PrintedSoFar ==
    printed \o (IF comment THEN AfterEnd(text, Place) ELSE Remainder(text)[Place]) = Stripped(text)
FilterIInv ==
    LinesFit /\ ArgsFromRight => FilterTypeOK /\ ReadInOrder /\ LinesEnd /\ PrintedSoFar
=============================================================================
