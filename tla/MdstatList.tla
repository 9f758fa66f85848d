----------------------------- MODULE MdstatList -----------------------------
(***************************************************************************)
(* What volumes.rs reads from /proc/mdstat.  An array of the host is a     *)
(* record [name, state, readonly, level, slots, members, progress], where  *)
(* `slots' is a sequence of whether each is up, empty for a level without  *)
(* redundancy, and a member is a device and a flag.  An array that is not  *)
(* active has no level or slots in its lines.                              *)
(***************************************************************************)
EXTENDS Naturals, Sequences, FiniteSets, SequencesExt

Word(text) == [kind |-> "word", text |-> text]
MemberWord(m) == [kind |-> "member", text |-> m.device, flag |-> m.flag]

ArrayLine(a) ==
    [kind |-> "array", name |-> a.name,
     words |-> <<Word(a.state)>>
               \o (IF a.readonly THEN <<Word("(auto-read-only)")>> ELSE <<>>)
               \o (IF a.state = "active" THEN <<Word(a.level)>> ELSE <<>>)
               \o [i \in DOMAIN a.members |-> MemberWord(a.members[i])]]
StatusLine(a) == [kind |-> "status", slots |-> IF a.state = "active" THEN a.slots ELSE <<>>]
ProgressLine(a) == [kind |-> "progress", op |-> a.progress]
OtherLine(text) == [kind |-> text]

MdstatOf(arrays) ==
    <<OtherLine("Personalities")>>
    \o FlattenSeq([i \in DOMAIN arrays |->
          <<ArrayLine(arrays[i]), StatusLine(arrays[i])>>
          \o (IF arrays[i].progress = "" THEN <<>> ELSE <<ProgressLine(arrays[i])>>)
          \o <<OtherLine("bitmap")>>])
    \o <<OtherLine("unused devices")>>

-----------------------------------------------------------------------------
NoArray == [name |-> "", level |-> "", state |-> "", total |-> 0, present |-> 0, down |-> FALSE,
            members |-> {}, progress |-> ""]
Unread == [done |-> {}, current |-> NoArray]
Flushed(s) == s.done \cup ({s.current} \ {NoArray})

(* parse_member: of the words after the first two, one in brackets is a    *)
(* member, any other is skipped.                                           *)
MembersAmong(words) == {words[i] : i \in {j \in 3..Len(words) : words[j].kind = "member"}}

(* Fault: the array before this one is not kept.                           *)
ReadArrayLineForgets(s, line) ==
    [s EXCEPT !.current = [NoArray EXCEPT !.name = line.name, !.state = line.words[1].text,
                              !.level = line.words[2].text,
                              !.members = MembersAmong(line.words)]]

(* The first two words are taken for the state and the level, whatever     *)
(* they are: an inactive array loses its first member there.               *)
ReadArrayLine(s, line) ==
    [done |-> Flushed(s),
     current |-> [NoArray EXCEPT !.name = line.name, !.state = line.words[1].text,
                     !.level = line.words[2].text,
                     !.members = MembersAmong(line.words)]]

(* find_slot_pair: how many slots there are, and how many of them are up.  *)
FindSlotPair(line) == <<Len(line.slots), Cardinality({i \in DOMAIN line.slots : line.slots[i]})>>

(* find_member_state: whether there is a slot that is down.                *)
FindMemberState(line) == \E i \in DOMAIN line.slots : ~line.slots[i]

ReadStatusLine(s, line) ==
    IF line.slots = <<>> THEN s
    ELSE [s EXCEPT !.current.total = FindSlotPair(line)[1], !.current.present = FindSlotPair(line)[2],
                   !.current.down = FindMemberState(line)]

(* parse_progress                                                          *)
ReadProgressLine(s, line) == [s EXCEPT !.current.progress = line.op]

(* parse_mdstat: lines before the first array, and others, are skipped.    *)
ReadMdLine(s, line) ==
    CASE line.kind = "array" -> ReadArrayLine(s, line)
      [] line.kind = "status" /\ s.current # NoArray -> ReadStatusLine(s, line)
      [] line.kind = "progress" /\ s.current # NoArray -> ReadProgressLine(s, line)
      [] OTHER -> s

ParseMdstat(lines) ==
    LET read[n \in 0..Len(lines)] == IF n = 0 THEN Unread ELSE ReadMdLine(read[n - 1], lines[n])
    IN  Flushed(read[Len(lines)])

Devices(array) == {m.text : m \in array.members}
===============================================================================
