------------------------- MODULE MCGreedyScheduler -------------------------
(***************************************************************************)
(* Inputs for TLC.  One unit of time stands for a slice of the day: only   *)
(* differences, sums and remainders of times matter to the code.           *)
(***************************************************************************)
EXTENDS GreedyScheduler

Hours(from, to) == [start |-> from, end |-> to]

Cfg(hours, days, break, slot) ==
  [operatingHours |-> hours, operatingDays |-> days,
   minBreak |-> break, preferredSlot |-> slot]

Session(c, type, duration, number) ==
  [course |-> c, requiredRoom |-> type, duration |-> duration, number |-> number]

Inp(cfg, rooms, courses, sessions) ==
  [config |-> cfg, rooms |-> rooms, courses |-> courses, sessions |-> sessions]

\* Two sessions of every shape over two courses and two room types; hours
\* that start off the slot grid, so that alignment leaves fragments.
MixedInputs ==
  {Inp(Cfg(Hours(1, 6), days, break, slot), rooms, courses, <<s, t>>) :
     days \in {{0}, {0, 1}}, break \in 0..1, slot \in {0, 2},
     rooms \in {<<"lec">>, <<"lec", "lec">>, <<"lab", "lec">>},
     courses \in {{"c1"}, {"c1", "c2"}},
     s \in {Session("c1", type, d, n) : type \in {"lec", "lab"}, d \in 1..2, n \in 1..2},
     t \in {Session(c, "lec", d, n) : c \in {"c1", "c2"}, d \in 1..3, n \in {1, 3}}}

\* One room, three courses of different length, slots that leave two
\* fragments around an aligned meeting.
FragmentInputs ==
  {Inp(Cfg(Hours(from, 12), {0}, break, slot), <<"lec">>, {"c1", "c2", "c3"},
       <<Session("c1", "lec", d1, n), Session("c2", "lec", d2, n),
         Session("c3", "lec", d3, 2)>>) :
     from \in 0..1, break \in 0..2, slot \in {0, 3, 4},
     d1 \in 1..4, d2 \in 1..3, d3 \in 1..2, n \in 1..2}

\* Configurations nobody looks at: breaks that are negative, shorter and
\* longer than a meeting, hours before midnight, hours that end before they
\* start, a negative slot.
UncheckedInputs ==
  {Inp(Cfg(Hours(from, to), {day}, break, slot), <<"lec">>, {"c1", "c2"},
       <<Session("c1", "lec", d1, 2), Session("c2", "lec", d2, n)>>) :
     from \in {-3, -2, 0, 7}, to \in {5, 6}, day \in {-1}, break \in {-3, -2, -1, 0, 1},
     slot \in {-1, 0, 2, 3}, d1 \in 1..3, d2 \in 1..3, n \in {2, 3}}

\* One course of one or two sessions over weeks of one to five days.
WeekInputs ==
  {Inp(Cfg(Hours(0, hours), 0..last, 0, 0), rooms, {"c1", "c2"},
       <<Session("c1", "lec", 1, n), Session("c1", "lec", d, m),
         Session("c2", "lec", 2, 3)>>) :
     hours \in {2, 4}, last \in {0, 1, 2, 4}, rooms \in {<<"lec">>, <<"lec", "lec">>},
     n \in {1, 2, 4}, m \in {1, 2}, d \in 1..2}

\* The default configuration: 8:00 to 21:00, Monday to Friday.
DefaultInputs ==
  {Inp(NoConfig, <<"lec", "lab">>, {"c1", "c2"},
       <<Session("c1", "lec", d, 2), Session("c2", "lab", 800, 1)>>) :
     d \in {60, 390}}

\* The pairs keep TLC from searching a union anew in every state.
AllInputs ==
  {p[2] : p \in ({"week"} \X WeekInputs) \union ({"fragments"} \X FragmentInputs)
                 \union ({"mixed"} \X MixedInputs) \union ({"default"} \X DefaultInputs)
                 \union ({"unchecked"} \X UncheckedInputs)}
=============================================================================
