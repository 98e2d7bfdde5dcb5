---- MODULE EntityEventBus ----
(* The event bus of src/events/EntityEventBus.ts: a list of listeners, in     *)
(* the order they were registered.  A pattern is abstracted to the set of     *)
(* event names it matches ("*" is every name, a name is itself).              *)
EXTENDS Integers, Sequences, SequencesExt

\* The elements of s that are in a set, in their order; what SelectSeq computes, by
\* a function that a proof can follow.
Among(s, good) ==
    LET among[n \in 0 .. Len(s)] ==
            IF n = 0 THEN <<>> ELSE IF s[n] \in good THEN Append(among[n - 1], s[n]) ELSE among[n - 1]
    IN among[Len(s)]

\* A registration: who listens, to which names, and whether for one event only.
Registration(who, names, once) == [who |-> who, names |-> names, once |-> once]

On(listeners, who, names) == Append(listeners, Registration(who, names, FALSE))

Once(listeners, who, names) == Append(listeners, Registration(who, names, TRUE))

Off(listeners, who) == Among(listeners, {l \in Range(listeners) : l.who # who})

\* emit() matches the name of the event and its alias, which the name stands for here.
Hears(l, name) == name \in l.names

\* The listeners emit() is going to run, one after the other ...
Matching(listeners, name) == Among(listeners, {l \in Range(listeners) : Hears(l, name)})

\* fault: listeners registered once stay.
RemainingAll(listeners, name) == Among(listeners, {l \in Range(listeners) : ~Hears(l, name) \/ l.names # {}})

\* ... and those it leaves registered, before it runs the first of them.
Remaining(listeners, name) == Among(listeners, {l \in Range(listeners) : ~Hears(l, name) \/ ~l.once})
====
