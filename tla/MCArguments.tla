---------------------------- MODULE MCArguments ----------------------------
(* Small instances of Arguments. *)
EXTENDS Arguments

All == {"stdin", "stdout", "stderr", "random", "clocks", "sched"}
Gives(given, as, es, ds) == [given |-> given, args |-> as, env |-> es, dirs |-> ds]

MCBuilders ==
  {Gives(All, <<1, 0>>, <<<<1, 0>>>>, <<1>>),
   Gives(All, <<1>>, <<<<1, 1>>, <<1, 2>>>>, <<2, 0>>),
   Gives(All, <<1, 2>>, <<>>, <<1, 1, 1>>),
   Gives(All, <<>>, <<>>, <<0, 0, 0, 0>>),
   Gives(All \ {"sched"}, <<>>, <<>>, <<1>>),
   Gives({"stdout"}, <<>>, <<>>, <<>>)}

(* NsPerSec is 2 and MaxTime 4: the seconds or the sum may be too many. *)
Shows(seconds, nanoseconds) == [seconds |-> seconds, nanoseconds |-> nanoseconds]
MCReading == [realtime |-> {Shows(1, 1), Shows(1, 2), Shows(2, 0)},
              monotonic |-> {Shows(0, 3)}, cputime |-> {Shows(0, 0)}]
=============================================================================
