------------------------------- MODULE MCX86 -------------------------------
(***************************************************************************)
(* Command lines on which TLC checks X86Locks.                             *)
(***************************************************************************)
EXTENDS X86Locks

MCPrograms == [p \in DOMAIN Sources |-> Load(Sources[p], 1000)]

\* The variables, the words of the programs without, and for the programs with calls address 0 and the stacks.
MCAddresses ==
  {0, 2000, 2004} \cup {100 + 4 * n : n \in 0 .. 3}
    \cup {128000 - 1000 * t + 4 * n : t \in 0 .. 1, n \in -4 .. 2}

\* -a gives each thread the register that the program starts from.
ArgRegister(program) ==
  CASE program = "WaitForMe" -> "ax" [] program = "Loop" -> "dx" [] OTHER -> "bx"
CommandLine(program, args, intfreq, intrand, procsched) ==
  [program |-> program, numthreads |-> Len(args),
   argv |-> [t \in 0 .. Len(args) - 1 |->
               [ZeroRegisters EXCEPT ![ArgRegister(program)] = args[t + 1]]],
   intfreq |-> intfreq, intrand |-> intrand, procsched |-> procsched]

Looping == Locks \ {"Peterson", "LoopingRaceCallRet"}

\* Random time slices of a few instructions for two threads, shorter
\* ones for three; fixed slices; and schedules given by hand.
MCOptions ==
  {CommandLine(p, <<2, 1>>, 4, TRUE, <<>>) : p \in Looping}
    \cup {CommandLine(p, <<1, 1, 1>>, 2, TRUE, <<>>) : p \in Looping}
    \cup {CommandLine("Peterson", <<0, 1>>, 5, TRUE, <<>>)}
    \cup {CommandLine(p, <<3, 3, 0>>, n, FALSE, <<>>) : p \in Looping, n \in {1, 2, 5}}
    \cup {CommandLine(p, <<2, 2>>, 50, TRUE, s) :
            p \in Looping, s \in {<<0, 1>>, <<0, 0, 1>>, <<1, 0, 0, 1, 1, 1, 0>>}}
    \cup {CommandLine("LoopingRaceCallRet", <<2, 1>>, 3, TRUE, <<>>)}
    \cup {CommandLine("Flag", <<2, 2>>, 3, TRUE, <<>>)}
    \cup {CommandLine("Flag", <<5, 4>>, 11 * n, FALSE, <<>>) : n \in 1 .. 2}
    \cup {CommandLine("Loop", <<3, 3>>, 3, TRUE, <<>>)}
    \cup {CommandLine("LoopingRace", loops, 4, TRUE, <<>>) : loops \in {<<3, 2>>, <<2, 2>>, <<1, 3>>}}
    \cup {CommandLine("LoopingRace", <<2, 2, 2>>, 2, TRUE, <<>>)}
    \cup {CommandLine("LoopingRace", <<5, m>>, n, FALSE, <<>>) : m \in {3, 5}, n \in 1 .. 7}
    \cup {CommandLine(p, <<0, b, 0>>, 3, TRUE, <<>>) : p \in {"SimpleRace", "SimpleRaceAt"}, b \in {0, 4}}
    \cup {CommandLine("WaitForMe", signallers, 3, TRUE, <<>>) :
            signallers \in {<<1, 0>>, <<0, 1>>, <<0, 0, 1>>}}
    \cup {CommandLine("WaitForMe", <<0, 1, 0>>, n, FALSE, <<>>) : n \in {1, 5, 50}}
    \cup {CommandLine("WaitForMe", <<0, 1>>, 50, FALSE, <<0, 0, 0, 1>>)}

FlagCallRetOptions == {CommandLine("FlagCallRet", <<1, 1>>, 3, TRUE, <<>>)}
=============================================================================
