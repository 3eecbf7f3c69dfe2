---------------------------- MODULE Metrics_proofs ----------------------------
(***************************************************************************)
(* Proofs about Metrics and TpuEnv, for any set of jobs and any chains of  *)
(* shells and wrappers, however long.                                      *)
(***************************************************************************)
EXTENDS Metrics, SequenceTheorems, FiniteSetTheorems, WellFoundedInduction, TLAPS

USE MetricsAssumption

-----------------------------------------------------------------------------
(* Induction along a chain, from the library's theorem on minimal elements *)
(* of a well-founded relation.                                             *)

LEMMA LeastNat ==
    ASSUME NEW T \in SUBSET Nat, T # {}
    PROVE  \E n \in T : \A m \in T : n <= m
<1>. DEFINE R == {ss \in Nat \X Nat : ss[1] < ss[2]}
<1>1. IsWellFoundedOn(R, Nat)
  BY NatLessThanWellFounded DEF OpToRel
<1>2. PICK n \in T : \A m \in T : ~ (<<m, n>> \in R)
  <2>. HIDE DEF R
  <2>. QED
    BY <1>1, WFMin, Zenon
<1>3. \A m \in T : n <= m
  <2>1. SUFFICES ASSUME NEW m \in T, m < n PROVE FALSE
    OBVIOUS
  <2>2. <<m, n>> \in R
    BY <2>1
  <2>. QED
    BY <1>2, <2>2, Zenon
<1>. QED
  BY <1>3

\* A set of environments that holds the login shell's and is closed under the
\* commands of a chain holds the one its last command is started with, and that
\* one is what the last command makes of some environment of the set.
LEMMA ChainInduction ==
    ASSUME NEW chain \in Seq(Commands), NEW G, Defaults(EmptyEnv) \in G,
           \A e \in G : \A i \in 1..Len(chain) : Enter(e, chain[i]) \in G
    PROVE  /\ EnvAfter(chain) \in G
           /\ chain # <<>> => \E e \in G : EnvAfter(chain) = Enter(e, Last(chain))
<1>. DEFINE N == Len(chain)
            D == Defaults(EmptyEnv)
            Step(f, i) == IF i = 0 THEN D ELSE Enter(f[i - 1], chain[i])
            Upto(n) == {f \in [0..n -> G] : \A i \in 0..n : f[i] = Step(f, i)}
<1>1. N \in Nat /\ (chain # <<>> => N # 0)
  BY LenProperties, EmptySeq
<1>2. \A n \in 0..N : Upto(n) # {}
  <2>. DEFINE T == {n \in 0..N : Upto(n) = {}}
  <2>1. SUFFICES ASSUME T # {} PROVE FALSE
    OBVIOUS
  <2>2. PICK n \in T : \A m \in T : n <= m
    <3>1. T \in SUBSET Nat
      BY <1>1
    <3>. HIDE DEF T
    <3>. QED
      BY <2>1, <3>1, LeastNat
  <2>3. CASE n = 0
    <3>. DEFINE f == [i \in 0..n |-> D]
    <3>1. f \in [0..n -> G] /\ \A i \in 0..n : i = 0
      BY <2>3
    <3>2. \A i \in 0..n : f[i] = Step(f, i)
      BY <2>3
    <3>3. f \in Upto(n)
      BY <3>1, <3>2
    <3>. QED
      BY <2>2, <3>3
  <2>4. CASE n # 0
    <3>1. n \in 1..N /\ n - 1 \in 0..N /\ n - 1 < n
      BY <2>4, <1>1
    <3>2. PICK f : f \in Upto(n - 1)
      BY <2>2, <3>1
    <3>. DEFINE g == [i \in 0..n |-> IF i = n THEN Enter(f[n - 1], chain[n]) ELSE f[i]]
    <3>3. f \in [0..(n - 1) -> G] /\ \A i \in 0..(n - 1) : f[i] = Step(f, i)
      BY <3>2
    <3>4. f[n - 1] \in G /\ Enter(f[n - 1], chain[n]) \in G
      BY <3>1, <3>3
    <3>. HIDE DEF D
    <3>5. \A i \in 0..n : i = n \/ i \in 0..(n - 1)
      BY <3>1
    <3>6. g \in [0..n -> G]
      BY <3>3, <3>4, <3>5
    <3>7. ASSUME NEW i \in 0..n PROVE g[i] = Step(g, i)
      <4>1. CASE i = n
        <5>1. g[i] = Enter(f[n - 1], chain[n]) /\ g[n - 1] = f[n - 1]
          BY <4>1, <3>1
        <5>. QED
          BY <5>1, <4>1, <2>4
      <4>2. CASE i # n /\ i # 0
        <5>1. i \in 0..(n - 1) /\ i - 1 \in 0..n /\ i - 1 # n
          BY <4>2
        <5>2. g[i] = f[i] /\ g[i - 1] = f[i - 1]
          BY <5>1, <4>2
        <5>3. f[i] = Step(f, i)
          BY <5>1, <3>3
        <5>. QED
          BY <5>2, <5>3, <4>2
      <4>3. CASE i # n /\ i = 0
        <5>1. i \in 0..(n - 1)
          BY <3>5, <4>3
        <5>2. g[i] = f[i] /\ f[i] = Step(f, i)
          BY <5>1, <3>3, <4>3
        <5>. QED
          BY <5>2, <4>3
      <4>. QED
        BY <4>1, <4>2, <4>3
    <3>8. g \in Upto(n)
      <4>. HIDE DEF g, Step
      <4>. QED
        BY <3>6, <3>7
    <3>. QED
      BY <2>2, <3>8
  <2>. QED
    BY <2>3, <2>4
<1>. DEFINE Env == CHOOSE env : env = [i \in 0..N |-> Step(env, i)]
<1>3. Env = [i \in 0..N |-> Step(Env, i)]
  <2>1. PICK f : f \in Upto(N)
    BY <1>1, <1>2
  <2>2. f \in [0..N -> G] /\ \A i \in 0..N : f[i] = Step(f, i)
    BY <2>1
  <2>3. f = [i \in 0..N |-> Step(f, i)]
    <3>. HIDE DEF Step, N
    <3>. QED
      BY <2>2
  <2>. HIDE DEF Step, N
  <2>. QED
    BY <2>3
<1>4. EnvAfter(chain) = Env[N]
  BY Zenon DEF EnvAfter
<1>. HIDE DEF Env, D
<1>5. \A i \in 0..N : Env[i] = Step(Env, i)
  <2>. HIDE DEF Step
  <2>. QED
    BY <1>3
<1>6. \A i \in 0..N : Env[i] \in G
  <2>. DEFINE T == {i \in 0..N : Env[i] \notin G}
  <2>1. SUFFICES ASSUME T # {} PROVE FALSE
    OBVIOUS
  <2>2. PICK n \in T : \A m \in T : n <= m
    <3>1. T \in SUBSET Nat
      BY <1>1
    <3>. HIDE DEF T
    <3>. QED
      BY <2>1, <3>1, LeastNat
  <2>3. Env[n] = Step(Env, n) /\ n \in 0..N
    BY <1>5
  <2>4. n # 0
    <3>1. D \in G
      BY DEF D
    <3>. QED
      BY <2>2, <2>3, <3>1
  <2>5. n \in 1..N /\ n - 1 \in 0..N /\ n - 1 < n
    BY <2>4, <1>1
  <2>6. Env[n - 1] \in G
    BY <2>2, <2>5
  <2>7. Enter(Env[n - 1], chain[n]) \in G
    BY <2>5, <2>6
  <2>. QED
    BY <2>2, <2>3, <2>4, <2>7
<1>7. ASSUME chain # <<>>
      PROVE  Env[N - 1] \in G /\ EnvAfter(chain) = Enter(Env[N - 1], Last(chain))
  <2>1. N \in 0..N /\ N - 1 \in 0..N /\ N # 0
    BY <1>1, <1>7
  <2>2. Env[N] = Enter(Env[N - 1], chain[N])
    BY <1>5, <2>1
  <2>3. Last(chain) = chain[N]
    BY DEF Last
  <2>. QED
    BY <1>4, <1>6, <2>1, <2>2, <2>3
<1>8. EnvAfter(chain) \in G
  BY <1>1, <1>4, <1>6
<1>. QED
  BY <1>7, <1>8

-----------------------------------------------------------------------------
(* Environments. *)

Envs == [jax : {"", "cpu"}, pjrt : {"", "TPU", "CPU"},
         visible : Seq(Chips), ports : Seq(Nat) \ {<<>>}]

\* The two updates the commands make, on an environment whose fields are known.
LEMMA EnvExcept ==
    ASSUME NEW jax, NEW pjrt, NEW visible, NEW ports, NEW x, NEW y, NEW z, NEW env,
           env = [jax |-> jax, pjrt |-> pjrt, visible |-> visible, ports |-> ports]
    PROVE  /\ [env EXCEPT !.pjrt = x, !.visible = y, !.ports = z]
                 = [jax |-> jax, pjrt |-> x, visible |-> y, ports |-> z]
           /\ [env EXCEPT !.jax = x, !.pjrt = y, !.visible = z]
                 = [jax |-> x, pjrt |-> y, visible |-> z, ports |-> ports]
<1>1. [env EXCEPT !.pjrt = x, !.visible = y, !.ports = z]
        = [[[env EXCEPT !.pjrt = x] EXCEPT !.visible = y] EXCEPT !.ports = z]
  OBVIOUS
<1>2. [env EXCEPT !.jax = x, !.pjrt = y, !.visible = z]
        = [[[env EXCEPT !.jax = x] EXCEPT !.pjrt = y] EXCEPT !.visible = z]
  OBVIOUS
<1>3. [env EXCEPT !.pjrt = x] = [jax |-> jax, pjrt |-> x, visible |-> visible, ports |-> ports]
  OBVIOUS
<1>4. [env EXCEPT !.jax = x] = [jax |-> x, pjrt |-> pjrt, visible |-> visible, ports |-> ports]
  OBVIOUS
<1>5. [[jax |-> jax, pjrt |-> x, visible |-> visible, ports |-> ports] EXCEPT !.visible = y]
        = [jax |-> jax, pjrt |-> x, visible |-> y, ports |-> ports]
  OBVIOUS
<1>6. [[jax |-> x, pjrt |-> pjrt, visible |-> visible, ports |-> ports] EXCEPT !.pjrt = y]
        = [jax |-> x, pjrt |-> y, visible |-> visible, ports |-> ports]
  OBVIOUS
<1>7. [[jax |-> jax, pjrt |-> x, visible |-> y, ports |-> ports] EXCEPT !.ports = z]
        = [jax |-> jax, pjrt |-> x, visible |-> y, ports |-> z]
  OBVIOUS
<1>8. [[jax |-> x, pjrt |-> y, visible |-> visible, ports |-> ports] EXCEPT !.visible = z]
        = [jax |-> x, pjrt |-> y, visible |-> z, ports |-> ports]
  OBVIOUS
<1>. QED
  BY <1>1, <1>2, <1>3, <1>4, <1>5, <1>6, <1>7, <1>8, Zenon

\* What the commands of a chain do to an environment, field by field.
LEMMA EnterFacts ==
    ASSUME NEW env \in Envs, NEW cmd \in Commands, cmd.is = "tpu" => Accepted(cmd.devs)
    PROVE  /\ cmd.is \in {"tpu", "cpu", "shell"}
           /\ cmd.is = "tpu" =>
                 Enter(env, cmd) = [jax |-> env.jax, pjrt |-> "TPU", visible |-> cmd.devs,
                                    ports |-> Append(env.ports, BasePort + cmd.devs[1])]
           /\ cmd.is = "cpu" =>
                 Enter(env, cmd) = [jax |-> "cpu", pjrt |-> "CPU", visible |-> <<>>,
                                    ports |-> env.ports]
           /\ cmd.is = "shell" =>
                 Enter(env, cmd) = [jax |-> env.jax, pjrt |-> "TPU", visible |-> <<0>>,
                                    ports |-> IF env.ports = <<>> THEN <<BasePort>>
                                              ELSE env.ports]
<1>1. PICK jax, pjrt, visible, ports :
         env = [jax |-> jax, pjrt |-> pjrt, visible |-> visible, ports |-> ports]
  <2>1. env = [jax |-> env.jax, pjrt |-> env.pjrt, visible |-> env.visible, ports |-> env.ports]
    BY DEF Envs
  <2>. QED
    BY <2>1, Zenon
<1>2. env.jax = jax /\ env.ports = ports
  BY <1>1
<1>3. cmd.is \in {"tpu", "cpu", "shell"}
  BY DEF Commands, WrapCpu, NewShell
<1>4. ASSUME cmd.is = "tpu"
      PROVE  Enter(env, cmd) = [jax |-> jax, pjrt |-> "TPU", visible |-> cmd.devs,
                                ports |-> Append(ports, BasePort + cmd.devs[1])]
  <2>1. Enter(env, cmd) = TpuMode(env, cmd.devs)
    BY <1>4 DEF Enter
  <2>2. TpuMode(env, cmd.devs)
          = [env EXCEPT !.pjrt = "TPU", !.visible = cmd.devs,
                        !.ports = Append(ports, BasePort + cmd.devs[1])]
    BY <1>2, Zenon DEF TpuMode
  <2>. QED
    BY <1>1, <2>1, <2>2, EnvExcept, Zenon
<1>5. ASSUME cmd.is = "cpu"
      PROVE  Enter(env, cmd) = [jax |-> "cpu", pjrt |-> "CPU", visible |-> <<>>,
                                ports |-> ports]
  <2>1. Enter(env, cmd) = CpuMode(env)
    BY <1>5 DEF Enter
  <2>. QED
    BY <1>1, <2>1, EnvExcept, Zenon DEF CpuMode
<1>6. ASSUME cmd.is = "shell"
      PROVE  Enter(env, cmd) = [jax |-> jax, pjrt |-> "TPU", visible |-> <<0>>,
                                ports |-> IF ports = <<>> THEN <<BasePort>> ELSE ports]
  <2>1. Enter(env, cmd) = Defaults(env)
    BY <1>6 DEF Enter
  <2>2. Defaults(env)
          = [env EXCEPT !.pjrt = "TPU", !.visible = <<0>>,
                        !.ports = IF ports = <<>> THEN <<BasePort>> ELSE ports]
    BY <1>2, Zenon DEF Defaults
  <2>. QED
    BY <1>1, <2>1, <2>2, EnvExcept, Zenon
<1>. QED
  BY <1>2, <1>3, <1>4, <1>5, <1>6, Zenon

\* A login shell: chip 0, its port, no JAX_PLATFORMS.
LEMMA LoginFacts ==
    /\ Defaults(EmptyEnv) = [jax |-> "", pjrt |-> "TPU", visible |-> <<0>>,
                             ports |-> <<BasePort>>]
    /\ Defaults(EmptyEnv) \in Envs
    /\ Defaults(EmptyEnv).visible = <<0>> /\ Defaults(EmptyEnv).ports = <<BasePort>>
<1>1. Defaults(EmptyEnv) = [jax |-> "", pjrt |-> "TPU", visible |-> <<0>>,
                            ports |-> <<BasePort>>]
  <2>1. EmptyEnv.ports = <<>>
    BY DEF EmptyEnv
  <2>2. Defaults(EmptyEnv) = [EmptyEnv EXCEPT !.pjrt = "TPU", !.visible = <<0>>,
                                              !.ports = <<BasePort>>]
    BY <2>1, Zenon DEF Defaults
  <2>. QED
    BY <2>2, EnvExcept, Zenon DEF EmptyEnv
<1>2. <<0>> \in Seq(Chips) /\ <<BasePort>> \in Seq(Nat) \ {<<>>}
  BY DEF Chips, BasePort
<1>3. [jax |-> "", pjrt |-> "TPU", visible |-> <<0>>, ports |-> <<BasePort>>] \in Envs
  BY <1>2 DEF Envs
<1>4. \A v, q : /\ [jax |-> "", pjrt |-> "TPU", visible |-> v, ports |-> q].visible = v
                /\ [jax |-> "", pjrt |-> "TPU", visible |-> v, ports |-> q].ports = q
  OBVIOUS
<1>. QED
  BY <1>1, <1>3, <1>4, Zenon

LEMMA AcceptedFacts ==
    ASSUME NEW devs, Accepted(devs)
    PROVE  /\ devs \in Seq(Chips) /\ Len(devs) \in Nat /\ Len(devs) # 0
           /\ devs # <<>> /\ devs[1] \in Chips /\ BasePort + devs[1] \in Nat
<1>1. devs \in Seq(Chips) /\ Len(devs) \in {1, 2, 4}
  BY DEF Accepted
<1>2. devs # <<>> /\ devs[1] \in Chips
  BY <1>1, ElementOfSeq
<1>. QED
  BY <1>1, <1>2 DEF Chips, BasePort

LEMMA EnterTyped ==
    ASSUME NEW env \in Envs, NEW cmd \in Commands, cmd.is = "tpu" => Accepted(cmd.devs)
    PROVE  Enter(env, cmd) \in Envs
<1>1. env.jax \in {"", "cpu"} /\ env.ports \in Seq(Nat) \ {<<>>}
  BY DEF Envs
<1>2. \A j \in {"", "cpu"}, p \in {"TPU", "CPU"}, v \in Seq(Chips), q \in Seq(Nat) \ {<<>>} :
         [jax |-> j, pjrt |-> p, visible |-> v, ports |-> q] \in Envs
  BY DEF Envs
<1>3. CASE cmd.is = "tpu"
  <2>1. cmd.devs \in Seq(Chips) /\ BasePort + cmd.devs[1] \in Nat
    BY <1>3, AcceptedFacts
  <2>2. Append(env.ports, BasePort + cmd.devs[1]) \in Seq(Nat) \ {<<>>}
    <3>1. \A q \in Seq(Nat), n \in Nat : Append(q, n) \in Seq(Nat) /\ Append(q, n) # <<>>
      BY AppendProperties
    <3>. QED
      BY <1>1, <2>1, <3>1, Zenon
  <2>3. Enter(env, cmd) = [jax |-> env.jax, pjrt |-> "TPU", visible |-> cmd.devs,
                           ports |-> Append(env.ports, BasePort + cmd.devs[1])]
    BY <1>3, EnterFacts, Zenon
  <2>. QED
    BY <1>1, <1>2, <2>1, <2>2, <2>3, Zenon
<1>4. CASE cmd.is = "cpu"
  <2>1. <<>> \in Seq(Chips)
    OBVIOUS
  <2>2. Enter(env, cmd) = [jax |-> "cpu", pjrt |-> "CPU", visible |-> <<>>,
                           ports |-> env.ports]
    BY <1>4, EnterFacts, Zenon
  <2>. QED
    BY <1>1, <1>2, <2>1, <2>2, Zenon
<1>5. CASE cmd.is = "shell"
  <2>. DEFINE q == IF env.ports = <<>> THEN <<BasePort>> ELSE env.ports
  <2>1. <<BasePort>> \in Seq(Nat) \ {<<>>} /\ <<0>> \in Seq(Chips)
    BY DEF BasePort, Chips
  <2>2. q \in Seq(Nat) \ {<<>>}
    BY <1>1, <2>1
  <2>3. Enter(env, cmd) = [jax |-> env.jax, pjrt |-> "TPU", visible |-> <<0>>, ports |-> q]
    BY <1>5, EnterFacts, Zenon
  <2>. QED
    BY <1>1, <1>2, <2>1, <2>2, <2>3, Zenon
<1>. QED
  BY <1>3, <1>4, <1>5, EnterFacts

LEMMA LaunchEnvsTyped == ASSUME NEW env \in LaunchEnvs
                         PROVE  /\ env \in Envs /\ OnTpu(env)
                                /\ OwnedChips(env) \in SUBSET Chips
                                /\ MetricsPort(env) \in Nat
<1>1. PICK chain \in Launches : Executes(chain) /\ env = EnvAfter(chain) /\ OnTpu(env)
  BY DEF LaunchEnvs
<1>2. chain \in Seq(Commands) /\ DOMAIN chain = 1..Len(chain)
  BY LenProperties
<1>3. \A i \in 1..Len(chain) : chain[i] \in Commands
  BY <1>2, ElementOfSeq
<1>4. \A e \in Envs : \A i \in 1..Len(chain) : Enter(e, chain[i]) \in Envs
  BY <1>1, <1>2, <1>3, EnterTyped DEF Executes
<1>5. env \in Envs
  BY <1>1, <1>2, <1>4, ChainInduction, LoginFacts
<1>6. env.visible \in Seq(Chips)
  BY <1>5 DEF Envs
<1>7. OwnedChips(env) \in SUBSET Chips
  BY <1>6, ElementOfSeq DEF OwnedChips, ToSet
<1>8. MetricsPort(env) \in Nat
  <2>1. env.ports \in Seq(Nat) /\ env.ports # <<>>
    BY <1>5 DEF Envs
  <2>2. Len(env.ports) \in 1..Len(env.ports)
    BY <2>1, EmptySeq, LenProperties
  <2>. QED
    BY <2>1, <2>2, ElementOfSeq DEF MetricsPort, Last
<1>. QED
  BY <1>1, <1>5, <1>7, <1>8

-----------------------------------------------------------------------------
(* Sorted lists of chips. *)

Sorted(q) == \A i, j \in DOMAIN q : i < j => q[i] < q[j]

LEMMA ChipSetsFinite ==
    ASSUME NEW S \in SUBSET Chips
    PROVE  IsFiniteSet(S) /\ Cardinality(S) \in Nat
<1>1. IsFiniteSet(0..3)
  <2>1. 0 \in Int /\ 3 \in Int
    OBVIOUS
  <2>. QED
    BY <2>1, FS_Interval, Zenon
<1>2. IsFiniteSet(Chips)
  BY <1>1, Zenon DEF Chips
<1>3. IsFiniteSet(S)
  BY <1>2, FS_Subset, Zenon
<1>. QED
  BY <1>3, FS_CardinalityType, Zenon

LEMMA AscendingExists ==
    ASSUME NEW S \in SUBSET Chips
    PROVE  \E q \in [1..Cardinality(S) -> S] : Sorted(q)
<1>. DEFINE Has(R) == \E q \in [1..Cardinality(R) -> R] : Sorted(q)
            T == {n \in Nat : \E R \in SUBSET Chips : Cardinality(R) = n /\ ~ Has(R)}
<1>1. SUFFICES ASSUME T # {} PROVE FALSE
  BY ChipSetsFinite
<1>2. PICK n \in T : \A m \in T : n <= m
  <2>1. T \in SUBSET Nat
    OBVIOUS
  <2>. HIDE DEF T
  <2>. QED
    BY <1>1, <2>1, LeastNat
<1>3. PICK R \in SUBSET Chips : Cardinality(R) = n /\ ~ Has(R)
  BY <1>2
<1>4. CASE R = {}
  <2>1. Cardinality(R) = 0
    BY <1>4, FS_EmptySet
  <2>2. <<>> \in [1..0 -> R] /\ Sorted(<<>>)
    BY DEF Sorted
  <2>. QED
    BY <1>3, <2>1, <2>2
<1>5. CASE R # {}
  <2>1. PICK m \in R : \A x \in R : x <= m
    <3>1. /\ 3 \in R \/ 3 \notin R
          /\ 2 \in R \/ 2 \notin R
          /\ 1 \in R \/ 1 \notin R
          /\ \A x \in R : x \in {0, 1, 2, 3}
      BY DEF Chips
    <3>2. CASE 3 \in R
      BY <3>1, <3>2
    <3>3. CASE 3 \notin R /\ 2 \in R
      BY <3>1, <3>3
    <3>4. CASE 3 \notin R /\ 2 \notin R /\ 1 \in R
      BY <3>1, <3>4
    <3>5. CASE 3 \notin R /\ 2 \notin R /\ 1 \notin R
      <4>1. \A x \in R : x = 0
        BY <3>1, <3>5
      <4>. QED
        BY <4>1, <1>5
    <3>. QED
      BY <3>2, <3>3, <3>4, <3>5
  <2>. DEFINE L == R \ {m}
  <2>2. L \in SUBSET Chips /\ n \in Nat /\ n # 0 /\ Cardinality(L) = n - 1
    <3>1. IsFiniteSet(R)
      BY ChipSetsFinite
    <3>2. n # 0
      BY <1>3, <1>5, <3>1, FS_EmptySet
    <3>3. Cardinality(L) = n - 1
      BY <1>3, <2>1, <3>1, FS_RemoveElement
    <3>. QED
      BY <1>2, <3>2, <3>3
  <2>3. PICK q \in [1..(n - 1) -> L] : Sorted(q)
    <3>1. Has(L)
      <4>1. n - 1 \in Nat /\ ~ (n <= n - 1)
        BY <2>2
      <4>2. n - 1 \notin T
        BY <1>2, <4>1
      <4>. QED
        BY <2>2, <4>1, <4>2
    <3>. QED
      BY <2>2, <3>1
  <2>. DEFINE p == [i \in 1..n |-> IF i = n THEN m ELSE q[i]]
  <2>4. \A i \in 1..n : i = n \/ i \in 1..(n - 1)
    BY <2>2
  <2>5. p \in [1..n -> R]
    BY <2>1, <2>3, <2>4
  <2>6. \A x \in L : x \in Nat /\ x < m
    BY <2>1 DEF Chips
  <2>7. Sorted(p)
    <3>1. SUFFICES ASSUME NEW i \in 1..n, NEW j \in 1..n, i < j PROVE p[i] < p[j]
      BY DEF Sorted
    <3>2. i \in 1..(n - 1) /\ i # n /\ p[i] = q[i] /\ q[i] \in L
      BY <2>2, <2>3, <3>1
    <3>3. CASE j = n
      BY <2>6, <3>2, <3>3
    <3>4. CASE j # n
      <4>1. j \in 1..(n - 1) /\ p[j] = q[j]
        BY <2>4, <3>4
      <4>. QED
        BY <2>3, <3>1, <3>2, <4>1 DEF Sorted
    <3>. QED
      BY <3>3, <3>4
  <2>. QED
    BY <1>3, <2>5, <2>7
<1>. QED
  BY <1>4, <1>5

LEMMA AscendingFacts ==
    ASSUME NEW S \in SUBSET Chips
    PROVE  /\ Ascending(S) \in [1..Cardinality(S) -> S] /\ Sorted(Ascending(S))
           /\ Ascending(S) \in Seq(Chips)
<1>1. Ascending(S) \in [1..Cardinality(S) -> S] /\ Sorted(Ascending(S))
  BY AscendingExists DEF Ascending, Sorted
<1>2. Ascending(S) \in [1..Cardinality(S) -> Chips]
  BY <1>1
<1>3. Seq(Chips) = UNION {[1..n -> Chips] : n \in Nat}
  BY SeqDef
<1>4. Ascending(S) \in Seq(Chips)
  BY <1>2, <1>3, ChipSetsFinite, Zenon
<1>. QED
  BY <1>1, <1>4

-----------------------------------------------------------------------------
(* The lists of the convention. *)

Lists == {<<0>>, <<1>>, <<2>>, <<3>>, <<0, 1>>, <<2, 3>>, <<0, 1, 2, 3>>}

LEMMA SortedAccepted ==
    ASSUME NEW devs, Accepted(devs), Sorted(devs)
    PROVE  devs \in Lists
<1>1. devs \in Seq(Chips) /\ DOMAIN devs = 1..Len(devs)
      /\ \A i \in 1..Len(devs) : devs[i] \in Chips
  BY ElementOfSeq, LenProperties DEF Accepted
<1>2. CASE Len(devs) = 1
  <2>1. devs = <<devs[1]>> /\ devs[1] \in 0..3
    BY <1>1, <1>2 DEF Chips
  <2>2. devs[1] \in {0, 1, 2, 3}
    BY <2>1
  <2>. QED
    BY <2>1, <2>2, Zenon DEF Lists
<1>3. CASE Len(devs) = 4
  <2>1. /\ devs[1] \in 0..3 /\ devs[2] \in 0..3 /\ devs[3] \in 0..3 /\ devs[4] \in 0..3
        /\ devs[1] < devs[2] /\ devs[2] < devs[3] /\ devs[3] < devs[4]
    BY <1>1, <1>3 DEF Chips, Sorted
  <2>2. devs[1] = 0 /\ devs[2] = 1 /\ devs[3] = 2 /\ devs[4] = 3
    BY <2>1
  <2>3. devs = <<0, 1, 2, 3>>
    BY <1>1, <1>3, <2>2
  <2>. QED
    BY <2>3 DEF Lists
<1>. QED
  BY <1>2, <1>3, Zenon DEF Accepted, Lists

LEMMA SortedSingle ==
    ASSUME NEW c \in Chips PROVE Ascending({c}) = <<c>>
<1>1. Cardinality({c}) = 1
  BY FS_Singleton
<1>2. Ascending({c}) \in [1..1 -> {c}]
  BY <1>1, AscendingFacts
<1>. QED
  BY <1>2

LEMMA SortedPair ==
    ASSUME NEW c \in Chips, NEW d \in Chips, c < d PROVE Ascending({c, d}) = <<c, d>>
<1>1. Cardinality({c, d}) = 2
  <2>1. IsFiniteSet({c}) /\ Cardinality({c}) = 1
    BY FS_Singleton, Zenon
  <2>2. {c} \union {d} = {c, d} /\ d \notin {c}
    BY DEF Chips
  <2>3. Cardinality({c} \union {d}) = Cardinality({c}) + 1
    BY <2>1, <2>2, FS_AddElement, Zenon
  <2>4. Cardinality({c, d}) = 1 + 1
    BY <2>1, <2>2, <2>3, Zenon
  <2>. QED
    BY <2>4
<1>2. Ascending({c, d}) \in [1..2 -> {c, d}] /\ Sorted(Ascending({c, d}))
  BY <1>1, AscendingFacts
<1>3. Ascending({c, d})[1] < Ascending({c, d})[2]
  BY <1>2 DEF Sorted
<1>4. Ascending({c, d})[1] = c /\ Ascending({c, d})[2] = d
  BY <1>2, <1>3 DEF Chips
<1>. QED
  BY <1>2, <1>4

LEMMA SortedAll == Ascending(Chips) = <<0, 1, 2, 3>>
<1>1. Cardinality(Chips) = 4
  <2>1. 0 \in Int /\ 3 \in Int /\ ~ (0 > 3) /\ 3 - 0 + 1 = 4
    OBVIOUS
  <2>2. Cardinality(0..3) = 3 - 0 + 1
    BY <2>1, FS_Interval, Zenon
  <2>. QED
    BY <2>1, <2>2, Zenon DEF Chips
<1>2. Ascending(Chips) \in [1..4 -> 0..3] /\ Sorted(Ascending(Chips))
  BY <1>1, AscendingFacts DEF Chips
<1>. DEFINE q == Ascending(Chips)
<1>3. /\ q[1] \in 0..3 /\ q[2] \in 0..3 /\ q[3] \in 0..3 /\ q[4] \in 0..3
      /\ q[1] < q[2] /\ q[2] < q[3] /\ q[3] < q[4]
  BY <1>2 DEF Sorted
<1>4. q[1] = 0 /\ q[2] = 1 /\ q[3] = 2 /\ q[4] = 3
  BY <1>3
<1>. QED
  BY <1>2, <1>4

\* What the kernel reports of a job started with one of these lists, sorted, is
\* the list again: the first chip is the one its port was counted from.
LEMMA AscendingLists ==
    ASSUME NEW devs \in Lists
    PROVE  /\ Ascending(ToSet(devs)) = devs
           /\ devs \in Seq(Chips) /\ devs # <<>>
<1>1. CASE devs \in {<<0>>, <<1>>, <<2>>, <<3>>}
  <2>1. PICK c \in Chips : devs = <<c>>
    BY <1>1 DEF Chips
  <2>2. ToSet(devs) = {c}
    BY <2>1 DEF ToSet
  <2>. QED
    BY <2>1, <2>2, SortedSingle
<1>2. CASE devs \in {<<0, 1>>, <<2, 3>>}
  <2>1. PICK c \in Chips, d \in Chips : devs = <<c, d>> /\ c < d
    BY <1>2 DEF Chips
  <2>2. ToSet(devs) = {c, d}
    BY <2>1 DEF ToSet
  <2>. QED
    BY <2>1, <2>2, SortedPair
<1>3. CASE devs = <<0, 1, 2, 3>>
  <2>1. ToSet(devs) = Chips
    BY <1>3 DEF ToSet, Chips
  <2>2. <<0, 1, 2, 3>> \in Seq(Chips) /\ <<0, 1, 2, 3>> # <<>>
    BY DEF Chips
  <2>. QED
    BY <1>3, <2>1, <2>2, SortedAll, Zenon
<1>. QED
  BY <1>1, <1>2, <1>3 DEF Lists

\* Whatever shells and wrappers lie above it: a job of a conventional chain has
\* the chips of a list of the convention, and the port of the list's first chip.
LEMMA ConventionalFacts ==
    ASSUME NEW chain \in Seq(Commands), Executes(chain), Conventional(chain),
           OnTpu(EnvAfter(chain))
    PROVE  \E devs \in Lists : /\ OwnedChips(EnvAfter(chain)) = ToSet(devs)
                               /\ MetricsPort(EnvAfter(chain)) = BasePort + devs[1]
<1>. DEFINE env == EnvAfter(chain)
<1>1. /\ DOMAIN chain = 1..Len(chain) /\ Len(chain) \in Nat
      /\ \A i \in 1..Len(chain) : chain[i] \in Commands
  BY ElementOfSeq, LenProperties
<1>2. \A i \in 1..Len(chain) : chain[i].is = "tpu" => Accepted(chain[i].devs)
  BY <1>1 DEF Executes
<1>3. env.pjrt = "TPU" /\ env.visible # <<>>
  BY DEF OnTpu
\* No tpu-device anywhere: chip 0 and its port, unless on the CPU.
<1>4. CASE \A i \in DOMAIN chain : chain[i].is # "tpu"
  <2>. DEFINE G == {e \in Envs : e.ports = <<BasePort>> /\ e.visible \in {<<0>>, <<>>}}
  <2>1. Defaults(EmptyEnv) \in G
    <3>1. /\ Defaults(EmptyEnv).visible = <<0>> /\ Defaults(EmptyEnv).ports = <<BasePort>>
          /\ Defaults(EmptyEnv) \in Envs
      BY LoginFacts
    <3>. QED
      BY <3>1, Zenon
  <2>2. ASSUME NEW e \in G, NEW i \in 1..Len(chain)
        PROVE  Enter(e, chain[i]) \in G
    <3>1. /\ chain[i] \in Commands /\ e \in Envs /\ e.ports = <<BasePort>>
          /\ chain[i].is # "tpu"
      BY <1>1, <1>4
    <3>2. Enter(e, chain[i]) \in Envs
      BY <3>1, EnterTyped
    <3>3. CASE chain[i].is = "cpu"
      <4>1. Enter(e, chain[i]) = [jax |-> "cpu", pjrt |-> "CPU", visible |-> <<>>,
                                  ports |-> e.ports]
        BY <3>1, <3>3, EnterFacts, Zenon
      <4>. QED
        BY <3>1, <3>2, <4>1
    <3>4. CASE chain[i].is = "shell"
      <4>1. Enter(e, chain[i]) = [jax |-> e.jax, pjrt |-> "TPU", visible |-> <<0>>,
                                  ports |-> IF e.ports = <<>> THEN <<BasePort>>
                                            ELSE e.ports]
        BY <3>1, <3>4, EnterFacts, Zenon
      <4>2. (IF e.ports = <<>> THEN <<BasePort>> ELSE e.ports) = <<BasePort>>
        BY <3>1
      <4>. QED
        BY <3>2, <4>1, <4>2
    <3>. QED
      BY <3>1, <3>3, <3>4, EnterFacts
  <2>3. env \in G
    <3>. HIDE DEF G
    <3>. QED
      BY <2>1, <2>2, ChainInduction
  <2>4. env.visible = <<0>> /\ env.ports = <<BasePort>>
    BY <1>3, <2>3
  <2>5. <<0>> \in Lists /\ BasePort = BasePort + <<0>>[1] /\ Last(<<BasePort>>) = BasePort
    BY DEF Lists, BasePort, Last
  <2>. QED
    BY <2>4, <2>5 DEF OwnedChips, MetricsPort
<1>5. CASE chain # <<>> /\ ~ (\A i \in DOMAIN chain : chain[i].is # "tpu")
  <2>1. \A e \in Envs : \A i \in 1..Len(chain) : Enter(e, chain[i]) \in Envs
    BY <1>1, <1>2, EnterTyped
  <2>2. PICK e \in Envs : env = Enter(e, Last(chain))
    BY <1>5, <2>1, ChainInduction, LoginFacts
  <2>3. /\ Last(chain) \in Commands
        /\ Last(chain).is = "tpu" => Accepted(Last(chain).devs)
    <3>1. Len(chain) # 0
      BY <1>5, EmptySeq
    <3>2. Len(chain) \in 1..Len(chain)
      BY <1>1, <3>1
    <3>. QED
      BY <1>1, <1>2, <3>2 DEF Last
  <2>4. Last(chain).is # "cpu"
    <3>1. SUFFICES ASSUME Last(chain).is = "cpu" PROVE FALSE
      OBVIOUS
    <3>2. env = [jax |-> "cpu", pjrt |-> "CPU", visible |-> <<>>, ports |-> e.ports]
      BY <2>2, <2>3, <3>1, EnterFacts, Zenon
    <3>. QED
      BY <1>3, <3>2
  <2>. DEFINE devs == Last(chain).devs
  <2>5. /\ Last(chain).is = "tpu"
        /\ \A i, j \in DOMAIN devs : i < j => devs[i] < devs[j]
    BY <1>5, <2>4 DEF Conventional
  <2>6. Accepted(devs) /\ devs \in Lists /\ BasePort + devs[1] \in Nat
    <3>1. Accepted(devs) /\ Sorted(devs)
      BY <2>3, <2>5 DEF Sorted
    <3>. HIDE DEF devs
    <3>. QED
      BY <3>1, SortedAccepted, AcceptedFacts
  <2>7. env = [jax |-> e.jax, pjrt |-> "TPU", visible |-> devs,
               ports |-> Append(e.ports, BasePort + devs[1])]
    BY <2>2, <2>3, <2>5, EnterFacts, Zenon
  <2>8. OwnedChips(env) = ToSet(devs)
    BY <2>7 DEF OwnedChips
  <2>9. MetricsPort(env) = BasePort + devs[1]
    <3>. DEFINE port == BasePort + devs[1]
    <3>1. e.ports \in Seq(Nat) /\ port \in Nat
      BY <2>6 DEF Envs
    <3>. HIDE DEF port
    <3>2. /\ Len(Append(e.ports, port)) = Len(e.ports) + 1
          /\ Append(e.ports, port)[Len(e.ports) + 1] = port
      BY <3>1, AppendProperties
    <3>3. env.ports = Append(e.ports, port)
      BY <2>7 DEF port
    <3>. QED
      BY <3>2, <3>3 DEF MetricsPort, Last, port
  <2>. QED
    BY <2>6, <2>8, <2>9
<1>. QED
  BY <1>4, <1>5 DEF Conventional

LEMMA ConventionFacts ==
    ASSUME Convention, NEW env \in LaunchEnvs
    PROVE  \E devs \in Lists : /\ Ascending(OwnedChips(env)) = devs
                               /\ MetricsPort(env) = BasePort + devs[1]
<1>1. PICK chain \in Launches : Executes(chain) /\ env = EnvAfter(chain) /\ OnTpu(env)
  BY DEF LaunchEnvs
<1>2. PICK devs \in Lists : OwnedChips(env) = ToSet(devs) /\ MetricsPort(env) = BasePort + devs[1]
  <2>1. chain \in Seq(Commands) /\ Conventional(chain)
    BY <1>1 DEF Convention
  <2>. QED
    BY <1>1, <2>1, ConventionalFacts, Zenon
<1>. QED
  BY <1>2, AscendingLists, Zenon

-----------------------------------------------------------------------------
(* The inductive invariant. *)

Types ==
    /\ job \in [Jobs -> [phase : {"new", "warming", "serving", "gone"},
                         chips : SUBSET Chips, port : Nat]]
    /\ file \in [Chips -> Entries]

\* A job on the TPU has the chips and the port of an environment jobs start in.
Launched ==
    \A j \in Jobs : Holding(j) =>
        \E env \in LaunchEnvs : /\ job[j].chips = OwnedChips(env)
                                /\ job[j].port = MetricsPort(env)

\* The poll goes by chips each pid had when the owners were read, which may no
\* longer be those of any job.
Polled ==
    poll # NoPoll =>
        /\ poll = [pc |-> "query", chips |-> poll.chips,
                   todo |-> poll.todo, devices |-> poll.devices]
        /\ poll.todo \in SUBSET Jobs
        /\ poll.devices \in [Chips -> Entries]
        /\ \A j \in poll.todo :
              \E env \in LaunchEnvs : poll.chips[j] = Ascending(OwnedChips(env))

Measured(entries) == \A c \in Chips : Available(entries[c]) => entries[c].chip = c

\* What is about to be published is right too.
AllMeasured == Measured(file) /\ (poll # NoPoll => Measured(poll.devices))

Inv == Types /\ Launched /\ Polled /\ (Convention => AllMeasured)

-----------------------------------------------------------------------------
(* The steps. *)

LEMMA JobFields ==
    ASSUME Types, NEW j \in Jobs
    PROVE  /\ job[j] = [phase |-> job[j].phase, chips |-> job[j].chips, port |-> job[j].port]
           /\ job[j].phase \in {"new", "warming", "serving", "gone"}
           /\ job[j].chips \in SUBSET Chips /\ job[j].port \in Nat
BY DEF Types

\* A step of job j that gives it the record r.
LEMMA JobStep ==
    ASSUME Inv, NEW j \in Jobs, NEW r,
           r \in [phase : {"new", "warming", "serving", "gone"},
                  chips : SUBSET Chips, port : Nat],
           r.phase \in {"warming", "serving"} =>
              \E env \in LaunchEnvs : r.chips = OwnedChips(env) /\ r.port = MetricsPort(env),
           job' = [job EXCEPT ![j] = r], UNCHANGED <<poll, file>>
    PROVE  Inv'
<1>1. Types /\ Launched /\ Polled /\ (Convention => AllMeasured)
  BY DEF Inv
<1>2. Types'
  BY <1>1 DEF Types
<1>3. Launched'
  <2>1. SUFFICES ASSUME NEW k \in Jobs, Holding(k)'
                 PROVE  \E env \in LaunchEnvs : /\ job'[k].chips = OwnedChips(env)
                                                /\ job'[k].port = MetricsPort(env)
    BY DEF Launched
  <2>2. CASE k = j
    <3>1. job'[k] = r
      BY <1>1, <2>2 DEF Types
    <3>. QED
      BY <2>1, <3>1 DEF Holding
  <2>3. CASE k # j
    <3>1. job'[k] = job[k]
      BY <1>1, <2>3 DEF Types
    <3>. QED
      BY <1>1, <2>1, <3>1 DEF Holding, Launched
  <2>. QED
    BY <2>2, <2>3
<1>4. Polled' /\ (Convention => AllMeasured)'
  BY <1>1 DEF Polled, AllMeasured, Measured
<1>. QED
  BY <1>2, <1>3, <1>4 DEF Inv

LEMMA StartInv == ASSUME Inv, NEW j \in Jobs, Start(j) PROVE Inv'
<1>1. PICK env \in LaunchEnvs :
         job' = [job EXCEPT ![j] = [phase |-> "warming", chips |-> OwnedChips(env),
                                    port  |-> MetricsPort(env)]]
  BY DEF Start
<1>. DEFINE r == [phase |-> "warming", chips |-> OwnedChips(env), port |-> MetricsPort(env)]
<1>2. OwnedChips(env) \in SUBSET Chips /\ MetricsPort(env) \in Nat
  BY LaunchEnvsTyped
<1>3. /\ r \in [phase : {"new", "warming", "serving", "gone"},
                chips : SUBSET Chips, port : Nat]
      /\ r.chips = OwnedChips(env) /\ r.port = MetricsPort(env)
  BY <1>2
<1>4. UNCHANGED <<poll, file>>
  BY DEF Start
<1>. HIDE DEF r
<1>. QED
  BY <1>1, <1>3, <1>4, JobStep, Zenon DEF r

\* Bind and Exit change the phase alone.
LEMMA PhaseInv ==
    ASSUME Inv, NEW j \in Jobs, Holding(j), NEW phase \in {"serving", "gone"},
           job' = [job EXCEPT ![j].phase = phase], UNCHANGED <<poll, file>>
    PROVE  Inv'
<1>1. Types /\ Launched
  BY DEF Inv
<1>2. PICK old, chips, port : job[j] = [phase |-> old, chips |-> chips, port |-> port]
  BY <1>1, JobFields, Zenon
<1>. DEFINE r == [phase |-> phase, chips |-> chips, port |-> port]
<1>3. [job[j] EXCEPT !.phase = phase] = r
  <2>1. [[phase |-> old, chips |-> chips, port |-> port] EXCEPT !.phase = phase] = r
    OBVIOUS
  <2>. QED
    BY <1>2, <2>1, Zenon
<1>4. job' = [job EXCEPT ![j] = r]
  BY <1>3, Zenon
<1>5. job[j].chips = chips /\ job[j].port = port
  BY <1>2
<1>6. /\ chips \in SUBSET Chips /\ port \in Nat
      /\ \E env \in LaunchEnvs : chips = OwnedChips(env) /\ port = MetricsPort(env)
  BY <1>1, <1>5, JobFields DEF Launched
<1>7. /\ r \in [phase : {"new", "warming", "serving", "gone"},
                chips : SUBSET Chips, port : Nat]
      /\ r.chips = chips /\ r.port = port
  BY <1>6
<1>. HIDE DEF r
<1>. QED
  BY <1>4, <1>6, <1>7, JobStep, Zenon

LEMMA ReadOwnersInv == ASSUME Inv, ReadOwners PROVE Inv'
<1>1. Types /\ Launched /\ (Convention => AllMeasured)
  BY DEF Inv
<1>. DEFINE owning == {j \in Jobs : Holding(j)}
<1>2. PICK chips, devices :
         /\ chips = [j \in owning |-> Ascending(job[j].chips)]
         /\ devices = [c \in Chips |-> Entry("idle")]
         /\ poll' = [pc |-> "query", chips |-> chips, todo |-> owning, devices |-> devices]
         /\ UNCHANGED <<job, file>>
  BY DEF ReadOwners
<1>3. /\ poll'.chips = chips /\ poll'.todo = owning /\ poll'.devices = devices
      /\ poll' = [pc |-> "query", chips |-> poll'.chips,
                  todo |-> poll'.todo, devices |-> poll'.devices]
  <2>. HIDE DEF owning
  <2>. QED
    BY <1>2
<1>4. devices \in [Chips -> Entries] /\ \A c \in Chips : ~ Available(devices[c])
  BY <1>2 DEF Entry, Entries, Available
<1>5. \A j \in owning :
         \E env \in LaunchEnvs : chips[j] = Ascending(OwnedChips(env))
  BY <1>1, <1>2 DEF Launched
<1>6. Types' /\ Launched' /\ Measured(file)' = Measured(file)
  BY <1>1, <1>2 DEF Types, Launched, Holding, Measured
<1>7. Polled'
  <2>. owning \in SUBSET Jobs
    OBVIOUS
  <2>. HIDE DEF owning
  <2>. QED
    BY <1>3, <1>4, <1>5 DEF Polled
<1>8. Measured(poll.devices)'
  BY <1>3, <1>4 DEF Measured
<1>. QED
  BY <1>1, <1>6, <1>7, <1>8 DEF Inv, AllMeasured

\* What collect_devices may write for the chips of a pid: the published file
\* stays, the devices stay entries, and right if what is written is right.
LEMMA AssignInv ==
    ASSUME Inv, NEW j, poll.pc = "query", j \in poll.todo, NEW e, Assign(j, e),
           \A i \in DOMAIN e : e[i] \in Entries,
           Convention =>
              \A i \in DOMAIN e : Available(e[i]) => e[i].chip = poll.chips[j][i],
           UNCHANGED <<job, file>>
    PROVE  Inv'
<1>1. Types /\ Launched /\ Polled /\ (Convention => AllMeasured)
  BY DEF Inv
<1>2. poll # NoPoll
  BY DEF NoPoll
<1>3. PICK chips, todo, devices :
         /\ poll = [pc |-> "query", chips |-> chips, todo |-> todo, devices |-> devices]
         /\ chips = poll.chips /\ todo = poll.todo /\ devices = poll.devices
  BY <1>1, <1>2, Zenon DEF Polled
<1>4. /\ todo \in SUBSET Jobs /\ devices \in [Chips -> Entries]
      /\ \A k \in todo : \E env \in LaunchEnvs : chips[k] = Ascending(OwnedChips(env))
  BY <1>1, <1>2, <1>3, Zenon DEF Polled
<1>. DEFINE At(c)  == \E i \in DOMAIN e : chips[j][i] = c
            New(c) == e[CHOOSE i \in DOMAIN e : chips[j][i] = c]
<1>5. PICK new : new = [c \in Chips |-> IF At(c) THEN New(c) ELSE devices[c]]
  OBVIOUS
<1>6. poll' = [poll EXCEPT !.todo = todo \ {j}, !.devices = new]
  BY <1>3, <1>5, Zenon DEF Assign
<1>7. PICK left : left = todo \ {j}
  OBVIOUS
<1>8. poll' = [pc |-> "query", chips |-> chips, todo |-> left, devices |-> new]
  <2>. DEFINE r == [pc |-> "query", chips |-> chips, todo |-> todo, devices |-> devices]
  <2>1. [r EXCEPT !.todo = left, !.devices = new]
          = [[r EXCEPT !.todo = left] EXCEPT !.devices = new]
    OBVIOUS
  <2>2. [r EXCEPT !.todo = left]
          = [pc |-> "query", chips |-> chips, todo |-> left, devices |-> devices]
    OBVIOUS
  <2>3. [[pc |-> "query", chips |-> chips, todo |-> left, devices |-> devices]
            EXCEPT !.devices = new]
          = [pc |-> "query", chips |-> chips, todo |-> left, devices |-> new]
    OBVIOUS
  <2>. QED
    BY <1>3, <1>6, <1>7, <2>1, <2>2, <2>3, Zenon
<1>9. /\ poll'.chips = chips /\ poll'.todo = left /\ poll'.devices = new
      /\ poll' = [pc |-> "query", chips |-> poll'.chips,
                  todo |-> poll'.todo, devices |-> poll'.devices]
  BY <1>8
<1>10. ASSUME NEW c \in Chips
       PROVE  \/ new[c] = devices[c]
              \/ \E i \in DOMAIN e : new[c] = e[i] /\ poll.chips[j][i] = c
  <2>1. CASE At(c)
    <3>1. new[c] = New(c)
      BY <1>5, <2>1
    <3>2. \E i \in DOMAIN e : e[i] = New(c) /\ chips[j][i] = c
      BY <2>1, Zenon
    <3>. QED
      BY <1>3, <3>1, <3>2, Zenon
  <2>2. CASE ~ At(c)
    BY <1>5, <2>2
  <2>. QED
    BY <2>1, <2>2
<1>11. new \in [Chips -> Entries]
  <2>1. \A c \in Chips : new[c] \in Entries
    BY <1>4, <1>10
  <2>2. new = [c \in Chips |-> new[c]]
    BY <1>5
  <2>. QED
    BY <2>1, <2>2
<1>12. Polled'
  <2>1. left \in SUBSET Jobs /\ left \subseteq todo
    BY <1>4, <1>7
  <2>2. \A k \in left : \E env \in LaunchEnvs : chips[k] = Ascending(OwnedChips(env))
    BY <1>4, <2>1
  <2>. QED
    BY <1>9, <1>11, <2>1, <2>2, Zenon DEF Polled
<1>13. ASSUME Convention PROVE AllMeasured'
  <2>1. Measured(file)' /\ Measured(devices)
    BY <1>1, <1>2, <1>3, <1>13 DEF AllMeasured, Measured
  <2>2. Measured(new)
    <3>1. SUFFICES ASSUME NEW c \in Chips, Available(new[c]) PROVE new[c].chip = c
      BY DEF Measured
    <3>2. CASE new[c] = devices[c]
      BY <2>1, <3>1, <3>2 DEF Measured
    <3>3. CASE \E i \in DOMAIN e : new[c] = e[i] /\ poll.chips[j][i] = c
      BY <1>13, <3>1, <3>3
    <3>. QED
      BY <1>10, <3>2, <3>3
  <2>3. Measured(poll.devices)'
    BY <1>9, <2>2 DEF Measured
  <2>. QED
    BY <2>1, <2>3 DEF AllMeasured
<1>14. Types' /\ Launched'
  BY <1>1 DEF Types, Launched, Holding
<1>. QED
  BY <1>12, <1>13, <1>14 DEF Inv

LEMMA QueryFailsInv == ASSUME Inv, NEW j \in Jobs, QueryFails(j) PROVE Inv'
<1>1. PICK reason \in {"warming", "error"} :
         Assign(j, [i \in DOMAIN poll.chips[j] |-> Entry(reason)])
  BY DEF QueryFails
<1>. DEFINE e == [i \in DOMAIN poll.chips[j] |-> Entry(reason)]
<1>2. Entry(reason) \in Entries /\ ~ Available(Entry(reason))
  BY DEF Entry, Entries, Available
<1>3. \A i \in DOMAIN e : e[i] \in Entries /\ ~ Available(e[i])
  BY <1>2
<1>4. poll.pc = "query" /\ j \in poll.todo /\ UNCHANGED <<job, file>>
  BY DEF QueryFails
<1>5. Assign(j, e)
  BY <1>1
<1>. HIDE DEF e
<1>. QED
  BY <1>3, <1>4, <1>5, AssignInv, Zenon

\* The job that answers has the list the port was counted from, if it follows
\* the convention, and so has the pid: equal first chips and equal lengths make
\* them the same list, whichever two jobs these are.
LEMMA QueryAnsweredInv == ASSUME Inv, NEW j \in Jobs, QueryAnswered(j) PROVE Inv'
<1>1. Types /\ Launched /\ Polled
  BY DEF Inv
<1>2. poll.pc = "query" /\ j \in poll.todo /\ poll # NoPoll /\ UNCHANGED <<job, file>>
  BY DEF QueryAnswered, NoPoll
<1>3. PICK k \in Serving(QueryPort(j)) :
         Assign(j, [i \in DOMAIN poll.chips[j] |->
                       IF Len(Ascending(job[k].chips)) = Len(poll.chips[j])
                       THEN Sample(k, Ascending(job[k].chips)[i]) ELSE Entry("warming")])
  BY DEF QueryAnswered
<1>4. k \in Jobs /\ Holding(k) /\ job[k].port = QueryPort(j)
  BY <1>3 DEF Serving, Holding
<1>5. PICK mine \in LaunchEnvs : poll.chips[j] = Ascending(OwnedChips(mine))
  BY <1>1, <1>2 DEF Polled
<1>6. PICK its \in LaunchEnvs : job[k].chips = OwnedChips(its) /\ job[k].port = MetricsPort(its)
  BY <1>1, <1>4 DEF Launched
<1>7. PICK chips, usages : chips = poll.chips[j] /\ usages = Ascending(job[k].chips)
  OBVIOUS
<1>8. /\ chips \in Seq(Chips) /\ usages \in Seq(Chips)
      /\ DOMAIN chips = 1..Len(chips) /\ DOMAIN usages = 1..Len(usages)
      /\ \A i \in 1..Len(usages) : usages[i] \in Chips
  <2>1. chips \in Seq(Chips) /\ usages \in Seq(Chips)
    BY <1>5, <1>6, <1>7, LaunchEnvsTyped, AscendingFacts
  <2>. QED
    BY <2>1, LenProperties, ElementOfSeq
<1>. DEFINE e == [i \in DOMAIN chips |-> IF Len(usages) = Len(chips)
                                         THEN Sample(k, usages[i]) ELSE Entry("warming")]
<1>9. Assign(j, e)
  BY <1>3, <1>7
<1>10. /\ Entry("warming") \in Entries /\ ~ Available(Entry("warming"))
       /\ \A c \in Chips : Sample(k, c) \in Entries /\ Sample(k, c).chip = c
  BY <1>4 DEF Entry, Entries, Available, Sample
<1>11. \A i \in DOMAIN e : e[i] \in Entries
  BY <1>8, <1>10
<1>12. ASSUME Convention, NEW i \in DOMAIN e, Available(e[i])
       PROVE  e[i].chip = poll.chips[j][i]
  <2>1. chips \in Lists /\ usages \in Lists /\ MetricsPort(its) = BasePort + usages[1]
    BY <1>5, <1>6, <1>7, <1>12, ConventionFacts
  <2>2. BasePort + usages[1] = BasePort + chips[1]
    BY <1>4, <1>6, <1>7, <2>1 DEF QueryPort
  <2>3. i \in DOMAIN chips /\ Len(usages) = Len(chips) /\ e[i] = Sample(k, usages[i])
    BY <1>10, <1>12
  <2>4. usages = chips
    BY <2>1, <2>2, <2>3 DEF Lists, BasePort
  <2>5. usages[i] \in Chips
    BY <1>8, <2>3
  <2>. QED
    BY <1>7, <1>10, <2>3, <2>4, <2>5
<1>. HIDE DEF e
<1>. QED
  BY <1>2, <1>9, <1>11, <1>12, AssignInv, Zenon

LEMMA PublishInv == ASSUME Inv, Publish PROVE Inv'
<1>1. Types /\ Launched /\ Polled /\ (Convention => AllMeasured)
  BY DEF Inv
<1>2. poll # NoPoll /\ poll' = NoPoll /\ file' = poll.devices /\ UNCHANGED job
  BY DEF Publish, NoPoll
<1>3. Types' /\ Launched'
  BY <1>1, <1>2 DEF Types, Launched, Holding, Polled
<1>4. Polled'
  BY <1>2 DEF Polled
<1>5. Convention => AllMeasured'
  BY <1>1, <1>2 DEF AllMeasured, Measured
<1>. QED
  BY <1>3, <1>4, <1>5 DEF Inv

LEMMA AbandonInv == ASSUME Inv, Abandon PROVE Inv'
<1>1. Types /\ Launched /\ (Convention => AllMeasured)
  BY DEF Inv
<1>2. poll' = NoPoll /\ UNCHANGED <<job, file>>
  BY DEF Abandon
<1>3. Types' /\ Launched' /\ Polled'
  BY <1>1, <1>2 DEF Types, Launched, Holding, Polled
<1>4. Convention => AllMeasured'
  BY <1>1, <1>2 DEF AllMeasured, Measured
<1>. QED
  BY <1>3, <1>4 DEF Inv

LEMMA InitInv == Init => Inv
<1>. SUFFICES ASSUME Init PROVE Inv
  OBVIOUS
<1>1. Entry("idle") \in Entries /\ ~ Available(Entry("idle"))
  BY DEF Entry, Entries, Available
<1>2. Types
  BY <1>1 DEF Init, Types, NoJob
<1>3. Launched
  BY DEF Init, Launched, Holding, NoJob
<1>4. Polled
  BY DEF Init, Polled
<1>5. AllMeasured
  BY <1>1 DEF Init, AllMeasured, Measured
<1>. QED
  BY <1>2, <1>3, <1>4, <1>5 DEF Inv

-----------------------------------------------------------------------------
(* The theorems. *)

\* The invariant is inductive: every step of a job and of the sidecar keeps it.
THEOREM InvInductive == Inv /\ [Next]_vars => Inv'
<1>. SUFFICES ASSUME Inv, [Next]_vars PROVE Inv'
  OBVIOUS
<1>1. CASE ReadOwners
  BY <1>1, ReadOwnersInv
<1>2. CASE Publish
  BY <1>2, PublishInv
<1>3. CASE Abandon
  BY <1>3, AbandonInv
<1>4. ASSUME NEW j \in Jobs, Start(j) PROVE Inv'
  BY <1>4, StartInv
<1>5. ASSUME NEW j \in Jobs, Bind(j) PROVE Inv'
  <2>1. /\ Holding(j) /\ job' = [job EXCEPT ![j].phase = "serving"]
        /\ UNCHANGED <<poll, file>>
    BY <1>5 DEF Bind, Holding
  <2>. QED
    BY <2>1, PhaseInv
<1>6. ASSUME NEW j \in Jobs, Exit(j) PROVE Inv'
  <2>1. /\ Holding(j) /\ job' = [job EXCEPT ![j].phase = "gone"]
        /\ UNCHANGED <<poll, file>>
    BY <1>6 DEF Exit
  <2>. QED
    BY <2>1, PhaseInv
<1>7. ASSUME NEW j \in Jobs, QueryFails(j) PROVE Inv'
  BY <1>7, QueryFailsInv
<1>8. ASSUME NEW j \in Jobs, QueryAnswered(j) PROVE Inv'
  BY <1>8, QueryAnsweredInv
<1>9. CASE UNCHANGED vars
  BY <1>9 DEF vars, Inv, Types, Launched, Holding, Polled, AllMeasured, Measured
<1>. QED
  BY <1>1, <1>2, <1>3, <1>4, <1>5, <1>6, <1>7, <1>8, <1>9 DEF Next

\* Every reachable state satisfies the invariant.
THEOREM InvCorrect == Spec => []Inv
<1>1. Inv /\ [Next]_vars => Inv'
  BY InvInductive
<1>. QED
  BY InitInv, <1>1, PTL DEF Spec

\* Phases, chips and the published entries keep their types, whatever chains the
\* jobs are started by (collect_devices, write_atomic).
THEOREM TypeCorrect == Spec => []TypeOK
<1>1. Inv => TypeOK
  <2>. SUFFICES ASSUME Inv PROVE TypeOK
    OBVIOUS
  <2>1. Types /\ poll.pc \in {"sleep", "query"}
    <3>1. CASE poll = NoPoll
      BY <3>1 DEF Inv, NoPoll
    <3>2. CASE poll # NoPoll
      <4>1. PICK chips, todo, devices :
               poll = [pc |-> "query", chips |-> chips, todo |-> todo, devices |-> devices]
        BY <3>2, Zenon DEF Inv, Polled
      <4>. QED
        BY <4>1 DEF Inv
    <3>. QED
      BY <3>1, <3>2
  <2>. QED
    BY <2>1 DEF Types, TypeOK
<1>. QED
  BY InvCorrect, <1>1, PTL

\* If what runs on the TPU follows tpu-device's convention, a chip's published
\* numbers were measured on that chip: for any number of jobs, coming and going at
\* any moment of a poll, and under any number of shells and wrappers.
THEOREM MeasuredOnThisChipCorrect == Convention => (Spec => []MeasuredOnThisChip)
<1>1. SUFFICES ASSUME Convention PROVE Spec => []MeasuredOnThisChip
  OBVIOUS
<1>2. Inv => MeasuredOnThisChip
  BY <1>1 DEF Inv, AllMeasured, Measured, MeasuredOnThisChip
<1>. QED
  BY InvCorrect, <1>2, PTL
=============================================================================
