------------------------------- MODULE TpuEnv -------------------------------
(***************************************************************************)
(* The environment a TPU job starts from: what conf/tpu-defaults.sh and    *)
(* shared-scripts/tpu-device.sh do to the variables libtpu and JAX read,   *)
(* along a chain of processes that inherit from each other.  An unset      *)
(* variable is "" or an empty sequence; ports are the values of the        *)
(* repeated --runtime_metric_service_port flags in LIBTPU_INIT_ARGS.  The  *)
(* BOUNDS and MESH_CONTROLLER variables are left out: nothing in the       *)
(* repository reads them.                                                  *)
(***************************************************************************)
EXTENDS Integers, Sequences, SequencesExt

Chips    == 0..3
BasePort == 8431

EmptyEnv == [jax |-> "", pjrt |-> "", visible |-> <<>>, ports |-> <<>>]

\* tpu-defaults.sh: everything is set except a port flag that is already there.
Defaults(env) ==
    [env EXCEPT !.pjrt = "TPU", !.visible = <<0>>,
                !.ports = IF @ = <<>> THEN <<BasePort>> ELSE @]

\* tpu-device cpu: the port flags stay.
CpuMode(env) == [env EXCEPT !.jax = "cpu", !.pjrt = "CPU", !.visible = <<>>]

\* The device lists tpu-device accepts: the regular expression admits any order
\* and repetition, the pairs are then checked one by one, four ids are not.
Accepted(devs) ==
    /\ devs \in Seq(Chips)
    /\ \/ Len(devs) \in {1, 4}
       \/ devs \in {<<0, 1>>, <<2, 3>>}

\* mutant: the guard of before 2026-04-30, "skip if already set"
TpuModeSkipsPort(env, devs) ==
    [env EXCEPT !.pjrt = "TPU", !.visible = devs,
                !.ports = IF @ = <<>> THEN <<BasePort + devs[1]>> ELSE @]

\* tpu-device <devs>: JAX_PLATFORMS is not touched.
TpuMode(env, devs) ==
    [env EXCEPT !.pjrt = "TPU", !.visible = devs,
                !.ports = Append(@, BasePort + devs[1])]

-----------------------------------------------------------------------------
(* Chains.  A login shell has sourced /etc/profile.d; below it run commands *)
(* under tpu-device, and further shells: a zsh, a login bash or a tmux pane *)
(* sources /etc/profile.d again (conf/zshrc-profile-d.sh).                  *)

Wrap(devs) == [is |-> "tpu", devs |-> devs]
WrapCpu    == [is |-> "cpu"]
NewShell   == [is |-> "shell"]
Commands   == [is : {"tpu"}, devs : Seq(Chips)] \union {WrapCpu, NewShell}

Enter(env, step) ==
    CASE step.is = "tpu"   -> TpuMode(env, step.devs)
      [] step.is = "cpu"   -> CpuMode(env)
      [] step.is = "shell" -> Defaults(env)

\* A wrapper with a list it does not accept ends with exit 1.
Executes(chain) ==
    \A i \in DOMAIN chain : chain[i].is = "tpu" => Accepted(chain[i].devs)

\* What the last command of a chain is started with.
EnvAfter(chain) ==
    LET env[i \in 0..Len(chain)] ==
            IF i = 0 THEN Defaults(EmptyEnv) ELSE Enter(env[i - 1], chain[i])
    IN  env[Len(chain)]

\* What libtpu makes of it: the last of the repeated flags wins.
MetricsPort(env) == Last(env.ports)
OwnedChips(env)  == ToSet(env.visible)
OnTpu(env)       == env.jax # "cpu" /\ env.pjrt = "TPU" /\ env.visible # <<>>

\* The convention QueryPort relies on: what runs on the TPU runs directly under
\* tpu-device, its list in ascending order, or has no tpu-device above it at all.
Conventional(chain) ==
    \/ \A i \in DOMAIN chain : chain[i].is # "tpu"
    \/ /\ chain # <<>>
       /\ \/ Last(chain).is = "cpu"
          \/ /\ Last(chain).is = "tpu"
             /\ \A i, j \in DOMAIN Last(chain).devs :
                   i < j => Last(chain).devs[i] < Last(chain).devs[j]
=============================================================================
