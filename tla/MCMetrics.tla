------------------------------ MODULE MCMetrics ------------------------------
EXTENDS Metrics

\* The lists of the handbook's examples and of tests/test-tpu-device.sh.
Documented == {<<0>>, <<1>>, <<2>>, <<3>>, <<0, 1>>, <<2, 3>>, <<0, 1, 2, 3>>}

Wraps == {Wrap(devs) : devs \in Documented \union {<<1, 2>>}}
Steps == Wraps \union {WrapCpu, NewShell}

\* A job is started under tpu-device, itself below up to two shells or wrappers,
\* or from a shell with no tpu-device above it.
Wrapped == {Append(above, w) : above \in BoundedSeq(Steps, 2), w \in Wraps}
               \union BoundedSeq({WrapCpu, NewShell}, 2)

\* These are launches the theorem of Metrics_proofs speaks of.
ASSUME WrappedIsConventional ==
    \A chain \in Wrapped : Executes(chain) => Conventional(chain)

\* A job is started under tpu-device or from a shell, either below a wrapper.
Nested == {<<a, b>> : a, b \in {Wrap(<<0>>), Wrap(<<2>>), NewShell}}
=============================================================================
