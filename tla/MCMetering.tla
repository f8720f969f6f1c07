------------------------------ MODULE MCMetering ------------------------------
(* Small limits for the metering of an invocation. *)
EXTENDS Metering

CONSTANTS
    DefaultLimits,      \* cpu limits under the default cost parameters
    FlatLimits          \* cpu limits when every charge costs one instruction

\* Network settings under which every charge costs 1 and fuel costs 3, so that
\* the limit need not be a multiple of the price of fuel.
FlatCpu == [[ty \in CostType |-> Cost(1, 0)] EXCEPT !["WasmInsnExec"] = Cost(3, 0)]
FlatMem == [[ty \in CostType |-> Cost(0, 0)] EXCEPT !["MemAlloc"] = Cost(0, from_unscaled(1))]

MCParams ==
    [default |-> [cpu |-> DefaultCpu, mem |-> DefaultMem],
     flat    |-> [cpu |-> FlatCpu, mem |-> FlatMem]]

MCConfig ==
    { [net |-> "default", cpu_limit |-> l, mem_limit |-> 280000,
        shadow_limit |-> 2000] : l \in DefaultLimits }
    \union { [net |-> "flat", cpu_limit |-> l, mem_limit |-> 9000,
                 shadow_limit |-> 10] : l \in FlatLimits }

Module(memory, table, proto, fault) ==
    [len |-> 1, memory |-> memory, table |-> table, proto |-> proto, pre |-> 0,
     has_meta |-> TRUE, many_args |-> FALSE, fault |-> fault]

\* A plain module, one with memory, one for a later protocol, one that does not
\* link, one whose table is too large and one without metadata.
MCCode ==
    { Module(0, 0, 20, "none"), Module(4096, 1000, 20, "none"), Module(4096, 0, 21, "none"),
      Module(0, 0, 19, "Linker"), Module(0, 1001, 20, "none"),
      [Module(0, 0, 20, "none") EXCEPT !.has_meta = FALSE] }
=============================================================================
