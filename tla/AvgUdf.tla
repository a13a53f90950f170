------------------------------- MODULE AvgUdf -------------------------------
(***************************************************************************)
(* The aggregation UDF avg (example_udfs/avg.rs), run on the requests that *)
(* the filters of the mesh send to the storage service, each with a value. *)
(* The UDF's numbers are u64, which the release build of the filter wraps  *)
(* at 2^64; here they wrap at Modulus.  A value that is no number is left  *)
(* out: the UDF unwraps the error.                                         *)
(***************************************************************************)
EXTENDS Naturals, FiniteSetsExt

CONSTANT Modulus   \* 2^64

ASSUME ModulusAssumption == Modulus \in Nat \ {0}

U64 == 0 .. Modulus - 1

(* struct Avg *)
AvgStruct == [avg : U64, total : U64, num_instances : U64]

New == [avg |-> 0, total |-> 0, num_instances |-> 0]

(* Mutant: the average is taken before the instance is added. *)
ExecuteStale(self, instance) ==
    [total         |-> (self.total + instance) % Modulus,
     num_instances |-> (self.num_instances + 1) % Modulus,
     avg           |-> self.total \div ((self.num_instances + 1) % Modulus)]

(* Mutant: the total has no width. *)
ExecuteUnbounded(self, instance) ==
    LET total == self.total + instance
        num   == self.num_instances + 1
    IN  [total |-> total, num_instances |-> num, avg |-> total \div num]

(* execute; the string it returns is avg. *)
Execute(self, instance) ==
    LET total == (self.total + instance) % Modulus
        num   == (self.num_instances + 1) % Modulus
    IN  [total |-> total, num_instances |-> num, avg |-> total \div num]

-----------------------------------------------------------------------------
Sum(values) == MapThenSumSet(LAMBDA r : values[r], DOMAIN values)

(* The average of the values received, a function of the requests, with    *)
(* the total as the machine has it. *)
AverageOf(values) == (Sum(values) % Modulus) \div Cardinality(DOMAIN values)
=============================================================================
