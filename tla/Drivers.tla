------------------------------ MODULE Drivers ------------------------------
(***************************************************************************)
(* The benchmark drivers of pkg/drivers, as far as the orchestration in    *)
(* cmd/k8s-netperf can tell them apart: which profiles a driver accepts,   *)
(* and what ParseResults makes of the bytes a Run returned.                *)
(***************************************************************************)

\* The names main puts in requestedDrivers (k8s-netperf.go 417-429); NewDriver
\* recognises exactly these.
DriverNames == {"netperf", "uperf", "iperf3", "ib_write_bw"}

\* The alternatives of config.validTests.
ProfileNames ==
  {"TCP_STREAM_LAT", "TCP_STREAM", "UDP_STREAM", "TCP_RR", "UDP_RR", "TCP_CRR",
   "UDP_CRR", "SCTP_STREAM", "SCTP_RR", "SCTP_CRR"}

\* validConfig matches with (?i): a profile reaches the drivers in whatever case
\* the file has it. `upper' says it is spelled in upper case.
Profiles == [name : ProfileNames, upper : BOOLEAN]

StreamNames == {"TCP_STREAM_LAT", "TCP_STREAM", "UDP_STREAM", "SCTP_STREAM"}

\* strings.Contains(p, "STREAM") is case-sensitive.
ContainsSTREAM(p) == p.upper /\ p.name \in StreamNames

IsTCPStreamLat(p) == p.upper /\ p.name = "TCP_STREAM_LAT"

IsTestSupportedNetperf(p) == ~ IsTCPStreamLat(p)

IsTestSupportedIperf3(p) == ~ IsTCPStreamLat(p) /\ ContainsSTREAM(p)

IsTestSupportedUperf(p) == ~ (p.upper /\ p.name = "TCP_CRR")

\* The only driver that folds the case before it compares.
IsTestSupportedIbWriteBw(p) == p.name = "UDP_STREAM"

\* Driver.IsTestSupported of the driver NewDriver(d, nc) returns.
IsTestSupported(d, p) ==
  \/ d = "netperf"     /\ IsTestSupportedNetperf(p)
  \/ d = "iperf3"      /\ IsTestSupportedIperf3(p)
  \/ d = "uperf"       /\ IsTestSupportedUperf(p)
  \/ d = "ib_write_bw" /\ IsTestSupportedIbWriteBw(p)

----------------------------------------------------------------------------
(***************************************************************************)
(* What Run can hand to ParseResults with a nil error:                     *)
(*   measured  the complete report of a benchmark;                         *)
(*   empty     nothing, or a report cut short (fewer than five lines, an   *)
(*             incomplete JSON document, no Txn2 line, no data row);       *)
(*   noise     five or more lines without a figure (a usage text);         *)
(*   nan       a report whose figure is NaN.                               *)
(***************************************************************************)
OutputKinds == {"measured", "empty", "noise", "nan"}

\* What ends up in Sample.Throughput.
Figures == {"measured", "zero", "nan"}

Accept(figure) == [ok |-> TRUE, figure |-> figure]
Reject         == [ok |-> FALSE, figure |-> "zero"]

\* Fewer than five lines and NaN are errors; a report with no THROUGHPUT line
\* leaves the zero value in place.
ParseResultsNetperf(o) ==
  CASE o = "measured"         -> Accept("measured")
    [] o = "noise"            -> Accept("zero")
    [] o \in {"empty", "nan"} -> Reject

\* A decoding error is logged and dropped: the zero value is returned with nil.
ParseResultsIperf3(o) ==
  IF o = "measured" THEN Accept("measured") ELSE Accept("zero")

\* Never an error: the mean of no transaction is NaN (stats.Mean), its error is
\* dropped.
ParseResultsUperf(o) ==
  IF o = "measured" THEN Accept("measured") ELSE Accept("nan")

\* No row whose first and fourth columns are numbers is an error; Sscanf reads
\* "nan" as a number.
ParseResultsIbWriteBw(o) ==
  CASE o = "measured"           -> Accept("measured")
    [] o = "nan"                -> Accept("nan")
    [] o \in {"empty", "noise"} -> Reject

\* Driver.ParseResults of driver d.
ParseResults(d, o) ==
  CASE d = "netperf"     -> ParseResultsNetperf(o)
    [] d = "iperf3"      -> ParseResultsIperf3(o)
    [] d = "uperf"       -> ParseResultsUperf(o)
    [] d = "ib_write_bw" -> ParseResultsIbWriteBw(o)

============================================================================
