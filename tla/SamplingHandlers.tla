-------------------------- MODULE SamplingHandlers --------------------------
(***************************************************************************)
(* The channels that write from within the caller's logTS, unbuffered: the  *)
(* identity, downsampling, X-out-of-Y, first-last, median, null and defect  *)
(* handlers (id_handler.cpp, downsample_handler.cpp, XoY_handler.cpp,       *)
(* firstlast_handler.cpp, median_handler.cpp, null_handler.cpp,             *)
(* defect_handler.cpp), and parameterizeChannel and logTS of channels.cpp   *)
(* that dispatch to them.                                                   *)
(*                                                                         *)
(* A behaviour is the life of one channel.  The time-stamp of a call is its *)
(* number, so that a line of the log file tells which call wrote it.        *)
(***************************************************************************)
EXTENDS TimeArith, FiniteSets

CONSTANTS
  Handlers,          \* h_types that are open, see below
  SAMPLING_FACTOR, X_FACTOR, Y_FACTOR, MAX_TS,
  SIZEOF_TIMESPEC,   \* setArgMedianHandler compares a count with it
  DBL_MANT_DIG,      \* bits of a double's significand
  Tuples,            \* tuples that are logged; -1 is the poison pill
  ArgValues,         \* single argument values
  ArgLists,          \* argument lists, the first element their length
  Literals,          \* argument values as text: [number, postfix]
  Garbage,           \* time-stamps memory may hold when it is allocated
  MaxCalls,          \* bound of the calls of logTS
  MaxSets            \* bound of the calls of parameterizeChannel

ASSUME SamplingAssumption ==
  /\ Handlers \subseteq {"IDENTITY", "IDENTITY_TSC", "DOWNSAMPLE", "XOY", "FIRSTLAST",
                         "MEDIAN", "NULLH", "DEFECT"}
  /\ Y_FACTOR \in Nat \ {0} /\ X_FACTOR \in 0 .. Y_FACTOR
  /\ SAMPLING_FACTOR \in Nat /\ MAX_TS \in Nat \ {0} /\ DBL_MANT_DIG \in Nat \ {0}
  /\ Tuples \subseteq Int /\ ArgValues \subseteq Int
  /\ \A par \in ArgLists : par \in Seq(Int) /\ Len(par) > 0 /\ Len(par) = par[1] + 1
  /\ \A literal \in Literals : literal.number \in Int

VARIABLES
  h_type, ch_handler_f, parm_handler_f,
  fileOpen,
  logf,              \* lines of the log file
  factor, counter,   \* downsample_closure
  xoy,               \* x_factor and y_factor of XoY_closure
  lastLine,          \* firstlast_closure: <<>> or the last tuple with its time
  buffer, nr_ts, max_ts, \* median_closure
  full,              \* the next line of a TSC format has the wall clock time
  reported,          \* defect_closure: the calls it has logged
  ret,               \* what parameterizeChannel has returned last
  calls,             \* history: the tuples of the handler calls
  setAt,             \* history: handler calls before the last parameter was set
  sets,              \* history: calls of parameterizeChannel
  pendingArg         \* <<>> or the argument of a call that has to return

handlerVars == <<factor, counter, xoy, lastLine, buffer, nr_ts, max_ts, full, reported>>
samplingVars == <<h_type, ch_handler_f, parm_handler_f, fileOpen, logf, handlerVars, ret,
                  calls, setAt, sets, pendingArg>>

Line(t, s, wall) == [tuple |-> t, stamp |-> s, wall |-> wall]
NoTuple == Line(-1, 0, FALSE)  \* "ERROR: no tuple logged!"
Median(s) == Line(-1, s, TRUE)

\* Memory as it is allocated: of it only slot 0 is read before it is written.
Buffers(n) == {[i \in 0 .. n - 1 |-> g] : g \in Garbage}

HandlerOf == [IDENTITY |-> "IdentityHandler", IDENTITY_TSC |-> "IdentityHandlerTsc",
              DOWNSAMPLE |-> "DownsampleHandler", XOY |-> "XoYHandler",
              FIRSTLAST |-> "FirstlastHandler", MEDIAN |-> "MedianHandler",
              NULLH |-> "NullHandler", DEFECT |-> "DefectHandler"]

Settable == {"DOWNSAMPLE", "XOY", "MEDIAN", "DEFECT"}

\* The init functions of the handlers, and the channel as openChannel has left it.
SamplingInit ==
  /\ h_type \in Handlers
  /\ ch_handler_f = HandlerOf[h_type] /\ parm_handler_f = (h_type \in Settable)
  /\ fileOpen = (h_type # "DEFECT") /\ logf = <<>>
  /\ factor = SAMPLING_FACTOR /\ counter = 1
  /\ xoy = [x |-> X_FACTOR, y |-> Y_FACTOR]
  /\ lastLine = <<>>
  /\ buffer \in Buffers(IF h_type = "MEDIAN" THEN MAX_TS ELSE 0)
  /\ nr_ts = 0 /\ max_ts = MAX_TS
  /\ full = TRUE /\ reported = {} /\ ret = 0
  /\ calls = <<>> /\ setAt = 0 /\ sets = 0 /\ pendingArg = <<>>

-----------------------------------------------------------------------------
(* Handlers.  now is the time of the call. *)

now == Len(calls) + 1
write(l) == logf' = Append(logf, l)

IdentityHandler(tuple) ==
  write(Line(tuple, now, TRUE)) /\ UNCHANGED handlerVars

laterFull == FALSE

IdentityHandlerTsc(tuple) ==
  /\ write(Line(tuple, now, full))
  /\ full' = laterFull
  /\ UNCHANGED <<factor, counter, xoy, lastLine, buffer, nr_ts, max_ts, reported>>

recount == 1

DownsampleHandler(tuple) ==
  /\ IF counter < factor
     THEN counter' = counter + 1 /\ UNCHANGED logf
     ELSE counter' = recount /\ write(Line(tuple, now, TRUE))
  /\ UNCHANGED <<factor, xoy, lastLine, buffer, nr_ts, max_ts, full, reported>>

y_mask == (xoy.y - 1) % WORD

\* The operator &, bit by bit.
bitAnd[a \in Nat] ==
  [b \in Nat |-> IF a = 0 \/ b = 0 THEN 0
                 ELSE 2 * bitAnd[a \div 2][b \div 2] + (a % 2) * (b % 2)]

XoYHandler(tuple) ==
  /\ IF bitAnd[tuple % WORD][y_mask] < xoy.x THEN write(Line(tuple, now, TRUE)) ELSE UNCHANGED logf
  /\ UNCHANGED handlerVars

lastSeen(l) == <<l>>

FirstlastHandler(tuple) ==
  /\ lastLine' = lastSeen(Line(tuple, now, TRUE))
  /\ IF lastLine = <<>> THEN write(Line(tuple, now, TRUE)) ELSE UNCHANGED logf
  /\ UNCHANGED <<factor, counter, xoy, buffer, nr_ts, max_ts, full, reported>>

\* qsort with void_compareTS.
sorted(b) ==
  CHOOSE s \in [DOMAIN b -> {b[i] : i \in DOMAIN b}] :
    /\ \A i, j \in DOMAIN b : i < j => s[i] <= s[j]
    /\ \A v \in {b[i] : i \in DOMAIN b} :
         Cardinality({i \in DOMAIN b : s[i] = v}) = Cardinality({i \in DOMAIN b : b[i] = v})

medianOf(s, n) ==
  IF n % 2 = 0 THEN (s[(n - 1) \div 2] + s[n \div 2]) \div 2 ELSE s[n \div 2]

\* The time-stamp that fills the buffer is not taken; the slot 0 is never written.
\* After a realloc that has failed there is no buffer, and no step: the process ends.
MedianHandler(tuple) ==
  /\ DOMAIN buffer # {}
  /\ IF nr_ts + 1 < max_ts
     THEN /\ nr_ts' = nr_ts + 1 /\ buffer' = [buffer EXCEPT ![nr_ts + 1] = now]
          /\ UNCHANGED logf
     ELSE /\ buffer' = sorted(buffer) /\ nr_ts' = 0
          /\ write(Median(medianOf(sorted(buffer), max_ts)))
  /\ UNCHANGED <<factor, counter, xoy, lastLine, max_ts, full, reported>>

DefectHandler(tuple) ==
  /\ reported' = reported \cup {"handler"}
  /\ UNCHANGED <<logf, factor, counter, xoy, lastLine, buffer, nr_ts, max_ts, full>>

NullHandler(tuple) == UNCHANGED <<logf, handlerVars>>

HandlerCall(tuple) ==
  \/ ch_handler_f = "IdentityHandler" /\ IdentityHandler(tuple)
  \/ ch_handler_f = "IdentityHandlerTsc" /\ IdentityHandlerTsc(tuple)
  \/ ch_handler_f = "DownsampleHandler" /\ DownsampleHandler(tuple)
  \/ ch_handler_f = "XoYHandler" /\ XoYHandler(tuple)
  \/ ch_handler_f = "FirstlastHandler" /\ FirstlastHandler(tuple)
  \/ ch_handler_f = "MedianHandler" /\ MedianHandler(tuple)
  \/ ch_handler_f = "DefectHandler" /\ DefectHandler(tuple)
  \/ ch_handler_f = "NullHandler" /\ NullHandler(tuple)

\* closure::closeChannel, and what the first-last channel writes before it; into a file
\* that is closed already, nothing.  A defect channel has nothing to close.
closeFile ==
  IF h_type = "DEFECT" THEN UNCHANGED <<ch_handler_f, fileOpen, logf>>
  ELSE /\ ch_handler_f' = "NullHandler" /\ fileOpen' = FALSE
       /\ IF h_type = "FIRSTLAST" /\ fileOpen
          THEN write(IF lastLine = <<>> THEN NoTuple ELSE lastLine[1])
          ELSE UNCHANGED logf

\* logTS with a tuple.
logTuple(tuple) ==
  /\ Len(calls) < MaxCalls /\ pendingArg = <<>>
  /\ HandlerCall(tuple)
  /\ calls' = IF fileOpen THEN Append(calls, tuple) ELSE calls
  /\ UNCHANGED <<h_type, ch_handler_f, parm_handler_f, fileOpen, ret, setAt, sets,
                 pendingArg>>

\* logTS with the poison pill, and closeChannel.
closeSampling ==
  /\ pendingArg = <<>> /\ closeFile
  /\ UNCHANGED <<h_type, parm_handler_f, handlerVars, ret, calls, setAt, sets,
                 pendingArg>>

-----------------------------------------------------------------------------
(* Parameters. *)

\* A parameter is set: from here on, the channel is judged by it.
accept == /\ ret' = 0 /\ setAt' = Len(calls)
          /\ UNCHANGED <<ch_handler_f, parm_handler_f, fileOpen, logf>>
refuse == /\ ret' = -1 /\ closeFile /\ UNCHANGED <<parm_handler_f, setAt>>
\* Of two parameters the first one is set.
refuseRest == /\ ret' = -1 /\ closeFile /\ setAt' = Len(calls)
              /\ UNCHANGED parm_handler_f

\* setArgDownsampleHandler: a factor below 1 is not refused.
setArgDownsampleHandler(nr, value) ==
  /\ h_type = "DOWNSAMPLE"
  /\ IF nr = 0 THEN accept /\ factor' = value ELSE refuse /\ UNCHANGED factor
  /\ UNCHANGED <<counter, xoy, lastLine, buffer, nr_ts, max_ts, full, reported>>

setAllDownsample(par) ==
  setArgDownsampleHandler(IF par[1] = 1 THEN 0 ELSE 1, par[2])

\* floor(log2(n)) for n > 0, and pow(2, k).
floorLog2[n \in Nat] == IF n < 2 THEN 0 ELSE 1 + floorLog2[n \div 2]
pow2[k \in Nat] == IF k = 0 THEN 1 ELSE 2 * pow2[k - 1]

\* Variant: any Y is taken.
powerOfTwo_any(Y) == TRUE

\* For Y = 0, floor(log2(Y)) is minus infinity, and two to it 0.
powerOfTwo(Y) == Y = 0 \/ pow2[floorLog2[Y]] = Y

\* (double) Y: the nearest number of DBL_MANT_DIG bits, of two the even one.
toDouble(Y) ==
  IF Y <= pow2[DBL_MANT_DIG] THEN Y
  ELSE LET ulp == pow2[floorLog2[Y] + 1 - DBL_MANT_DIG]
           q == Y \div ulp
           up == 2 * (Y % ulp) > ulp \/ (2 * (Y % ulp) = ulp /\ q % 2 = 1)
       IN  (IF up THEN q + 1 ELSE q) * ulp

\* The factors a channel starts with are good, and a word has a number of bits.
ASSUME FactorsAssumption ==
  /\ Y_FACTOR < WORD /\ Y_FACTOR <= pow2[DBL_MANT_DIG] /\ powerOfTwo(Y_FACTOR)
  /\ \E k \in 0 .. 64 : WORD = pow2[k]

checkConsistency(X, Y) == Y >= X /\ powerOfTwo(toDouble(Y))

\* The factors after argument nr is set, and whether it is consistent with the other.
withArg(p, nr, value) ==
  LET v == value % WORD
      new == IF nr = 0 THEN [p EXCEPT !.x = v] ELSE [p EXCEPT !.y = v]
      ok == nr \in {0, 1} /\ checkConsistency(new.x, new.y)
  IN [ok |-> ok, p |-> IF ok THEN new ELSE p]

\* setArgXoYHandler.
setArgXoYHandler(nr, value) ==
  /\ h_type = "XOY"
  /\ LET r == withArg(xoy, nr, value)
     IN xoy' = r.p /\ IF r.ok THEN accept ELSE refuse
  /\ UNCHANGED <<factor, counter, lastLine, buffer, nr_ts, max_ts, full, reported>>

\* All at once: Y first, checked against the old X.  A list of another length is
\* refused, and the channel not closed.
setAllXoY(par) ==
  /\ h_type = "XOY"
  /\ IF par[1] # 2
     THEN /\ ret' = -1
          /\ UNCHANGED <<ch_handler_f, parm_handler_f, fileOpen, logf, setAt, xoy>>
     ELSE LET r1 == withArg(xoy, 1, par[3])
              r2 == IF r1.ok THEN withArg(r1.p, 0, par[2]) ELSE r1
          IN xoy' = r2.p /\ IF r2.ok THEN accept ELSE IF r1.ok THEN refuseRest ELSE refuse
  /\ UNCHANGED <<factor, counter, lastLine, buffer, nr_ts, max_ts, full, reported>>

\* setArgMedianHandler.  realloc keeps the old time-stamps if the memory stays aligned,
\* else memory is allocated anew, and realloc and aligned_alloc can fail.
setArgMedianHandler(nr, value) ==
  /\ h_type = "MEDIAN"
  /\ UNCHANGED <<factor, counter, xoy, lastLine, full, reported>>
  /\ \/ /\ nr # 0 \/ value < SIZEOF_TIMESPEC
        /\ refuse /\ UNCHANGED <<buffer, nr_ts, max_ts>>
     \/ /\ nr = 0 /\ value >= SIZEOF_TIMESPEC
        /\ \/ /\ accept /\ nr_ts' = 0 /\ max_ts' = value
              /\ \/ buffer' \in Buffers(value)
                 \/ buffer' = [i \in {} |-> 0]
           \/ /\ ch_handler_f' = "NullHandler" /\ parm_handler_f' = FALSE /\ ret' = -1
              /\ nr_ts' = 0 /\ max_ts' = 0 /\ buffer' = [i \in {} |-> 0]
              /\ UNCHANGED <<fileOpen, logf, setAt>>

setArgDefectHandler(nr, value) ==
  /\ h_type = "DEFECT"
  /\ ret' = -1 /\ reported' = reported \cup {"parm"}
  /\ UNCHANGED <<ch_handler_f, parm_handler_f, fileOpen, logf, setAt, factor, counter, xoy,
                 lastLine, buffer, nr_ts, max_ts, full>>

unsettable == ~parm_handler_f /\ refuse /\ UNCHANGED handlerVars

\* parameterizeChannel with one number.
setArg(nr, value) ==
  \/ unsettable
  \/ parm_handler_f /\ (setArgDownsampleHandler(nr, value) \/ setArgXoYHandler(nr, value)
                        \/ setArgMedianHandler(nr, value) \/ setArgDefectHandler(nr, value))

calling == /\ sets < MaxSets /\ sets' = sets + 1 /\ pendingArg = <<>>
           /\ UNCHANGED <<h_type, calls>>

parameterizeChannel(nr, value) == calling /\ setArg(nr, value) /\ UNCHANGED pendingArg

\* With -1 and a list, as the configuration of a channel is applied.
parameterizeAll(par) ==
  /\ calling /\ UNCHANGED pendingArg
  /\ \/ unsettable
     \/ parm_handler_f /\ (setAllDownsample(par) \/ setAllXoY(par)
                           \/ setArgMedianHandler(-1, 0) \/ setArgDefectHandler(-1, 0))

\* With a literal.  An invalid one closes the channel, and its number is set all the same.
parameterizeLiteral(nr, literal) ==
  LET r == convertA2Inoexit(literal.number, literal.postfix)
  IN /\ calling
     /\ IF r.valid THEN setArg(nr, r.result) /\ UNCHANGED pendingArg
        ELSE /\ closeFile /\ pendingArg' = <<nr, r.result>>
             /\ UNCHANGED <<ret, setAt, handlerVars, parm_handler_f>>

setInvalid ==
  /\ pendingArg # <<>> /\ setArg(pendingArg[1], pendingArg[2]) /\ pendingArg' = <<>>
  /\ UNCHANGED <<h_type, calls, sets>>

SamplingNext ==
  \/ \E t \in Tuples : logTuple(t)
  \/ closeSampling \/ setInvalid
  \/ \E nr \in {0, 1, 2} : \/ \E v \in ArgValues : parameterizeChannel(nr, v)
                           \/ \E l \in Literals : parameterizeLiteral(nr, l)
  \/ \E par \in ArgLists : parameterizeAll(par)

SamplingSpec == SamplingInit /\ [][SamplingNext]_samplingVars
-----------------------------------------------------------------------------
(* Properties. *)

stamps == {logf[i].stamp : i \in DOMAIN logf}
lastStamp == IF logf = <<>> THEN 0 ELSE logf[Len(logf)].stamp

\* Between two samples lie factor - 1 tuples that are not logged, and no sample is
\* overdue, whatever the counter was when the factor was set.  A factor below 1, which
\* setArgDownsampleHandler means to refuse and takes, is left out
\* (downsample_handler.cpp, DownsampleHandler).
EveryNth ==
  h_type = "DOWNSAMPLE" /\ factor >= 1 =>
    /\ \A i \in DOMAIN logf :
         i > 1 /\ logf[i - 1].stamp > setAt => logf[i].stamp - logf[i - 1].stamp = factor
    /\ fileOpen =>
         Len(calls) - (IF lastStamp > setAt THEN lastStamp ELSE setAt) <= factor - 1

\* A tuple is logged iff its number modulo Y is below X, with the X and Y in force: no
\* sequence of settings, one by one or together, accepted or refused, gives the handler
\* factors from 1 to 2^53 for which its mask is not that modulus.  The others, which the
\* header says close the channel or checkConsistency sees only as the nearest double, are
\* left out (XoY_handler.cpp).
XoYExact ==
  h_type = "XOY" /\ xoy.x >= 1 /\ xoy.y <= pow2[DBL_MANT_DIG] =>
    \A c \in setAt + 1 .. Len(calls) : c \in stamps <=> calls[c] % xoy.y < xoy.x

\* A first-last channel that has been closed holds the first and the last tuple, also
\* if these are one, and a note if there was none (firstlast_handler.cpp).
FirstLastOnly ==
  h_type = "FIRSTLAST" /\ ~fileOpen =>
    logf = IF calls = <<>> THEN <<NoTuple>>
           ELSE <<Line(calls[1], 1, TRUE), Line(calls[Len(calls)], Len(calls), TRUE)>>

\* A file of a TSC format starts with a wall clock time, has no other, and misses no
\* tuple: what is needed to convert it, and all that the reader of the format expects
\* (id_handler.cpp, IdentityHandlerTsc).
TscDecodable ==
  h_type = "IDENTITY_TSC" =>
    logf = [i \in DOMAIN calls |-> Line(calls[i], i, i = 1)]

\* Each handler logs the calls it promises, no others, whatever was set before, as long as
\* the factors in force are those the headers allow and a double represents
\* (id_handler.cpp, downsample_handler.cpp, XoY_handler.cpp, firstlast_handler.cpp).
LoggedAsPromised == EveryNth /\ XoYExact /\ FirstLastOnly /\ TscDecodable

\* Violated by the code; median_handler.h: "Once the buffer is full, the median over all
\* time-stamps is computed".  A line is the median of the time-stamps of its window.
MedianOfWindow ==
  h_type = "MEDIAN" /\ setAt = 0 =>
    \A k \in DOMAIN logf :
      logf[k].stamp = medianOf([i \in 0 .. MAX_TS - 1 |-> (k - 1) * MAX_TS + 1 + i], MAX_TS)
=============================================================================
