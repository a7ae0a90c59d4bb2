---------------------------- MODULE DataObjects -----------------------------
(* The objects that are used by one thread at a time, or copied on write,   *)
(* side by side: "subject" says which of them a behaviour is of.            *)
EXTENDS IoBuffer, HeaderMap, AddressFilter, ServiceStatistics, HttpCodecFilter

VARIABLE subject

Subjects == {"EIoBuffer", "HeaderMapImpl", "EBlacklistFilter", "EIoServiceStatistics", "EHttpCodecFilter"}

\* The others stay what they are.
Others(s) ==
    /\ subject = s /\ UNCHANGED subject
    /\ s # "EIoBuffer" => UNCHANGED iob
    /\ s # "HeaderMapImpl" => UNCHANGED headers
    /\ s # "EBlacklistFilter" => UNCHANGED filterVars
    /\ s # "EIoServiceStatistics" => UNCHANGED statisticsVars
    /\ s # "EHttpCodecFilter" => UNCHANGED codecFilterVars

Init ==
    /\ subject \in Subjects
    /\ IoBufferInit /\ (subject # "EIoBuffer" => iob = Allocated(0, FALSE))
    /\ HeadersInit
    /\ FilterInit /\ (subject # "EBlacklistFilter" => isBlacklist)
    /\ StatisticsInit /\ (subject # "EIoServiceStatistics" => now = 1)
    /\ CodecFilterInit

Next ==
    \/ Others("EIoBuffer") /\ IoBufferNext
    \/ Others("HeaderMapImpl") /\ HeadersNext
    \/ Others("EBlacklistFilter") /\ FilterNext
    \/ Others("EIoServiceStatistics") /\ StatisticsNext
    \/ Others("EHttpCodecFilter") /\ CodecFilterNext

Spec == Init /\ [][Next]_<<subject, iob, headers, filterVars, statisticsVars, codecFilterVars>>

\* The types of them all.
DataTypeOK ==
    /\ IoBufferTypeOK /\ HeadersConsistent /\ FilterTypeOK /\ StatisticsTypeOK /\ CodecFilterTypeOK
=============================================================================
