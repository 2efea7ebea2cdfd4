----------------------------- MODULE MCFFmpegRun -----------------------------
EXTENDS FFmpegRun

Audio      == [kind |-> "audio", rate |-> <<0, 0>>]
Video(r)   == [kind |-> "video", rate |-> r]

\* Five frames at 3000/1001 take 16.68 tenths of a second, of which ffprobe
\* tells 16, and they are 4.79 frames; a file whose rate is not known; one
\* whose rate is written without a slash.
Cut      == [duration |-> 16, streams |-> <<Audio, Video(<<3000, 1001>>)>>]
NoRate   == [duration |-> 10, streams |-> <<Video(<<0, 0>>)>>]
Exact    == [duration |-> 10, streams |-> <<Video(<<1>>), Audio>>]

MCMedias == {Cut, NoRate}
MCCut    == {Cut}
MCExact  == {Exact}
==============================================================================
