---- MODULE MCChannelFlow ----
\* TLC instances of ChannelFlow.  They check liveness, so they use no symmetry;
\* the instance has no definition of its own and every bound is in the .cfg.
EXTENDS ChannelFlow
====
