------------------------------ MODULE MCCrawl ------------------------------
(* Instances of Crawl: node 1 is the bootnode, node 2 is found on a walk.   *)
EXTENDS Crawl

TwoNodes == 1..2

\* Two nodes and no sampler; one node that is probed more often and may be due
\* before the event of its last ping is written; one node whose record changes,
\* and the sampler.
ProbesAndSamples ==
  { [nodes |-> {1, 2}, misses |-> 2, samplers |-> {}, seq |-> 0, probes |-> 2, samples |-> 0],
    [nodes |-> {1}, misses |-> 1, samplers |-> {}, seq |-> 0, probes |-> 5, samples |-> 0],
    [nodes |-> {1}, misses |-> 1, samplers |-> {"s1"}, seq |-> 1, probes |-> 1, samples |-> 2] }
=============================================================================
