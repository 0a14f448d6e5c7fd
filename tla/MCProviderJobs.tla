---------------------------- MODULE MCProviderJobs ----------------------------
EXTENDS ProviderJobs

\* Names for the sigs, to be given model values.
CONSTANTS compute, network, serial
=============================================================================
