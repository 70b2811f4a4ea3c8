---- MODULE MC_PortableWait ----
EXTENDS PortableWait
====
