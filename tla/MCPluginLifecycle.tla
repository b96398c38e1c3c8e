---- MODULE MCPluginLifecycle ----
EXTENDS PluginLifecycle

CONSTANTS search, image, s1, s2, on

Capabilities == {search, image}

\* The search provider can be set up in two ways, the image tool in one.
Setups(c) == IF c = search THEN {s1, s2} ELSE {on}
====
