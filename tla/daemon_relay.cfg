SPECIFICATION HeadlessSpec
CONSTANTS
    Loop = loop
    Shots = {shot1}
    Threshold = 2
    MaxConsentChanges = 0
    MaxLostWrites = 0
PROPERTY RelayNodeGossips
CHECK_DEADLOCK FALSE
