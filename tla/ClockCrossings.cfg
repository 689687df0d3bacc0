\* Two capturing domains, one of them the video clock; three payloads.
SPECIFICATION FairCrossingSpec
CONSTANTS
    Destinations = {video, sys}
    Payloads = {p0, p1, p2}
    Default = p0
    Source = src
    Torn = torn
    MaxAccepted = 3
    Video = video
INVARIANT StrobedOnce
PROPERTIES
    CrossingIsMailbox
    CommandEmitted
