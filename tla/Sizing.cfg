\* Sources below, at and above the presets, odd and extreme ones included.
CONSTANTS
    Widths = {3, 640, 1281, 1920, 20000}
    Heights = {2, 144, 269, 270, 479, 719, 1024, 1080, 8000}
    Skips = {0, 720}
    Masks = {0, 4, 6, 24, 200}
    Onlines = {0, 1000}
    Threads = {0, 3, 64}
    StripeRows = {0, 1, 100}
SPECIFICATION Spec
INVARIANTS PlanEnlarges StripesThick CountsAgree
