SPECIFICATION Spec
CONSTANTS
    hdmi_resolutions <- MCResolutions
    hdmi_refresh_rates <- MCRates
INVARIANTS PorchesFit PllClose ShownIsReal
PROPERTY SearchEnds
CHECK_DEADLOCK FALSE
